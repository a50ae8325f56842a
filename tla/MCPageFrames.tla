---------------------------- MODULE MCPageFrames ----------------------------
(***************************************************************************)
(* PageFrames with values for its constants.                               *)
(***************************************************************************)
EXTENDS PageFrames

\* Every map of eleven pages whose last one is usable.
MCMaps == SUBSET (0 .. 9)

\* Nothing reserved: the lists hold a block of the largest order.
MCNoHoles == {{}}

MCRequests == {1, 2, 3, 5}
MCOne      == {1}
=============================================================================
