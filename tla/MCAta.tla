-------------------------------- MODULE MCAta --------------------------------
(***************************************************************************)
(* Ata with values for its constants.                                      *)
(***************************************************************************)
EXTENDS Ata, TLC

CONSTANTS p0, p1, p2

MCProcs    == {p0, p1, p2}
MCBusy0    == {p0}
MCNone     == {}
MCReaders  == Permutations({p1, p2})
MCLbas     == {1, 2}
MCLba      == {1}
MCOne      == {512}            \* one sector
MCSleep    == {FALSE}
MCPoll     == {TRUE}
MCBoth     == {TRUE, FALSE}
=============================================================================
