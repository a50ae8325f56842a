------------------------------- MODULE MCKHeap -------------------------------
(***************************************************************************)
(* KHeap with values for its constants: blocks of 256 bytes as in kHeap.h, *)
(* and sizes that take one block, two, three, six and all sixteen of them. *)
(***************************************************************************)
EXTENDS KHeap

MCSizes == {48, 512, 700, 1500, 4096}
=============================================================================
