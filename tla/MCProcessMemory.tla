--------------------------- MODULE MCProcessMemory ---------------------------
(***************************************************************************)
(* ProcessMemory with values for its constants: one program that takes a   *)
(* block of the heap, one that takes four.                                 *)
(***************************************************************************)
EXTENDS ProcessMemory

MCPrograms == {"SH", "TEST"}
MCFileSize == [f \in MCPrograms |-> IF f = "SH" THEN 200 ELSE 1000]
MCSizes    == StructureSizes
=============================================================================
