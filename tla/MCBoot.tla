------------------------------- MODULE MCBoot -------------------------------
(***************************************************************************)
(* Boot with values for its constants: a screen of two lines of three      *)
(* characters, of two by two pixels each.                                  *)
(***************************************************************************)
EXTENDS Boot

MCVectors == {3, 8, 11, 13, 14, 32, 33, 46, 128}

\* Addresses with bits in each of the fields a gate scatters them over.
MCHandlerAt ==
  [DefaultHandler |-> {4}, DoubleFaultHandlerASM |-> {4, 20},
   GeneralProtectionFaultHandlerASM |-> {4, 40}, PageFaultHandlerASM |-> {5, 21, 41},
   KBCHandler |-> {5, 22, 42}, ATAHandlerASM |-> {5}, HPETHandlerASM |-> {6, 21},
   SyscallHandlerASM |-> {7, 23, 43}]
MCTss         == {12, 18, 26, 33}
MCBootStack   == {16}
MCKernelStack == {3, 14, 34}
MCUserStack   == 3 .. 63

\* The keys A, Enter, both shift keys and control.
MCKeys   == {30, 28, 42, 54}
MCLegend == [k \in {28, 30} |-> IF k = 28 THEN <<"\n", "\n">> ELSE <<"a", "A">>]
MCPut    == {"Z"}
=============================================================================
