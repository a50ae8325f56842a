---------------------------- MODULE Descriptors ----------------------------
(***************************************************************************)
(* The tables the processor reads: segment descriptors (GDT), interrupt    *)
(* gates (IDT) and the stack pointers of the task state segment (TSS), as  *)
(* x86_64.c and interrupt.c pack them.                                     *)
(*                                                                         *)
(* A machine word is the set of the positions of its bits that are 1, so   *)
(* that & is an intersection, | a union and a shift moves every position:  *)
(* 64 bits are then no more than a set, for TLC as for a proof.            *)
(***************************************************************************)
EXTENDS Integers

Shl(w, n)  == {b + n : b \in w}
Shr(w, n)  == {b - n : b \in {c \in w : c >= n}}
Low(w, n)  == w \cap 0 .. n - 1   \* w & ((1 << n) - 1)

Off == {}    \* the word 0
On  == {0}   \* the word 1

PL_KERNEL == Off
PL_USER   == {0, 1}

CS_SEGMENT_SELECTOR_KERNEL == 8
CS_SEGMENT_SELECTOR_USER   == 27
SS_SEGMENT_SELECTOR_USER   == 35

-----------------------------------------------------------------------------
(***************************************************************************)
(* Segment descriptors                                                     *)
(***************************************************************************)

CALC_ACCESS_BYTE(Pr, Priv, S, Ex, DC, RW, Ac) ==
  UNION {Low(Ac, 1), Shl(Low(RW, 1), 1), Shl(Low(DC, 1), 2), Shl(Low(Ex, 1), 3),
         Shl(Low(S, 1), 4), Shl(Low(Priv, 2), 5), Shl(Low(Pr, 1), 7)}

CALC_FLAGS(Gr, Sz, L) ==
  UNION {Shl(Low(L, 1), 1), Shl(Low(Sz, 1), 2), Shl(Low(Gr, 1), 3)}

CalcGDTEntry(base, limit, AccessByte, Flags) ==
  UNION {Low(limit, 16), Shl(Low(base, 16), 16), Shl(Low(Shr(base, 16), 8), 32),
         Shl(Low(AccessByte, 8), 40), Shl(Low(Shr(limit, 16), 4), 48),
         Shl(Low(Flags, 4), 52), Shl(Low(Shr(base, 24), 8), 56)}

CalcTSSDescriptorHigher(base) == Low(Shr(base, 32), 32)

FlatLimit == 0 .. 19 \* 0xfffff

GDT_NULL        == CalcGDTEntry(Off, Off, Off, Off)
GDT_KERNEL_CODE == CalcGDTEntry(Off, FlatLimit,
                     CALC_ACCESS_BYTE(On, PL_KERNEL, On, On, Off, On, Off),
                     CALC_FLAGS(On, Off, On))
GDT_KERNEL_DATA == CalcGDTEntry(Off, FlatLimit,
                     CALC_ACCESS_BYTE(On, PL_KERNEL, On, Off, Off, On, Off),
                     CALC_FLAGS(On, On, Off))
GDT_USER_DATA   == CalcGDTEntry(Off, FlatLimit,
                     CALC_ACCESS_BYTE(On, PL_USER, On, Off, Off, On, Off),
                     CALC_FLAGS(On, On, Off))

GDT_USER_CODE   == CalcGDTEntry(Off, FlatLimit,
                     CALC_ACCESS_BYTE(On, PL_USER, On, On, Off, On, Off),
                     CALC_FLAGS(On, Off, On))

TSSLimit == {3, 5, 6} \* 104
GDT_TSS_DESCRIPTOR_LOWER(base) ==
  CalcGDTEntry(base, TSSLimit,
    CALC_ACCESS_BYTE(On, PL_KERNEL, Off, On, Off, Off, On),
    CALC_FLAGS(Off, Off, Off))
GDT_TSS_DESCRIPTOR_HIGHER(base) == CalcTSSDescriptorHigher(base)

\* What gdtInit puts into the table, for a task state segment at "tss".
GdtEntries(tss) ==
  <<GDT_NULL, GDT_KERNEL_CODE, GDT_KERNEL_DATA, GDT_USER_CODE, GDT_USER_DATA,
    GDT_TSS_DESCRIPTOR_LOWER(tss), GDT_TSS_DESCRIPTOR_HIGHER(tss)>>

(***************************************************************************)
(* The processor's reading of a descriptor.                                *)
(***************************************************************************)
BaseOf(d)   == Low(Shr(d, 16), 16) \cup Shl(Low(Shr(d, 32), 8), 16)
                 \cup Shl(Low(Shr(d, 56), 8), 24)
LimitOf(d)  == Low(d, 16) \cup Shl(Low(Shr(d, 48), 4), 16)
AccessOf(d) == Low(Shr(d, 40), 8)
FlagsOf(d)  == Low(Shr(d, 52), 4)

LevelOf(d)    == Low(Shr(AccessOf(d), 5), 2)
IsPresent(d)  == 7 \in AccessOf(d)
IsCode64(d)   == {3, 4} \subseteq AccessOf(d) /\ 1 \in FlagsOf(d) /\ 2 \notin FlagsOf(d)

\* A selector: an index into the table, and the level in its low two bits.
Index(selector)     == selector \div 8
Requested(selector) == IF selector % 4 = 3 THEN PL_USER ELSE PL_KERNEL

-----------------------------------------------------------------------------
(***************************************************************************)
(* Interrupt gates                                                         *)
(***************************************************************************)
SYSCALL_GATE == 128 \* SYSCALL_INTERRUPT_NUM

\* Mutant: every gate may be called by a program.
GateLevelUser(n) == PL_USER

GateLevel(n) == IF n = SYSCALL_GATE THEN PL_USER ELSE PL_KERNEL

Middle(handler) == Low(Shr(handler, 16), 16)

GateType == {1, 2, 3} \* 0xe

\* SetInterruptDescriptor: the gate of interrupt n.
InterruptDescriptor(n, handler, present) ==
  [Offset0_15 |-> Low(handler, 16), SegmentSelector |-> CS_SEGMENT_SELECTOR_KERNEL,
   IST |-> Off, Type |-> GateType, DPL |-> GateLevel(n), P |-> Low(present, 1),
   Offset16_31 |-> Middle(handler), Offset32_63 |-> Low(Shr(handler, 32), 32)]

\* Where the processor jumps to through gate g, and whether it clears the
\* interrupt flag on the way.
HandlerOf(g) == g.Offset0_15 \cup Shl(g.Offset16_31, 16) \cup Shl(g.Offset32_63, 32)
ClearsIF(g)  == 0 \notin g.Type

-----------------------------------------------------------------------------
(***************************************************************************)
(* The task state segment: 32-bit words, the kernel's stack pointer in the *)
(* second and third.                                                       *)
(***************************************************************************)
TssWords == 0 .. 24
ZeroTss  == [i \in TssWords |-> Off]

\* Mutant: the upper half of the stack pointer is not stored.
SwitchKernelStackLow(t, ring0rsp) == [t EXCEPT ![1] = Low(ring0rsp, 32)]

\* The segment t after SwitchKernelStack(ring0rsp).
SwitchKernelStack(t, ring0rsp) ==
  [t EXCEPT ![1] = Low(ring0rsp, 32), ![2] = Low(Shr(ring0rsp, 32), 32)]

\* The stack the processor takes when it leaves level 3.
Ring0Rsp(t) == t[1] \cup Shl(t[2], 32)
=============================================================================
