-------------------------------- MODULE Pic --------------------------------
(***************************************************************************)
(* The cascaded pair of 8259A interrupt controllers, as pic.c programs it. *)
(*                                                                         *)
(* Lines 0..7 are the master's, lines 8..15 the slave's; the slave hangs   *)
(* on line 2 of the master.  A set of lines stands for a register of both  *)
(* controllers: the mask (IMR), the latched requests (IRR) and the lines   *)
(* in service (ISR).  The controllers are edge triggered, in fully nested  *)
(* mode and without automatic end of interrupt (picInit, ICW1 and ICW4).   *)
(***************************************************************************)
EXTENDS Integers

CONSTANT AtaIrqUnmasked \* does ATAInit unmask line 14? FALSE in this commit

ASSUME PicAssumption == AtaIrqUnmasked \in BOOLEAN

VARIABLES irr,  \* lines whose request is latched and not yet acknowledged
          isr   \* lines in service: acknowledged, no end of interrupt yet

PIC_MASTER_INTERRUPT_NUM == 32
PIC_SLAVE_INTERRUPT_NUM  == 40

HPET_INTERRUPT_NUM    == 32
KBC_INTERRUPT_NUM     == 33
ATA_INTERRUPT_NUM     == 46
SYSCALL_INTERRUPT_NUM == 128

Lines   == 0 .. 15
Cascade == 2 \* the master's line the slave is connected to (ICW3)

OnMaster(n) == PIC_MASTER_INTERRUPT_NUM <= n /\ n < PIC_SLAVE_INTERRUPT_NUM
OnSlave(n)  == PIC_SLAVE_INTERRUPT_NUM <= n /\ n < PIC_SLAVE_INTERRUPT_NUM + 8

(***************************************************************************)
(* The line an interrupt number is wired to (picInit's ICW2), and the set  *)
(* of lines of both controllers that its mask bit and its end of interrupt *)
(* concern: none for a number outside both ranges, such as a system call.  *)
(***************************************************************************)
Line(n) == n - PIC_MASTER_INTERRUPT_NUM

LinesOf(n) == IF OnMaster(n) THEN {Line(n)}
              ELSE IF OnSlave(n) THEN {Cascade, Line(n)}
              ELSE {}

picInit == Lines \* OCW1: every line masked

\* The mask after EnableInterruptOnPIC(n), from the mask m.
EnableInterruptOnPIC(m, n) == m \ LinesOf(n)

\* Mutant: the end of interrupt goes to the slave only.
SendEndOfInterruptNoCascade(s, n) ==
  s \ (IF OnSlave(n) THEN {Line(n)} ELSE LinesOf(n))

\* The lines in service after SendEndOfInterrupt(n), from the set s.
SendEndOfInterrupt(s, n) == s \ LinesOf(n)

(***************************************************************************)
(* What the initialisation of each device does to the mask.  ATAInit has   *)
(* its own call commented out.                                             *)
(***************************************************************************)
KBCInit(m)     == EnableInterruptOnPIC(m, KBC_INTERRUPT_NUM)
HPETInit(m)    == EnableInterruptOnPIC(m, HPET_INTERRUPT_NUM)
SyscallInit(m) == EnableInterruptOnPIC(m, SYSCALL_INTERRUPT_NUM)
ATAInit(m)     == IF AtaIrqUnmasked THEN EnableInterruptOnPIC(m, ATA_INTERRUPT_NUM) ELSE m

\* The mask start_kernel leaves behind.
BootMask == ATAInit(SyscallInit(HPETInit(KBCInit(picInit))))

-----------------------------------------------------------------------------
(***************************************************************************)
(* The hardware: when the controllers present a latched request to the     *)
(* processor, and what the acknowledge cycle does.                         *)
(***************************************************************************)
MasterLine(l) == IF l < 8 THEN l ELSE Cascade

Unmasked(m, l) == l \notin m /\ MasterLine(l) \notin m

\* A line in service holds back every line of its own or a lower priority.
HeldBack(l) == \E i \in isr : IF i < 8 THEN i <= MasterLine(l) ELSE l >= 8 /\ i <= l

Presentable(m, l) == l \in irr /\ Unmasked(m, l) /\ ~HeldBack(l)

\* The highest priority first: the smaller master line, then slave line.
PresentedUnder(m, l) ==
  /\ Presentable(m, l)
  /\ \A k \in irr : Presentable(m, k) =>
       \/ MasterLine(l) < MasterLine(k)
       \/ MasterLine(l) = MasterLine(k) /\ l <= k

Presented(l) == PresentedUnder(BootMask, l)

\* The lines in service once the request on line l is acknowledged.
InServiceWith(l) == isr \cup {l, MasterLine(l)}

PicTypeOK == irr \subseteq Lines /\ isr \subseteq Lines
=============================================================================
