------------------------------- MODULE Boot -------------------------------
(***************************************************************************)
(* The kernel from start_kernel on: the boot sequence that fills the       *)
(* processor's tables and the interrupt controllers, and what they are for *)
(* afterwards.  The idle kernel or a program runs, keys arrive, and the    *)
(* program calls the kernel, faults, or names other interrupts.            *)
(*                                                                         *)
(* The processor is part of the model: which handler an interrupt, a fault *)
(* or "int" leads to follows from the tables in memory.  Processes,        *)
(* memory and disk are left to their own modules: one program runs.        *)
(***************************************************************************)
EXTENDS Pic, Descriptors, Console, Keyboard

CONSTANTS Vectors,     \* interrupt numbers looked at, of the MAX_INTR_NUM of the table
          HandlerAt,   \* the address of each handler in handler.s
          TssAt,       \* the address of the task state segment
          BootStack, KernelStack, UserStack, \* stack pointers
          PutChars,    \* characters a program prints
          MaxText,     \* bound: characters typed
          MaxPut       \* bound: characters printed by programs

Handlers == {"DefaultHandler", "DoubleFaultHandlerASM", "GeneralProtectionFaultHandlerASM",
             "PageFaultHandlerASM", "KBCHandler", "ATAHandlerASM", "HPETHandlerASM",
             "SyscallHandlerASM"}

DOUBLE_FAULT_EXCP_NUM             == 8
SEGMENT_NOT_PRESENT               == 11
GENERAL_PROTECTION_FAULT_EXCP_NUM == 13
PAGE_FAULT_EXCP_NUM               == 14

ASSUME BootAssumption ==
  /\ Vectors \subseteq 0 .. 255
  /\ {DOUBLE_FAULT_EXCP_NUM, SEGMENT_NOT_PRESENT, GENERAL_PROTECTION_FAULT_EXCP_NUM,
      PAGE_FAULT_EXCP_NUM, HPET_INTERRUPT_NUM, KBC_INTERRUPT_NUM, ATA_INTERRUPT_NUM,
      SYSCALL_INTERRUPT_NUM} \subseteq Vectors
  /\ HandlerAt \in [Handlers -> SUBSET (0 .. 63)]
  /\ \A h, k \in Handlers : HandlerAt[h] = HandlerAt[k] => h = k
  /\ {TssAt, BootStack, KernelStack, UserStack} \subseteq SUBSET (0 .. 63)
  /\ MaxText \in Nat /\ MaxPut \in Nat

VARIABLES pc,     \* how many calls of start_kernel have returned
          gdt, idt, tss, \* the tables, <<>> until they are loaded
          mask,   \* the mask registers of the interrupt controllers
          cpu,    \* the code that runs, the selector it runs with, whether interrupts
                  \* are enabled (IF), the stack pointer, and why the last entry into the kernel happened
          frames, \* what the entries so far have pushed
          con,    \* the console
          typed,  \* what the keys pressed so far stand for
          shown   \* what was printed, whoever printed it

bootVars == <<pc, gdt, idt, tss, mask, cpu, frames, con, typed, shown, irr, isr,
              keyboardVars>>

tables == <<gdt, idt, tss>>
screen == <<con, shown>>

\* Mutant: the interrupt table is set up after the keyboard.
BootSequenceIdtLate ==
  <<"GraphicInit", "gdtInit", "ProcessInit", "picInit", "KBCInit", "idtInit", "HPETInit",
    "SyscallInit", "ATAInit", "PagingInit", "EnableCPUInterrupt">>

\* The calls of start_kernel that concern this state, in their order.
BootSequence ==
  <<"GraphicInit", "gdtInit", "ProcessInit", "idtInit", "picInit", "KBCInit", "HPETInit",
    "SyscallInit", "ATAInit", "PagingInit", "EnableCPUInterrupt">>

Booted     == pc = Len(BootSequence)
Calls(f)   == ~Booted /\ BootSequence[pc + 1] = f
PicIsReady == \E i \in 1 .. pc : BootSequence[i] = "picInit"

-----------------------------------------------------------------------------
(***************************************************************************)
(* The processor                                                           *)
(***************************************************************************)
Absent == [Offset0_15 |-> Off, SegmentSelector |-> 0, IST |-> Off, Type |-> Off,
           DPL |-> Off, P |-> Off, Offset16_31 |-> Off, Offset32_63 |-> Off]

Gate(n)     == IF n \in DOMAIN idt THEN idt[n] ELSE Absent
Segment(s)  == gdt[Index(s) + 1]
Level       == Requested(cpu.cs)
CodeIsAt(a) == {h \in Handlers : HandlerAt[h] = a}

\* A code segment of this level can be loaded with selector s.
Loadable(s, level) ==
  /\ gdt # <<>>
  /\ IsPresent(Segment(s)) /\ IsCode64(Segment(s)) /\ LevelOf(Segment(s)) = level

Usable(n) == Gate(n).P # Off /\ Loadable(Gate(n).SegmentSelector, PL_KERNEL)

\* Where a fault leads: to the double fault if its own gate is of no use.
FaultGate(n) == IF Usable(n) THEN n ELSE DOUBLE_FAULT_EXCP_NUM

\* The gate that is taken for interrupt n: a program may only name its own.
GateFor(n, why) ==
  IF why = "int" /\ Level = PL_USER /\ Gate(n).DPL # PL_USER
  THEN FaultGate(GENERAL_PROTECTION_FAULT_EXCP_NUM)
  ELSE IF Usable(n) THEN n ELSE FaultGate(SEGMENT_NOT_PRESENT)

\* The entry into the kernel through gate n.
EnterThrough(n, why) ==
  /\ frames' = Append(frames, cpu)
  /\ cpu' = [code |-> IF Usable(n) /\ CodeIsAt(HandlerOf(Gate(n))) # {}
                      THEN CHOOSE h \in CodeIsAt(HandlerOf(Gate(n))) : TRUE
                      ELSE "reset",
             cs   |-> Gate(n).SegmentSelector,
             intr |-> cpu.intr /\ ~ClearsIF(Gate(n)),
             rsp  |-> IF Level = PL_USER THEN Ring0Rsp(tss) ELSE cpu.rsp,
             why  |-> why]

Enter(n, why) == EnterThrough(GateFor(n, why), why)

\* iretq with the frame f on the stack, the rest of the stack being below.
Iretq(f, below) ==
  IF Loadable(f.cs, Requested(f.cs))
  THEN cpu' = f /\ frames' = below
  ELSE EnterThrough(FaultGate(GENERAL_PROTECTION_FAULT_EXCP_NUM), "fault")

Top   == frames[Len(frames)]
Below == SubSeq(frames, 1, Len(frames) - 1)

Runs(code) == cpu.code = code
Stopped    == cpu.code = "reset"
                \/ cpu.code \in Handlers \ {"KBCHandler", "SyscallHandlerASM"}

-----------------------------------------------------------------------------
(***************************************************************************)
(* The boot sequence                                                       *)
(***************************************************************************)
Return == pc' = pc + 1

Present(n, h) == idt' = [idt EXCEPT ![n] = InterruptDescriptor(n, HandlerAt[h], On)]

BootGraphic ==
  /\ Calls("GraphicInit")
  /\ con' = GraphicInit(con)
  /\ UNCHANGED <<tables, mask, cpu, shown>>

gdtInit ==
  /\ Calls("gdtInit")
  /\ gdt' = GdtEntries(TssAt)
  /\ tss' = ZeroTss
  /\ cpu' = [cpu EXCEPT !.cs = CS_SEGMENT_SELECTOR_KERNEL]
  /\ UNCHANGED <<idt, mask, screen>>

\* The last lines of ProcessInit that concern the processor.
ProcessInit ==
  /\ Calls("ProcessInit")
  /\ tss' = SwitchKernelStack(tss, KernelStack)
  /\ UNCHANGED <<gdt, idt, mask, cpu, screen>>

\* Every gate names DefaultHandler and is absent, but for the two faults.
IdtEntries ==
  [n \in Vectors |->
     CASE n = DOUBLE_FAULT_EXCP_NUM ->
            InterruptDescriptor(n, HandlerAt["DoubleFaultHandlerASM"], On)
       [] n = GENERAL_PROTECTION_FAULT_EXCP_NUM ->
            InterruptDescriptor(n, HandlerAt["GeneralProtectionFaultHandlerASM"], On)
       [] OTHER -> InterruptDescriptor(n, HandlerAt["DefaultHandler"], Off)]

idtInit ==
  /\ Calls("idtInit")
  /\ idt' = IdtEntries
  /\ UNCHANGED <<gdt, tss, mask, cpu, screen>>

BootPic ==
  /\ Calls("picInit")
  /\ mask' = picInit
  /\ UNCHANGED <<tables, cpu, screen>>

\* The initialisation of a device: its gate, and the mask.
BootDevice(f, n, h, maskAfter) ==
  /\ Calls(f)
  /\ Present(n, h)
  /\ mask' = maskAfter
  /\ UNCHANGED <<gdt, tss, cpu, screen>>

BootDevices ==
  \/ BootDevice("KBCInit", KBC_INTERRUPT_NUM, "KBCHandler", KBCInit(mask))
  \/ BootDevice("HPETInit", HPET_INTERRUPT_NUM, "HPETHandlerASM", HPETInit(mask))
  \/ BootDevice("SyscallInit", SYSCALL_INTERRUPT_NUM, "SyscallHandlerASM", SyscallInit(mask))
  \/ BootDevice("ATAInit", ATA_INTERRUPT_NUM, "ATAHandlerASM", ATAInit(mask))
  \/ BootDevice("PagingInit", PAGE_FAULT_EXCP_NUM, "PageFaultHandlerASM", mask)

\* From here on the kernel is idle: DriveInit, and then the loop of CpuHalt.
EnableCPUInterrupt ==
  /\ Calls("EnableCPUInterrupt")
  /\ cpu' = [cpu EXCEPT !.intr = TRUE, !.code = "idle"]
  /\ UNCHANGED <<tables, mask, screen>>

BootStep ==
  /\ \/ BootGraphic \/ gdtInit \/ ProcessInit \/ idtInit \/ BootPic \/ BootDevices
     \/ EnableCPUInterrupt
  /\ Return
  /\ irr' = IF Calls("picInit") THEN {} ELSE irr
  /\ isr' = IF Calls("picInit") THEN {} ELSE isr
  /\ UNCHANGED <<frames, typed, keyboardVars>>

-----------------------------------------------------------------------------
(***************************************************************************)
(* Keys and the keyboard's interrupt.  A key that is pressed before picInit*)
(* is left out: its byte would hold the interrupt line up while picInit    *)
(* forgets its edge, and nothing would ever read it.                       *)
(***************************************************************************)
KeyEvent ==
  /\ PicIsReady
  /\ ~Stopped \* bound: nothing reads the keyboard any more
  /\ \E k \in Keys :
       \/ /\ KeyDown(k)
          /\ IF k \in Modifiers THEN UNCHANGED typed
             ELSE /\ Len(typed) < MaxText
                  /\ typed' = Append(typed, LegendOf(k, held))
       \/ KeyUp(k) /\ UNCHANGED typed
  /\ UNCHANGED <<pc, tables, mask, cpu, frames, screen, irr, isr>>

\* The output buffer fills up, and the interrupt line rises with it.
ByteArrives ==
  /\ ~Stopped
  /\ ControllerLoads
  /\ irr' = irr \cup {Line(KBC_INTERRUPT_NUM)}
  /\ UNCHANGED <<pc, tables, mask, cpu, frames, screen, typed, isr>>

TakeInterrupt ==
  /\ cpu.intr
  /\ PresentedUnder(mask, Line(KBC_INTERRUPT_NUM))
  /\ irr' = irr \ {Line(KBC_INTERRUPT_NUM)}
  /\ isr' = InServiceWith(Line(KBC_INTERRUPT_NUM))
  /\ Enter(KBC_INTERRUPT_NUM, "irq")
  /\ UNCHANGED <<pc, tables, mask, screen, typed, keyboardVars>>

\* Enter is one character of a text, although it is printed as two.
TextOf(cs) == IF cs = <<"\r", "\n">> THEN <<"\n">> ELSE cs

\* The console with the characters cs printed.
Output(cs) ==
  /\ con' = puts(con, cs)
  /\ shown' = shown \o TextOf(cs)

doKBCInterrupt ==
  /\ Runs("KBCHandler")
  /\ HandleByte
  /\ Output(IF outputBuffer = Empty THEN <<>> ELSE Printed(outputBuffer))
  /\ cpu' = [cpu EXCEPT !.code = "kbc_exit"]
  /\ UNCHANGED <<pc, tables, mask, frames, typed, irr, isr>>

\* Mutant: no end of interrupt when the handler is done.
AfterKeyForgotten == isr

AfterKey == SendEndOfInterrupt(isr, KBC_INTERRUPT_NUM)

kbc_exit ==
  /\ Runs("kbc_exit")
  /\ isr' = AfterKey
  /\ Iretq(Top, Below)
  /\ UNCHANGED <<pc, tables, mask, screen, typed, irr, keyboardVars>>

-----------------------------------------------------------------------------
(***************************************************************************)
(* Programs                                                                *)
(***************************************************************************)

\* The idle kernel or the program makes a system call.
Syscall ==
  /\ cpu.code \in {"idle", "program"}
  /\ Enter(SYSCALL_INTERRUPT_NUM, "int")
  /\ UNCHANGED <<pc, tables, mask, screen, typed, irr, isr, keyboardVars>>

\* The program names another interrupt, or causes a fault.
Misbehave ==
  /\ Runs("program")
  /\ \/ \E n \in Vectors \ {SYSCALL_INTERRUPT_NUM} : Enter(n, "int")
     \/ \E n \in Vectors \cap 0 .. 31 : Enter(n, "fault")
  /\ UNCHANGED <<pc, tables, mask, screen, typed, irr, isr, keyboardVars>>

\* SYSCALL_PUT of a program.
SyscallPut ==
  /\ Runs("SyscallHandlerASM")
  /\ Top.code = "program"
  /\ Cardinality({i \in DOMAIN shown : shown[i] \in PutChars}) < MaxPut
  /\ \E c \in PutChars : Output(<<c>>)
  /\ Iretq(Top, Below)
  /\ UNCHANGED <<pc, tables, mask, typed, isr, irr, keyboardVars>>

\* What sysExec writes over the registers on the kernel's stack.
ProgramFrame == [code |-> "program", cs |-> CS_SEGMENT_SELECTOR_USER, intr |-> TRUE,
                 rsp |-> UserStack, why |-> "none"]

\* SYSCALL_EXEC: the caller goes on as a program.
sysExec ==
  /\ Runs("SyscallHandlerASM")
  /\ tss' = SwitchKernelStack(tss, KernelStack)
  /\ Iretq(ProgramFrame, Below)
  /\ UNCHANGED <<pc, gdt, idt, mask, screen, typed, irr, isr, keyboardVars>>

-----------------------------------------------------------------------------
\* The boot loader's hand-over, with interrupts off.
BootInit ==
  /\ pc = 0
  /\ gdt = <<>> /\ idt = <<>> /\ tss = ZeroTss
  /\ mask = Lines
  /\ cpu = [code |-> "boot", cs |-> 0, intr |-> FALSE, rsp |-> BootStack, why |-> "none"]
  /\ frames = <<>>
  /\ con = PowerOn
  /\ typed = <<>> /\ shown = <<>>
  /\ irr = {} /\ isr = {}
  /\ KeyboardInit

BootNext ==
  \/ BootStep
  \/ KeyEvent
  \/ ByteArrives
  \/ TakeInterrupt
  \/ doKBCInterrupt
  \/ kbc_exit
  \/ Syscall
  \/ Misbehave
  \/ SyscallPut
  \/ sysExec

(***************************************************************************)
(* Fairness: the kernel's straight-line code is executed, the controller   *)
(* hands over the next byte, and a processor whose interrupt flag is set   *)
(* again and again takes the interrupt that waits, between two system calls*)
(* of a program that makes one after the other.                            *)
(***************************************************************************)
BootSpec ==
  /\ BootInit
  /\ [][BootNext]_bootVars
  /\ WF_bootVars(BootStep \/ doKBCInterrupt \/ kbc_exit \/ SyscallPut \/ sysExec)
  /\ WF_bootVars(ByteArrives)
  /\ SF_bootVars(TakeInterrupt)

-----------------------------------------------------------------------------
(***************************************************************************)
(* Properties                                                              *)
(***************************************************************************)
Frame == [code : Handlers \cup {"boot", "idle", "program", "kbc_exit", "reset"},
          cs : {0, CS_SEGMENT_SELECTOR_KERNEL, CS_SEGMENT_SELECTOR_USER}, intr : BOOLEAN,
          rsp : {BootStack, KernelStack, UserStack}, why : {"none", "irq", "int", "fault"}]

BootTypeOK ==
  /\ pc \in 0 .. Len(BootSequence)
  /\ DOMAIN tss = TssWords
  /\ mask \subseteq Lines /\ PicTypeOK
  /\ cpu \in Frame /\ frames \in Seq(Frame)
  /\ FrameBuffer \subseteq DOMAIN con.screen
  /\ KeyboardTypeOK

\* Whatever the order of interrupts, calls and keys, the kernel stops only for
\* a fault of a program or an interrupt a program may not name: each event the
\* kernel itself causes or waits for finds, through the tables start_kernel has
\* filled, a handler that returns (SetInterruptDescriptor, gdtInit, idtInit).
OnlyProgramsStopTheKernel ==
  Stopped =>
    /\ cpu.code # "reset"
    /\ cpu.why \in {"int", "fault"}
    /\ frames # <<>> /\ Top.code = "program"

\* What entered the kernel while the code of frame i ran.
EntryAbove(i) == IF i = Len(frames) THEN cpu ELSE frames[i + 1]

\* A program gets into the kernel only on the kernel's stack, with interrupts
\* off, and by an interrupt it names itself only into the system call: any other
\* number ends in the general protection fault (the DPL of the gates, the stack
\* in the TSS).
ProgramsEnterThroughTheirGate ==
  \A i \in DOMAIN frames :
    frames[i].cs = CS_SEGMENT_SELECTOR_USER =>
      /\ EntryAbove(i).cs = CS_SEGMENT_SELECTOR_KERNEL
      /\ EntryAbove(i).rsp = KernelStack
      /\ ~EntryAbove(i).intr
      /\ EntryAbove(i).why = "int" =>
           EntryAbove(i).code \in {"SyscallHandlerASM", "GeneralProtectionFaultHandlerASM"}

\* Keys and programs print in any order; as long as the text fits, each of its
\* characters is where it belongs, and nothing else is on the screen.
ScreenShowsTheText == pc > 0 /\ Fits(shown) => Shows(con, shown)

\* What keys have put into a text: all but the characters of programs.
EchoIn(text) ==
  LET echo[n \in 0 .. Len(text)] ==
        IF n = 0 THEN <<>>
        ELSE IF text[n] \in PutChars THEN echo[n - 1]
        ELSE Append(echo[n - 1], text[n])
  IN  echo[Len(text)]

Echo == EchoIn(shown)

\* The keys come out in the order they were pressed in, and with the character
\* that shift selected on them when they were, however late the handler gets to
\* them (isShift, and one byte at a time).
KeysComeOutAsTyped == IsPrefix(Echo, typed)

\* Each key that is pressed is printed in the end, unless a program has stopped
\* the kernel: no byte stays in the controller with nothing to announce it.
EveryKeyIsPrinted ==
  \A n \in 1 .. MaxText : Len(typed) >= n ~> (Len(Echo) >= n \/ Stopped)
=============================================================================
