----------------------------- MODULE BootProofs -----------------------------
(***************************************************************************)
(* Theorems about Boot, for every placement of the handlers, of the task   *)
(* state segment and of the stacks, every set of interrupt numbers, every  *)
(* keyboard and every screen.                                              *)
(*                                                                         *)
(* The argument: the tables hold what start_kernel has put there so far    *)
(* (Tables); read by the processor, an entry of them leads where it should *)
(* (the first theorems below); so the code that runs, what it runs on and  *)
(* what is on the stack are among a few combinations (Processor), in none  *)
(* of which the kernel has stopped for a reason of its own.                *)
(*                                                                         *)
(* The last part is about what is printed: a text has a place for each of  *)
(* its characters, and putc keeps the screen and its cursor in step with it.*)
(***************************************************************************)
EXTENDS Boot, ArithmeticProofs, FiniteSetTheorems

-----------------------------------------------------------------------------
(***************************************************************************)
(* The processor reads from the tables what the kernel meant to write, for *)
(* every address: nothing is lost or mixed up where x86_64.c and           *)
(* interrupt.c scatter a word over the fields of a descriptor.             *)
(***************************************************************************)

\* A bit of a shifted word comes from the bit as far below, or above.
LEMMA ShiftedLeft ==
  ASSUME NEW w \in SUBSET Nat, NEW n \in Nat, NEW b \in Int
  PROVE  b \in Shl(w, n) <=> b - n \in w
  BY DEF Shl

LEMMA ShiftedRight ==
  ASSUME NEW w \in SUBSET Nat, NEW n \in Nat, NEW b \in Int
  PROVE  b \in Shr(w, n) <=> b \in Nat /\ b + n \in w
  BY DEF Shr

LEMMA LowBits ==
  ASSUME NEW w \in SUBSET Nat, NEW n \in Nat
  PROVE  /\ Low(w, n) \in SUBSET Nat
         /\ \A b \in Int : b \in Low(w, n) <=> b < n /\ b \in w
  BY DEF Low

LEMMA WordsStayWords ==
  ASSUME NEW w \in SUBSET Nat, NEW n \in Nat
  PROVE  /\ Shl(w, n) \in SUBSET Nat
         /\ Shr(w, n) \in SUBSET Nat
         /\ Low(w, n) \in SUBSET Nat
  BY DEF Shl, Shr, Low

\* m bits of w, taken from position k.
LEMMA PartBits ==
  ASSUME NEW w \in SUBSET Nat, NEW k \in Nat, NEW m \in Nat
  PROVE  /\ Low(Shr(w, k), m) \in SUBSET Nat
         /\ \A b \in Nat : b \in Low(Shr(w, k), m) <=> b < m /\ b + k \in w
<1>1. Shr(w, k) \in SUBSET Nat
  BY WordsStayWords
<1>2. \A b \in Nat : b \in Shr(w, k) <=> b + k \in w
  BY ShiftedRight
<1> DEFINE r == Shr(w, k)
<1> HIDE DEF r
<1>3. /\ Low(r, m) \in SUBSET Nat
      /\ \A b \in Int : b \in Low(r, m) <=> b < m /\ b \in r
  BY <1>1, LowBits DEF r
<1>4. \A b \in Nat : b \in Low(r, m) <=> b < m /\ b + k \in w
  BY <1>2, <1>3 DEF r
<1> QED
  BY <1>3, <1>4 DEF r

\* A field: m bits of w, taken from position k and put at position n.
LEMMA FieldBits ==
  ASSUME NEW w \in SUBSET Nat, NEW k \in Nat, NEW m \in Nat, NEW n \in Nat
  PROVE  /\ Shl(Low(Shr(w, k), m), n) \in SUBSET Nat
         /\ \A b \in Int : b \in Shl(Low(Shr(w, k), m), n)
                            <=> b >= n /\ b - n < m /\ b - n + k \in w
<1>1. Shr(w, k) \in SUBSET Nat /\ Low(Shr(w, k), m) \in SUBSET Nat
  BY WordsStayWords
<1>2. Shl(Low(Shr(w, k), m), n) \in SUBSET Nat
  BY <1>1, WordsStayWords
<1>3. ASSUME NEW b \in Int
      PROVE  b \in Shl(Low(Shr(w, k), m), n) <=> b >= n /\ b - n < m /\ b - n + k \in w
  <2>1. b \in Shl(Low(Shr(w, k), m), n) <=> b - n \in Low(Shr(w, k), m)
    BY <1>1, ShiftedLeft
  <2>2. b - n \in Low(Shr(w, k), m) <=> b - n \in Shr(w, k) /\ b - n < m
    BY <1>1, LowBits
  <2>3. b - n \in Shr(w, k) <=> b - n \in Nat /\ b - n + k \in w
    BY ShiftedRight
  <2> QED
    BY <2>1, <2>2, <2>3
<1> QED
  BY <1>2, <1>3

\* The same for a field taken from the low end.
LEMMA LowFieldBits ==
  ASSUME NEW w \in SUBSET Nat, NEW m \in Nat, NEW n \in Nat
  PROVE  /\ Shl(Low(w, m), n) \in SUBSET Nat
         /\ \A b \in Int : b \in Shl(Low(w, m), n) <=> b - n < m /\ b - n \in w
<1>1. Low(w, m) \in SUBSET Nat
  BY WordsStayWords
<1>2. Shl(Low(w, m), n) \in SUBSET Nat
  BY <1>1, WordsStayWords
<1>3. ASSUME NEW b \in Int
      PROVE  b \in Shl(Low(w, m), n) <=> b - n < m /\ b - n \in w
  BY <1>1, ShiftedLeft, LowBits
<1> QED
  BY <1>2, <1>3

-----------------------------------------------------------------------------
(***************************************************************************)
(* Segment descriptors                                                     *)
(***************************************************************************)

\* Which bits of a descriptor are 1: each field holds its part of a word.
LEMMA EntryBits ==
  ASSUME NEW base \in SUBSET Nat, NEW limit \in SUBSET Nat,
         NEW access \in SUBSET Nat, NEW flags \in SUBSET Nat
  PROVE  /\ CalcGDTEntry(base, limit, access, flags) \in SUBSET Nat
         /\ \A b \in Int :
              b \in CalcGDTEntry(base, limit, access, flags) <=>
                \/ b < 16 /\ b \in limit
                \/ b - 16 < 16 /\ b - 16 \in base
                \/ b >= 32 /\ b - 32 < 8 /\ b - 32 + 16 \in base
                \/ b - 40 < 8 /\ b - 40 \in access
                \/ b >= 48 /\ b - 48 < 4 /\ b - 48 + 16 \in limit
                \/ b - 52 < 4 /\ b - 52 \in flags
                \/ b >= 56 /\ b - 56 < 8 /\ b - 56 + 24 \in base
<1> DEFINE f1 == Low(limit, 16)
           f2 == Shl(Low(base, 16), 16)
           f3 == Shl(Low(Shr(base, 16), 8), 32)
           f4 == Shl(Low(access, 8), 40)
           f5 == Shl(Low(Shr(limit, 16), 4), 48)
           f6 == Shl(Low(flags, 4), 52)
           f7 == Shl(Low(Shr(base, 24), 8), 56)
           e  == CalcGDTEntry(base, limit, access, flags)
<1>e. e = UNION {f1, f2, f3, f4, f5, f6, f7}
  BY DEF CalcGDTEntry
<1>1. f1 \in SUBSET Nat /\ \A b \in Int : b \in f1 <=> b < 16 /\ b \in limit
  BY LowBits
<1>2. f2 \in SUBSET Nat /\ \A b \in Int : b \in f2 <=> b - 16 < 16 /\ b - 16 \in base
  BY LowFieldBits
<1>3. f3 \in SUBSET Nat /\ \A b \in Int :
        b \in f3 <=> b >= 32 /\ b - 32 < 8 /\ b - 32 + 16 \in base
  BY FieldBits
<1>4. f4 \in SUBSET Nat /\ \A b \in Int : b \in f4 <=> b - 40 < 8 /\ b - 40 \in access
  BY LowFieldBits
<1>5. f5 \in SUBSET Nat /\ \A b \in Int :
        b \in f5 <=> b >= 48 /\ b - 48 < 4 /\ b - 48 + 16 \in limit
  BY FieldBits
<1>6. f6 \in SUBSET Nat /\ \A b \in Int : b \in f6 <=> b - 52 < 4 /\ b - 52 \in flags
  BY LowFieldBits
<1>7. f7 \in SUBSET Nat /\ \A b \in Int :
        b \in f7 <=> b >= 56 /\ b - 56 < 8 /\ b - 56 + 24 \in base
  BY FieldBits
<1> HIDE DEF f1, f2, f3, f4, f5, f6, f7, e
<1>8. e \in SUBSET Nat
  BY <1>e, <1>1, <1>2, <1>3, <1>4, <1>5, <1>6, <1>7
<1>9. \A b \in Int : b \in e <=> \/ b \in f1 \/ b \in f2 \/ b \in f3 \/ b \in f4
                                \/ b \in f5 \/ b \in f6 \/ b \in f7
  BY <1>e
<1>10. \A b \in Int :
         b \in e <=>
           \/ b < 16 /\ b \in limit
           \/ b - 16 < 16 /\ b - 16 \in base
           \/ b >= 32 /\ b - 32 < 8 /\ b - 32 + 16 \in base
           \/ b - 40 < 8 /\ b - 40 \in access
           \/ b >= 48 /\ b - 48 < 4 /\ b - 48 + 16 \in limit
           \/ b - 52 < 4 /\ b - 52 \in flags
           \/ b >= 56 /\ b - 56 < 8 /\ b - 56 + 24 \in base
  BY <1>9, <1>1, <1>2, <1>3, <1>4, <1>5, <1>6, <1>7
<1> QED
  BY <1>8, <1>10 DEF e

\* The processor finds in a descriptor the base (its low 32 bits: those of a
\* task state segment above 4 GB are in the next entry), the limit, the access
\* byte and the flags that CalcGDTEntry was given.
THEOREM EntryDecodes ==
  ASSUME NEW base \in SUBSET Nat, NEW limit \in SUBSET Nat,
         NEW access \in SUBSET Nat, NEW flags \in SUBSET Nat
  PROVE  LET e == CalcGDTEntry(base, limit, access, flags)
         IN  /\ BaseOf(e) = Low(base, 32)
             /\ LimitOf(e) = Low(limit, 20)
             /\ AccessOf(e) = Low(access, 8)
             /\ FlagsOf(e) = Low(flags, 4)
<1> DEFINE e == CalcGDTEntry(base, limit, access, flags)
<1>e. e \in SUBSET Nat
  BY EntryBits
<1>b. \A b \in Int :
        b \in e <=>
          \/ b < 16 /\ b \in limit
          \/ b - 16 < 16 /\ b - 16 \in base
          \/ b >= 32 /\ b - 32 < 8 /\ b - 32 + 16 \in base
          \/ b - 40 < 8 /\ b - 40 \in access
          \/ b >= 48 /\ b - 48 < 4 /\ b - 48 + 16 \in limit
          \/ b - 52 < 4 /\ b - 52 \in flags
          \/ b >= 56 /\ b - 56 < 8 /\ b - 56 + 24 \in base
  BY EntryBits
<1> HIDE DEF e
<1>w. /\ Low(base, 32) \in SUBSET Nat /\ Low(limit, 20) \in SUBSET Nat
      /\ Low(access, 8) \in SUBSET Nat /\ Low(flags, 4) \in SUBSET Nat
  BY WordsStayWords
<1>1. BaseOf(e) = Low(base, 32)
  <2> DEFINE low == Low(Shr(e, 16), 16)
             mid == Shl(Low(Shr(e, 32), 8), 16)
             top == Shl(Low(Shr(e, 56), 8), 24)
  <2>1. low \in SUBSET Nat /\ \A b \in Nat : b \in low <=> b < 16 /\ b + 16 \in e
    BY <1>e, PartBits
  <2>2. mid \in SUBSET Nat /\ \A b \in Int :
          b \in mid <=> b >= 16 /\ b - 16 < 8 /\ b - 16 + 32 \in e
    BY <1>e, FieldBits
  <2>3. top \in SUBSET Nat /\ \A b \in Int :
          b \in top <=> b >= 24 /\ b - 24 < 8 /\ b - 24 + 56 \in e
    BY <1>e, FieldBits
  <2>4. BaseOf(e) = low \cup mid \cup top
    BY DEF BaseOf
  <2> HIDE DEF low, mid, top
  <2>5. ASSUME NEW b \in Nat PROVE b \in BaseOf(e) <=> b \in Low(base, 32)
    <3>1. b \in low <=> b < 16 /\ b \in base
      BY <1>b, <2>1
    <3>2. b \in mid <=> 16 <= b /\ b < 24 /\ b \in base
      BY <1>b, <2>2
    <3>3. b \in top <=> 24 <= b /\ b < 32 /\ b \in base
      BY <1>b, <2>3
    <3> QED
      BY <2>4, <3>1, <3>2, <3>3, LowBits
  <2>6. BaseOf(e) \in SUBSET Nat
    BY <2>1, <2>2, <2>3, <2>4
  <2> QED
    BY <1>w, <2>5, <2>6
<1>2. LimitOf(e) = Low(limit, 20)
  <2> DEFINE low == Low(e, 16)
             top == Shl(Low(Shr(e, 48), 4), 16)
  <2>1. low \in SUBSET Nat /\ \A b \in Nat : b \in low <=> b < 16 /\ b \in e
    BY <1>e, LowBits
  <2>2. top \in SUBSET Nat /\ \A b \in Int :
          b \in top <=> b >= 16 /\ b - 16 < 4 /\ b - 16 + 48 \in e
    BY <1>e, FieldBits
  <2>3. LimitOf(e) = low \cup top
    BY DEF LimitOf
  <2> HIDE DEF low, top
  <2>4. ASSUME NEW b \in Nat PROVE b \in LimitOf(e) <=> b \in Low(limit, 20)
    <3>1. b \in low <=> b < 16 /\ b \in limit
      BY <1>b, <2>1
    <3>2. b \in top <=> 16 <= b /\ b < 20 /\ b \in limit
      BY <1>b, <2>2
    <3> QED
      BY <2>3, <3>1, <3>2, LowBits
  <2>5. LimitOf(e) \in SUBSET Nat
    BY <2>1, <2>2, <2>3
  <2> QED
    BY <1>w, <2>4, <2>5
<1>3. AccessOf(e) = Low(access, 8)
  <2>1. AccessOf(e) \in SUBSET Nat
    BY <1>e, PartBits DEF AccessOf
  <2>2. ASSUME NEW b \in Nat PROVE b \in AccessOf(e) <=> b \in Low(access, 8)
    <3>1. b \in AccessOf(e) <=> b + 40 \in e /\ b < 8
      BY <1>e, PartBits DEF AccessOf
    <3>2. b < 8 => (b + 40 \in e <=> b \in access)
      BY <1>b
    <3> QED
      BY <3>1, <3>2, LowBits
  <2> QED
    BY <1>w, <2>1, <2>2
<1>4. FlagsOf(e) = Low(flags, 4)
  <2>1. FlagsOf(e) \in SUBSET Nat
    BY <1>e, PartBits DEF FlagsOf
  <2>2. ASSUME NEW b \in Nat PROVE b \in FlagsOf(e) <=> b \in Low(flags, 4)
    <3>1. b \in FlagsOf(e) <=> b + 52 \in e /\ b < 4
      BY <1>e, PartBits DEF FlagsOf
    <3>2. b < 4 => (b + 52 \in e <=> b \in flags)
      BY <1>b
    <3> QED
      BY <3>1, <3>2, LowBits
  <2> QED
    BY <1>w, <2>1, <2>2
<1> QED
  BY <1>1, <1>2, <1>3, <1>4 DEF e

-----------------------------------------------------------------------------
(***************************************************************************)
(* Interrupt gates and the kernel's stack                                  *)
(***************************************************************************)

\* The gate of any interrupt leads to its handler, at whatever 64-bit address
\* the handler lies; interrupts are off in it, and only the gate of the system
\* call can be named by a program.
THEOREM GateLeadsToItsHandler ==
  ASSUME NEW n \in Nat, NEW handler \in SUBSET (0 .. 63), NEW present
  PROVE  LET g == InterruptDescriptor(n, handler, present)
         IN  /\ HandlerOf(g) = handler
             /\ ClearsIF(g)
             /\ g.DPL = PL_USER <=> n = SYSCALL_GATE
<1> DEFINE g == InterruptDescriptor(n, handler, present)
<1>h. handler \in SUBSET Nat
  OBVIOUS
<1> DEFINE low == Low(handler, 16)
           mid == Shl(Low(Shr(handler, 16), 16), 16)
           top == Shl(Low(Shr(handler, 32), 32), 32)
<1>l. low \in SUBSET Nat /\ \A b \in Int : b \in low <=> b < 16 /\ b \in handler
  BY <1>h, LowBits
<1>m. mid \in SUBSET Nat /\ \A b \in Int :
        b \in mid <=> b >= 16 /\ b - 16 < 16 /\ b - 16 + 16 \in handler
  BY <1>h, FieldBits
<1>t. top \in SUBSET Nat /\ \A b \in Int :
        b \in top <=> b >= 32 /\ b - 32 < 32 /\ b - 32 + 32 \in handler
  BY <1>h, FieldBits
<1>1. HandlerOf(g) = low \cup mid \cup top
  BY DEF InterruptDescriptor, HandlerOf, Middle
<1> HIDE DEF low, mid, top
<1>2. HandlerOf(g) \in SUBSET Nat
  BY <1>1, <1>l, <1>m, <1>t
<1>3. ASSUME NEW b \in Nat PROVE b \in HandlerOf(g) <=> b \in handler
  <2>1. b \in handler => b < 64
    OBVIOUS
  <2> QED
    BY <1>1, <1>l, <1>m, <1>t, <2>1
<1>4. ClearsIF(g)
  BY DEF InterruptDescriptor, ClearsIF, GateType
<1>5. g.DPL = PL_USER <=> n = SYSCALL_GATE
  BY DEF InterruptDescriptor, GateLevel, PL_USER, PL_KERNEL, Off
<1>6. HandlerOf(g) = handler
  BY <1>2, <1>3, <1>h
<1> QED
  BY <1>4, <1>5, <1>6

\* The stack the processor takes on the way into the kernel is the one
\* SwitchKernelStack was given, at whatever 64-bit address it lies.
THEOREM KernelStackDecodes ==
  ASSUME NEW t \in [TssWords -> SUBSET Nat], NEW ring0rsp \in SUBSET (0 .. 63)
  PROVE  Ring0Rsp(SwitchKernelStack(t, ring0rsp)) = ring0rsp
<1>h. ring0rsp \in SUBSET Nat
  OBVIOUS
<1> DEFINE r     == Ring0Rsp(SwitchKernelStack(t, ring0rsp))
           lower == Low(ring0rsp, 32)
           upper == Shl(Low(Shr(ring0rsp, 32), 32), 32)
<1>1. r = lower \cup upper
  BY DEF SwitchKernelStack, Ring0Rsp, TssWords
<1>2. lower \in SUBSET Nat /\ \A b \in Int : b \in lower <=> b < 32 /\ b \in ring0rsp
  BY <1>h, LowBits
<1>3. upper \in SUBSET Nat /\ \A b \in Int :
        b \in upper <=> b >= 32 /\ b - 32 < 32 /\ b - 32 + 32 \in ring0rsp
  BY <1>h, FieldBits
<1> HIDE DEF r, lower, upper
<1>4. ASSUME NEW b \in Nat PROVE b \in r <=> b \in ring0rsp
  <2>1. b \in ring0rsp => b < 64
    OBVIOUS
  <2> QED
    BY <1>1, <1>2, <1>3, <2>1
<1>5. r \in SUBSET Nat
  BY <1>1, <1>2, <1>3
<1>6. r = ring0rsp
  BY <1>4, <1>5, <1>h
<1> QED
  BY <1>6 DEF r

-----------------------------------------------------------------------------
(***************************************************************************)
(* The inductive invariant                                                 *)
(***************************************************************************)

\* The handler the code gives to interrupt n, and the gates that are present
\* after p calls of start_kernel.
HandlerFor(n) ==
  CASE n = DOUBLE_FAULT_EXCP_NUM             -> "DoubleFaultHandlerASM"
    [] n = GENERAL_PROTECTION_FAULT_EXCP_NUM -> "GeneralProtectionFaultHandlerASM"
    [] n = KBC_INTERRUPT_NUM                 -> "KBCHandler"
    [] n = HPET_INTERRUPT_NUM                -> "HPETHandlerASM"
    [] n = SYSCALL_INTERRUPT_NUM             -> "SyscallHandlerASM"
    [] n = ATA_INTERRUPT_NUM                 -> "ATAHandlerASM"
    [] n = PAGE_FAULT_EXCP_NUM               -> "PageFaultHandlerASM"
    [] OTHER                                 -> "DefaultHandler"

Filled(p) ==
  {n \in Vectors :
     \/ n \in {DOUBLE_FAULT_EXCP_NUM, GENERAL_PROTECTION_FAULT_EXCP_NUM}
     \/ n = KBC_INTERRUPT_NUM     /\ p >= 6
     \/ n = HPET_INTERRUPT_NUM    /\ p >= 7
     \/ n = SYSCALL_INTERRUPT_NUM /\ p >= 8
     \/ n = ATA_INTERRUPT_NUM     /\ p >= 9
     \/ n = PAGE_FAULT_EXCP_NUM   /\ p >= 10}

IdtAfter(p) ==
  [n \in Vectors |->
     IF n \in Filled(p) THEN InterruptDescriptor(n, HandlerAt[HandlerFor(n)], On)
     ELSE InterruptDescriptor(n, HandlerAt["DefaultHandler"], Off)]

\* The tables hold what the calls so far have put into them.
Tables ==
  /\ gdt = IF pc >= 2 THEN GdtEntries(TssAt) ELSE <<>>
  /\ tss = IF pc >= 3 THEN SwitchKernelStack(ZeroTss, KernelStack) ELSE ZeroTss
  /\ idt = IF pc >= 4 THEN IdtAfter(pc) ELSE <<>>

\* What runs outside of every handler, and the handler h that an event of kind
\* "why" has started in its place.
BootFrame == [code |-> "boot", cs |-> IF pc >= 2 THEN CS_SEGMENT_SELECTOR_KERNEL ELSE 0,
              intr |-> FALSE, rsp |-> BootStack, why |-> "none"]
IdleFrame == [code |-> "idle", cs |-> CS_SEGMENT_SELECTOR_KERNEL, intr |-> TRUE,
              rsp |-> BootStack, why |-> "none"]

Entered(h, stack, why) == [code |-> h, cs |-> CS_SEGMENT_SELECTOR_KERNEL,
                           intr |-> FALSE, rsp |-> stack, why |-> why]

\* The handlers that return, entered from a frame whose kernel stack is this one.
Serving(stack) == {Entered("KBCHandler", stack, "irq"), Entered("kbc_exit", stack, "irq"),
                   Entered("SyscallHandlerASM", stack, "int")}

\* The handlers that do not return, for what a program has done.
Faulted == {Entered("GeneralProtectionFaultHandlerASM", KernelStack, "int"),
            Entered("GeneralProtectionFaultHandlerASM", KernelStack, "fault"),
            Entered("DoubleFaultHandlerASM", KernelStack, "fault"),
            Entered("PageFaultHandlerASM", KernelStack, "fault")}

Processor ==
  \/ ~Booted /\ cpu = BootFrame /\ frames = <<>>
  \/ Booted /\ cpu \in {IdleFrame, ProgramFrame} /\ frames = <<>>
  \/ Booted /\ frames = <<IdleFrame>> /\ cpu \in Serving(BootStack)
  \/ Booted /\ frames = <<ProgramFrame>> /\ cpu \in Serving(KernelStack) \cup Faulted

KernelInv == pc \in 0 .. 11 /\ Tables /\ Processor

-----------------------------------------------------------------------------
(***************************************************************************)
(* What the processor reads in the tables                                  *)
(***************************************************************************)

LEMMA Placed ==
  /\ \A h \in Handlers : HandlerAt[h] \in SUBSET (0 .. 63) /\ CodeIsAt(HandlerAt[h]) = {h}
  /\ TssAt \in SUBSET (0 .. 63) /\ KernelStack \in SUBSET (0 .. 63)
<1>1. \A h \in Handlers : CodeIsAt(HandlerAt[h]) = {h}
  BY BootAssumption DEF CodeIsAt
<1> QED
  BY <1>1, BootAssumption

\* A code segment as gdtInit describes it is one for the level it was given.
LEMMA CodeSegmentDecodes ==
  ASSUME NEW level \in {PL_KERNEL, PL_USER}
  PROVE  LET d == CalcGDTEntry(Off, FlatLimit,
                    CALC_ACCESS_BYTE(On, level, On, On, Off, On, Off),
                    CALC_FLAGS(On, Off, On))
         IN  IsPresent(d) /\ IsCode64(d) /\ LevelOf(d) = level
<1> DEFINE access == CALC_ACCESS_BYTE(On, level, On, On, Off, On, Off)
           flags  == CALC_FLAGS(On, Off, On)
           d      == CalcGDTEntry(Off, FlatLimit, access, flags)
<1>1. Low(On, 1) = {0} /\ Low(Off, 1) = {} /\ Low(level, 2) = level
  BY DEF Low, On, Off, PL_KERNEL, PL_USER
<1>2. /\ Shl({0}, 1) = {1} /\ Shl({0}, 3) = {3} /\ Shl({0}, 4) = {4} /\ Shl({0}, 7) = {7}
      /\ Shl({}, 1) = {} /\ Shl({}, 2) = {}
  BY DEF Shl
<1>3. Shl(level, 5) = {b + 5 : b \in level}
  BY DEF Shl
<1>4. access = {1, 3, 4, 7} \cup {b + 5 : b \in level}
  BY <1>1, <1>2, <1>3 DEF CALC_ACCESS_BYTE
<1>5. flags = {1, 3}
  BY <1>1, <1>2 DEF CALC_FLAGS
<1>6. \A b \in level : b \in {0, 1}
  BY DEF PL_KERNEL, PL_USER, Off
<1>7. /\ Off \in SUBSET Nat /\ FlatLimit \in SUBSET Nat
      /\ access \in SUBSET Nat /\ flags \in SUBSET Nat
  BY <1>4, <1>5, <1>6 DEF Off, FlatLimit
<1>8. AccessOf(d) = Low(access, 8) /\ FlagsOf(d) = Low(flags, 4)
  <2> HIDE DEF access, flags
  <2> QED
    BY <1>7, EntryDecodes
<1>9. AccessOf(d) = access /\ FlagsOf(d) = flags
  <2>1. Low(access, 8) = access
    BY <1>4, <1>6 DEF Low
  <2>2. Low(flags, 4) = flags
    BY <1>5 DEF Low
  <2> QED
    BY <2>1, <2>2, <1>8
<1> HIDE DEF access, flags, d
<1>10. IsPresent(d)
  BY <1>9, <1>4 DEF IsPresent
<1>11. IsCode64(d)
  BY <1>9, <1>4, <1>5 DEF IsCode64
<1>12. LevelOf(d) = level
  <2>1. \A b \in Int : b \in Shr(access, 5) <=> b \in {2} \cup level
    BY <1>4, <1>6 DEF Shr
  <2>2. Shr(access, 5) \subseteq Int
    BY <1>4, <1>6 DEF Shr
  <2>3. Shr(access, 5) = {2} \cup level
    BY <2>1, <2>2, <1>6
  <2>4. Low({2} \cup level, 2) = level
    BY <1>6 DEF Low
  <2> QED
    BY <2>3, <2>4, <1>9 DEF LevelOf
<1> QED
  BY <1>10, <1>11, <1>12 DEF d, access, flags

\* Both code segments can be loaded once gdtInit has run.
LEMMA SegmentsLoad ==
  ASSUME gdt = GdtEntries(TssAt)
  PROVE  /\ Loadable(CS_SEGMENT_SELECTOR_KERNEL, PL_KERNEL)
         /\ Loadable(CS_SEGMENT_SELECTOR_USER, PL_USER)
<1>1. Index(CS_SEGMENT_SELECTOR_KERNEL) = 1 /\ Index(CS_SEGMENT_SELECTOR_USER) = 3
  BY DEF Index, CS_SEGMENT_SELECTOR_KERNEL, CS_SEGMENT_SELECTOR_USER
<1>2. /\ gdt # <<>>
      /\ gdt[2] = GDT_KERNEL_CODE
      /\ gdt[4] = GDT_USER_CODE
  BY DEF GdtEntries
<1>3. Segment(CS_SEGMENT_SELECTOR_KERNEL) = GDT_KERNEL_CODE
  BY <1>1, <1>2 DEF Segment
<1>4. Segment(CS_SEGMENT_SELECTOR_USER) = GDT_USER_CODE
  BY <1>1, <1>2 DEF Segment
<1>5. /\ IsPresent(GDT_KERNEL_CODE) /\ IsCode64(GDT_KERNEL_CODE)
      /\ LevelOf(GDT_KERNEL_CODE) = PL_KERNEL
  BY CodeSegmentDecodes DEF GDT_KERNEL_CODE
<1>6. /\ IsPresent(GDT_USER_CODE) /\ IsCode64(GDT_USER_CODE)
      /\ LevelOf(GDT_USER_CODE) = PL_USER
  BY CodeSegmentDecodes DEF GDT_USER_CODE
<1> QED
  BY <1>2, <1>3, <1>4, <1>5, <1>6 DEF Loadable

LEMMA Levels ==
  /\ Requested(CS_SEGMENT_SELECTOR_KERNEL) = PL_KERNEL
  /\ Requested(CS_SEGMENT_SELECTOR_USER) = PL_USER
  /\ PL_KERNEL # PL_USER
  BY DEF Requested, CS_SEGMENT_SELECTOR_KERNEL, CS_SEGMENT_SELECTOR_USER,
         PL_KERNEL, PL_USER, Off

\* A gate as SetInterruptDescriptor describes it.
LEMMA GateReads ==
  ASSUME NEW n \in Vectors, NEW h \in Handlers, NEW present \in {On, Off}
  PROVE  LET g == InterruptDescriptor(n, HandlerAt[h], present)
         IN  /\ g.SegmentSelector = CS_SEGMENT_SELECTOR_KERNEL
             /\ CodeIsAt(HandlerOf(g)) = {h}
             /\ ClearsIF(g)
             /\ g.DPL = PL_USER <=> n = SYSCALL_INTERRUPT_NUM
             /\ g.P # Off <=> present = On
<1> DEFINE g == InterruptDescriptor(n, HandlerAt[h], present)
<1>1. n \in Nat
  BY BootAssumption
<1>2. HandlerOf(g) = HandlerAt[h] /\ ClearsIF(g) /\ (g.DPL = PL_USER <=> n = SYSCALL_GATE)
  BY <1>1, Placed, GateLeadsToItsHandler
<1>3. SYSCALL_GATE = SYSCALL_INTERRUPT_NUM
  BY DEF SYSCALL_GATE, SYSCALL_INTERRUPT_NUM
<1>4. g.SegmentSelector = CS_SEGMENT_SELECTOR_KERNEL /\ g.P = Low(present, 1)
  BY DEF InterruptDescriptor
<1>5. Low(On, 1) = On /\ Low(Off, 1) = Off /\ On # Off
  BY DEF Low, On, Off
<1> HIDE DEF g
<1>6. g.P # Off <=> present = On
  BY <1>4, <1>5
<1> QED
  BY <1>2, <1>3, <1>4, <1>6, Placed DEF g

LEMMA HandlersAreHandlers ==
  \A n \in Vectors : HandlerFor(n) \in Handlers
  BY DEF HandlerFor, Handlers

LEMMA AbsentGate ==
  Absent.P = Off
  BY DEF Absent

-----------------------------------------------------------------------------
(***************************************************************************)
(* An entry into the kernel and the return from it, once it is booted      *)
(***************************************************************************)

LEMMA BootedTables ==
  ASSUME KernelInv, Booted
  PROVE  /\ pc = 11
         /\ gdt = GdtEntries(TssAt)
         /\ Ring0Rsp(tss) = KernelStack
         /\ idt = IdtAfter(11)
<1>1. Len(BootSequence) = 11
  BY DEF BootSequence
<1>2. pc = 11
  BY <1>1 DEF Booted
<1>3. ZeroTss \in [TssWords -> SUBSET Nat]
  BY DEF ZeroTss, Off
<1>4. Ring0Rsp(SwitchKernelStack(ZeroTss, KernelStack)) = KernelStack
  BY <1>3, Placed, KernelStackDecodes
<1> QED
  BY <1>2, <1>4 DEF KernelInv, Tables

\* Which gates there are, and which of them can be taken.
LEMMA GatesOfTheKernel ==
  ASSUME KernelInv, Booted, NEW n \in Vectors
  PROVE  /\ Gate(n).DPL = PL_USER <=> n = SYSCALL_INTERRUPT_NUM
         /\ Usable(n) <=> n \in Filled(11)
         /\ n \in Filled(11) => /\ Gate(n).SegmentSelector = CS_SEGMENT_SELECTOR_KERNEL
                                /\ CodeIsAt(HandlerOf(Gate(n))) = {HandlerFor(n)}
                                /\ ClearsIF(Gate(n))
<1>1. DOMAIN idt = Vectors /\ idt[n] = IdtAfter(11)[n]
  BY BootedTables DEF IdtAfter
<1>2. Gate(n) = IdtAfter(11)[n]
  BY <1>1 DEF Gate
<1>3. On \in {On, Off} /\ Off \in {On, Off} /\ Off # On
  BY DEF On, Off
<1>4. Loadable(CS_SEGMENT_SELECTOR_KERNEL, PL_KERNEL)
  BY BootedTables, SegmentsLoad
<1>5. CASE n \in Filled(11)
  <2>1. Gate(n) = InterruptDescriptor(n, HandlerAt[HandlerFor(n)], On)
    BY <1>2, <1>5 DEF IdtAfter
  <2>2. HandlerFor(n) \in Handlers
    BY HandlersAreHandlers
  <2> QED
    BY <2>1, <2>2, <1>3, <1>4, <1>5, GateReads DEF Usable
<1>6. CASE n \notin Filled(11)
  <2>1. Gate(n) = InterruptDescriptor(n, HandlerAt["DefaultHandler"], Off)
    BY <1>2, <1>6 DEF IdtAfter
  <2>2. "DefaultHandler" \in Handlers
    BY DEF Handlers
  <2> QED
    BY <2>1, <2>2, <1>3, <1>6, GateReads DEF Usable
<1> QED
  BY <1>5, <1>6

LEMMA FilledGates ==
  /\ Filled(11) = {DOUBLE_FAULT_EXCP_NUM, GENERAL_PROTECTION_FAULT_EXCP_NUM,
                   KBC_INTERRUPT_NUM, HPET_INTERRUPT_NUM, SYSCALL_INTERRUPT_NUM,
                   ATA_INTERRUPT_NUM, PAGE_FAULT_EXCP_NUM}
  /\ SEGMENT_NOT_PRESENT \in Vectors \ Filled(11)
  BY BootAssumption
  DEF Filled, DOUBLE_FAULT_EXCP_NUM, GENERAL_PROTECTION_FAULT_EXCP_NUM, KBC_INTERRUPT_NUM,
      HPET_INTERRUPT_NUM, SYSCALL_INTERRUPT_NUM, ATA_INTERRUPT_NUM, PAGE_FAULT_EXCP_NUM,
      SEGMENT_NOT_PRESENT

\* The step of the processor into the kernel through a gate that is present.
LEMMA EntersItsHandler ==
  ASSUME KernelInv, Booted, NEW n \in Filled(11), NEW why, EnterThrough(n, why)
  PROVE  /\ frames' = Append(frames, cpu)
         /\ cpu' = Entered(HandlerFor(n),
                           IF Level = PL_USER THEN KernelStack ELSE cpu.rsp, why)
<1>1. n \in Vectors
  BY DEF Filled
<1>2. Usable(n) /\ CodeIsAt(HandlerOf(Gate(n))) = {HandlerFor(n)} /\ ClearsIF(Gate(n))
      /\ Gate(n).SegmentSelector = CS_SEGMENT_SELECTOR_KERNEL
  BY <1>1, GatesOfTheKernel
<1>3. (CHOOSE h \in {HandlerFor(n)} : TRUE) = HandlerFor(n)
  OBVIOUS
<1>4. (cpu.intr /\ ~ClearsIF(Gate(n))) = FALSE
  BY <1>2
<1> QED
  BY <1>2, <1>3, <1>4, BootedTables DEF EnterThrough, Entered

LEMMA ReturnsToItsFrame ==
  ASSUME KernelInv, Booted, NEW f \in {IdleFrame, ProgramFrame}, NEW below, Iretq(f, below)
  PROVE  cpu' = f /\ frames' = below
<1>1. f.cs \in {CS_SEGMENT_SELECTOR_KERNEL, CS_SEGMENT_SELECTOR_USER}
  BY DEF IdleFrame, ProgramFrame
<1>2. Loadable(f.cs, Requested(f.cs))
  BY <1>1, BootedTables, SegmentsLoad, Levels
<1> QED
  BY <1>2 DEF Iretq

-----------------------------------------------------------------------------
(***************************************************************************)
(* What each entry leads to                                                *)
(***************************************************************************)

LEMMA HandlersOfTheGates ==
  /\ HandlerFor(DOUBLE_FAULT_EXCP_NUM) = "DoubleFaultHandlerASM"
  /\ HandlerFor(GENERAL_PROTECTION_FAULT_EXCP_NUM) = "GeneralProtectionFaultHandlerASM"
  /\ HandlerFor(KBC_INTERRUPT_NUM) = "KBCHandler"
  /\ HandlerFor(SYSCALL_INTERRUPT_NUM) = "SyscallHandlerASM"
  /\ HandlerFor(PAGE_FAULT_EXCP_NUM) = "PageFaultHandlerASM"
  BY DEF HandlerFor, DOUBLE_FAULT_EXCP_NUM, GENERAL_PROTECTION_FAULT_EXCP_NUM,
         KBC_INTERRUPT_NUM, HPET_INTERRUPT_NUM, SYSCALL_INTERRUPT_NUM, ATA_INTERRUPT_NUM,
         PAGE_FAULT_EXCP_NUM

\* The level, and the stack that an entry finds.
LEMMA LevelsOfFrames ==
  /\ cpu = IdleFrame => Level # PL_USER /\ cpu.rsp = BootStack
  /\ cpu = ProgramFrame => Level = PL_USER
<1>1. cpu = IdleFrame => cpu.cs = CS_SEGMENT_SELECTOR_KERNEL /\ cpu.rsp = BootStack
  BY DEF IdleFrame
<1>2. cpu = ProgramFrame => cpu.cs = CS_SEGMENT_SELECTOR_USER
  BY DEF ProgramFrame
<1> QED
  BY <1>1, <1>2, Levels DEF Level

LEMMA Pushed ==
  ASSUME NEW f
  PROVE  Append(<<>>, f) = <<f>>
  OBVIOUS

\* The keyboard's interrupt and the system call, whoever is interrupted.
LEMMA CallsAreServed ==
  ASSUME KernelInv, Booted, frames = <<>>, cpu \in {IdleFrame, ProgramFrame},
         NEW n \in {KBC_INTERRUPT_NUM, SYSCALL_INTERRUPT_NUM},
         NEW why, why = IF n = KBC_INTERRUPT_NUM THEN "irq" ELSE "int",
         Enter(n, why)
  PROVE  \/ frames' = <<IdleFrame>> /\ cpu' \in Serving(BootStack)
         \/ frames' = <<ProgramFrame>> /\ cpu' \in Serving(KernelStack)
<1>1. n \in Filled(11) /\ n \in Vectors
  BY FilledGates DEF Filled
<1>2. KBC_INTERRUPT_NUM # SYSCALL_INTERRUPT_NUM
  BY DEF KBC_INTERRUPT_NUM, SYSCALL_INTERRUPT_NUM
<1>3. Usable(n) /\ (why = "int" => Gate(n).DPL = PL_USER)
  BY <1>1, <1>2, GatesOfTheKernel
<1>4. GateFor(n, why) = n
  BY <1>3 DEF GateFor
<1>5. EnterThrough(n, why)
  BY <1>4 DEF Enter
<1>6. /\ frames' = Append(frames, cpu)
      /\ cpu' = Entered(HandlerFor(n), IF Level = PL_USER THEN KernelStack ELSE cpu.rsp, why)
  BY <1>1, <1>5, EntersItsHandler
<1>7. \A stack : Entered(HandlerFor(n), stack, why) \in Serving(stack)
  BY <1>2, HandlersOfTheGates DEF Serving
<1>8. CASE cpu = IdleFrame
  BY <1>6, <1>7, <1>8, LevelsOfFrames, Pushed
<1>9. CASE cpu = ProgramFrame
  BY <1>6, <1>7, <1>9, LevelsOfFrames, Pushed
<1> QED
  BY <1>8, <1>9

\* A program that names another interrupt, or causes a fault.
LEMMA MisbehaviourIsCaught ==
  ASSUME KernelInv, Booted, frames = <<>>, cpu = ProgramFrame,
         NEW n \in Vectors, NEW why,
         \/ why = "int" /\ n # SYSCALL_INTERRUPT_NUM
         \/ why = "fault" /\ n \in 0 .. 31,
         Enter(n, why)
  PROVE  frames' = <<ProgramFrame>> /\ cpu' \in Faulted
<1>1. Level = PL_USER
  BY LevelsOfFrames
<1>2. /\ DOUBLE_FAULT_EXCP_NUM \in Filled(11)
      /\ GENERAL_PROTECTION_FAULT_EXCP_NUM \in Filled(11)
      /\ Filled(11) \subseteq Vectors
  BY FilledGates DEF Filled
<1>3. /\ Usable(GENERAL_PROTECTION_FAULT_EXCP_NUM)
      /\ ~Usable(SEGMENT_NOT_PRESENT)
  BY <1>2, FilledGates, GatesOfTheKernel
<1>4. \A g \in Filled(11) : EnterThrough(g, why) =>
        /\ frames' = <<ProgramFrame>>
        /\ cpu' = Entered(HandlerFor(g), KernelStack, why)
  BY <1>1, EntersItsHandler, Pushed
<1>5. CASE why = "int"
  <2>1. Gate(n).DPL # PL_USER
    BY <1>5, GatesOfTheKernel
  <2>2. GateFor(n, why) = GENERAL_PROTECTION_FAULT_EXCP_NUM
    BY <2>1, <1>1, <1>3, <1>5 DEF GateFor, FaultGate
  <2>3. EnterThrough(GENERAL_PROTECTION_FAULT_EXCP_NUM, why)
    BY <2>2 DEF Enter
  <2> QED
    BY <2>3, <1>2, <1>4, <1>5, HandlersOfTheGates DEF Faulted
<1>6. CASE why = "fault"
  <2>1. GateFor(n, why) = IF Usable(n) THEN n ELSE DOUBLE_FAULT_EXCP_NUM
    BY <1>3, <1>6 DEF GateFor, FaultGate
  <2>2. Usable(n) => n \in {DOUBLE_FAULT_EXCP_NUM, GENERAL_PROTECTION_FAULT_EXCP_NUM,
                            PAGE_FAULT_EXCP_NUM}
    <3>1. n \in 0 .. 31
      BY <1>6
    <3>2. Usable(n) => n \in Filled(11)
      BY GatesOfTheKernel
    <3> QED
      BY <3>1, <3>2, FilledGates
      DEF KBC_INTERRUPT_NUM, HPET_INTERRUPT_NUM, SYSCALL_INTERRUPT_NUM, ATA_INTERRUPT_NUM
  <2>3. PICK g \in {DOUBLE_FAULT_EXCP_NUM, GENERAL_PROTECTION_FAULT_EXCP_NUM,
                    PAGE_FAULT_EXCP_NUM} : EnterThrough(g, why)
    BY <2>1, <2>2 DEF Enter
  <2>4. g \in Filled(11)
    BY <2>3, FilledGates
  <2> QED
    BY <2>3, <2>4, <1>4, <1>6, HandlersOfTheGates DEF Faulted
<1> QED
  BY <1>5, <1>6

-----------------------------------------------------------------------------
(***************************************************************************)
(* The boot sequence                                                       *)
(***************************************************************************)

LEMMA CallsInOrder ==
  ASSUME pc \in 0 .. 11
  PROVE  /\ Booted <=> pc = 11
         /\ Calls("GraphicInit") => pc = 0
         /\ Calls("gdtInit") => pc = 1
         /\ Calls("ProcessInit") => pc = 2
         /\ Calls("idtInit") => pc = 3
         /\ Calls("picInit") => pc = 4
         /\ Calls("KBCInit") => pc = 5
         /\ Calls("HPETInit") => pc = 6
         /\ Calls("SyscallInit") => pc = 7
         /\ Calls("ATAInit") => pc = 8
         /\ Calls("PagingInit") => pc = 9
         /\ Calls("EnableCPUInterrupt") => pc = 10
<1>1. Len(BootSequence) = 11
  BY DEF BootSequence
<1>2. Booted <=> pc = 11
  BY <1>1 DEF Booted
<1>3. /\ BootSequence[1] = "GraphicInit" /\ BootSequence[2] = "gdtInit"
      /\ BootSequence[3] = "ProcessInit" /\ BootSequence[4] = "idtInit"
      /\ BootSequence[5] = "picInit" /\ BootSequence[6] = "KBCInit"
      /\ BootSequence[7] = "HPETInit" /\ BootSequence[8] = "SyscallInit"
      /\ BootSequence[9] = "ATAInit" /\ BootSequence[10] = "PagingInit"
      /\ BootSequence[11] = "EnableCPUInterrupt"
  BY DEF BootSequence
<1>4. \A f : Calls(f) => pc + 1 \in 1 .. 11 /\ BootSequence[pc + 1] = f
  BY <1>2 DEF Calls
<1>5. pc + 1 \in 1 .. 11 => pc + 1 \in {1, 2, 3, 4, 5, 6, 7, 8, 9, 10, 11}
  OBVIOUS
<1> QED
  BY <1>2, <1>3, <1>4, <1>5

\* One more gate of the table, as the n-th interrupt's initialisation presents it.
LEMMA GatePresented ==
  ASSUME NEW p \in {5, 6, 7, 8, 9}, NEW n, NEW h, idt = IdtAfter(p), Present(n, h),
         \/ p = 5 /\ n = KBC_INTERRUPT_NUM     /\ h = "KBCHandler"
         \/ p = 6 /\ n = HPET_INTERRUPT_NUM    /\ h = "HPETHandlerASM"
         \/ p = 7 /\ n = SYSCALL_INTERRUPT_NUM /\ h = "SyscallHandlerASM"
         \/ p = 8 /\ n = ATA_INTERRUPT_NUM     /\ h = "ATAHandlerASM"
         \/ p = 9 /\ n = PAGE_FAULT_EXCP_NUM   /\ h = "PageFaultHandlerASM"
  PROVE  idt' = IdtAfter(p + 1)
<1>1. n \in Vectors /\ Filled(p + 1) = Filled(p) \cup {n}
  BY BootAssumption
  DEF Filled, DOUBLE_FAULT_EXCP_NUM, GENERAL_PROTECTION_FAULT_EXCP_NUM, KBC_INTERRUPT_NUM,
      HPET_INTERRUPT_NUM, SYSCALL_INTERRUPT_NUM, ATA_INTERRUPT_NUM, PAGE_FAULT_EXCP_NUM
<1>2. HandlerFor(n) = h
  BY DEF HandlerFor, DOUBLE_FAULT_EXCP_NUM, GENERAL_PROTECTION_FAULT_EXCP_NUM,
         KBC_INTERRUPT_NUM, HPET_INTERRUPT_NUM, SYSCALL_INTERRUPT_NUM, ATA_INTERRUPT_NUM,
         PAGE_FAULT_EXCP_NUM
<1>3. idt' = [idt EXCEPT ![n] = InterruptDescriptor(n, HandlerAt[h], On)]
  BY DEF Present
<1> QED
  BY <1>1, <1>2, <1>3 DEF IdtAfter

LEMMA FirstGates ==
  /\ IdtEntries = IdtAfter(4)
  /\ IdtAfter(4) = IdtAfter(5)
  /\ IdtAfter(10) = IdtAfter(11)
<1>1. Filled(4) = Filled(5) /\ Filled(10) = Filled(11)
  BY DEF Filled
<1>2. Filled(4) = {DOUBLE_FAULT_EXCP_NUM, GENERAL_PROTECTION_FAULT_EXCP_NUM}
  BY BootAssumption DEF Filled
<1>3. IdtEntries = IdtAfter(4)
  BY <1>2, HandlersOfTheGates
  DEF IdtEntries, IdtAfter, DOUBLE_FAULT_EXCP_NUM, GENERAL_PROTECTION_FAULT_EXCP_NUM
<1> QED
  BY <1>1, <1>3 DEF IdtAfter

\* Each call of start_kernel adds its part.
LEMMA BootAdvances ==
  ASSUME KernelInv, BootStep
  PROVE  KernelInv'
<1>1. pc' = pc + 1 /\ frames' = frames
  BY DEF BootStep, Return
<1>2. ~Booted /\ pc \in 0 .. 10 /\ pc' \in 1 .. 11
  <2>1. ~Booted
    BY DEF BootStep, BootGraphic, gdtInit, ProcessInit, idtInit, BootPic, BootDevices,
           BootDevice, EnableCPUInterrupt, Calls
  <2> QED
    BY <2>1, <1>1, CallsInOrder DEF KernelInv
<1>3. cpu = BootFrame /\ frames = <<>>
  BY <1>2 DEF KernelInv, Processor
<1>4. Booted' <=> pc = 10
  <2>1. Len(BootSequence) = 11
    BY DEF BootSequence
  <2> QED
    BY <2>1, <1>1, <1>2 DEF Booted
<1>p. pc \in 0 .. 11
  BY DEF KernelInv
<1>5. \/ Calls("GraphicInit") /\ BootGraphic
      \/ Calls("gdtInit") /\ gdtInit
      \/ Calls("ProcessInit") /\ ProcessInit
      \/ Calls("idtInit") /\ idtInit
      \/ Calls("picInit") /\ BootPic
      \/ BootDevices
      \/ Calls("EnableCPUInterrupt") /\ EnableCPUInterrupt
  BY DEF BootStep, BootGraphic, gdtInit, ProcessInit, idtInit, BootPic, EnableCPUInterrupt
<1>6. CASE Calls("GraphicInit") /\ BootGraphic
  <2>1. pc = 0 /\ UNCHANGED tables /\ cpu' = cpu
    BY <1>6, <1>p, CallsInOrder DEF BootGraphic
  <2> QED
    BY <2>1, <1>1, <1>2, <1>3, <1>4
    DEF KernelInv, Tables, tables, Processor, BootFrame
<1>7. CASE Calls("gdtInit") /\ gdtInit
  <2>1. /\ pc = 1 /\ gdt' = GdtEntries(TssAt) /\ tss' = ZeroTss /\ idt' = idt
        /\ cpu' = [cpu EXCEPT !.cs = CS_SEGMENT_SELECTOR_KERNEL]
    BY <1>7, <1>p, CallsInOrder DEF gdtInit
  <2>2. cpu' = BootFrame'
    <3>1. cpu = [code |-> "boot", cs |-> 0, intr |-> FALSE, rsp |-> BootStack, why |-> "none"]
      BY <2>1, <1>3 DEF BootFrame
    <3>2. cpu' = [code |-> "boot", cs |-> CS_SEGMENT_SELECTOR_KERNEL, intr |-> FALSE,
                  rsp |-> BootStack, why |-> "none"]
      BY <3>1, <2>1
    <3> QED
      BY <3>2, <2>1, <1>1 DEF BootFrame
  <2> QED
    BY <2>1, <2>2, <1>1, <1>2, <1>3, <1>4 DEF KernelInv, Tables, Processor
<1>8. CASE Calls("ProcessInit") /\ ProcessInit
  <2>1. /\ pc = 2 /\ tss' = SwitchKernelStack(tss, KernelStack)
        /\ gdt' = gdt /\ idt' = idt /\ cpu' = cpu
    BY <1>8, <1>p, CallsInOrder DEF ProcessInit
  <2> QED
    BY <2>1, <1>1, <1>2, <1>3, <1>4 DEF KernelInv, Tables, Processor, BootFrame
<1>9. CASE Calls("idtInit") /\ idtInit
  <2>1. /\ pc = 3 /\ idt' = IdtAfter(4) /\ gdt' = gdt /\ tss' = tss /\ cpu' = cpu
    BY <1>9, <1>p, CallsInOrder, FirstGates DEF idtInit
  <2> QED
    BY <2>1, <1>1, <1>2, <1>3, <1>4 DEF KernelInv, Tables, Processor, BootFrame
<1>10. CASE Calls("picInit") /\ BootPic
  <2>1. /\ pc = 4 /\ UNCHANGED tables /\ cpu' = cpu
    BY <1>10, <1>p, CallsInOrder DEF BootPic
  <2>2. idt' = IdtAfter(5)
    BY <2>1, FirstGates DEF KernelInv, Tables, tables
  <2> QED
    BY <2>1, <2>2, <1>1, <1>2, <1>3, <1>4
    DEF KernelInv, Tables, tables, Processor, BootFrame
<1>11. CASE BootDevices
  <2>1. PICK n, h :
          /\ \/ pc = 5 /\ n = KBC_INTERRUPT_NUM     /\ h = "KBCHandler"
             \/ pc = 6 /\ n = HPET_INTERRUPT_NUM    /\ h = "HPETHandlerASM"
             \/ pc = 7 /\ n = SYSCALL_INTERRUPT_NUM /\ h = "SyscallHandlerASM"
             \/ pc = 8 /\ n = ATA_INTERRUPT_NUM     /\ h = "ATAHandlerASM"
             \/ pc = 9 /\ n = PAGE_FAULT_EXCP_NUM   /\ h = "PageFaultHandlerASM"
          /\ Present(n, h) /\ gdt' = gdt /\ tss' = tss /\ cpu' = cpu
    BY <1>11, <1>p, CallsInOrder DEF BootDevices, BootDevice
  <2>2. idt = IdtAfter(pc)
    BY <2>1 DEF KernelInv, Tables
  <2>3. idt' = IdtAfter(pc')
    BY <2>1, <2>2, <1>1, GatePresented
  <2>4. pc \in 5 .. 9 /\ pc' \in 6 .. 10
    BY <2>1, <1>1
  <2>5. Tables'
    BY <2>1, <2>3, <2>4 DEF KernelInv, Tables
  <2>6. BootFrame' = BootFrame
    <3>1. pc >= 2 /\ pc' >= 2
      BY <2>4
    <3> QED
      BY <3>1 DEF BootFrame
  <2>7. Processor'
    <3>1. pc # 10
      BY <2>4
    <3>2. cpu' = BootFrame' /\ frames' = <<>>
      BY <2>1, <2>6, <1>1, <1>3
    <3> QED
      BY <3>1, <3>2, <1>4 DEF Processor
  <2> QED
    BY <2>5, <2>7, <1>2 DEF KernelInv
<1>12. CASE Calls("EnableCPUInterrupt") /\ EnableCPUInterrupt
  <2>1. /\ pc = 10 /\ UNCHANGED tables
        /\ cpu' = [cpu EXCEPT !.intr = TRUE, !.code = "idle"]
    BY <1>12, <1>p, CallsInOrder DEF EnableCPUInterrupt
  <2>2. cpu' = IdleFrame
    <3>1. cpu = [code |-> "boot", cs |-> CS_SEGMENT_SELECTOR_KERNEL, intr |-> FALSE,
                 rsp |-> BootStack, why |-> "none"]
      BY <2>1, <1>3 DEF BootFrame
    <3> QED
      BY <3>1, <2>1 DEF IdleFrame
  <2>3. idt' = IdtAfter(11)
    BY <2>1, FirstGates DEF KernelInv, Tables, tables
  <2>4. Tables'
    BY <2>1, <2>3, <1>1 DEF KernelInv, Tables, tables
  <2>5. Processor'
    <3>1. cpu' \in {IdleFrame, ProgramFrame}' /\ frames' = <<>> /\ Booted'
      BY <2>1, <2>2, <1>1, <1>3, <1>4 DEF IdleFrame, ProgramFrame
    <3> QED
      BY <3>1 DEF Processor
  <2> QED
    BY <2>4, <2>5, <1>2 DEF KernelInv
<1> QED
  BY <1>5, <1>6, <1>7, <1>8, <1>9, <1>10, <1>11, <1>12

-----------------------------------------------------------------------------
(***************************************************************************)
(* The kernel at work                                                      *)
(***************************************************************************)

\* The four shapes of what runs and what is on the stack are told apart by the
\* code that runs.
LEMMA WhatRuns ==
  ASSUME KernelInv
  PROVE  /\ cpu.intr => Booted /\ frames = <<>> /\ cpu \in {IdleFrame, ProgramFrame}
         /\ cpu.code \in {"idle", "program"} =>
              Booted /\ frames = <<>> /\ cpu \in {IdleFrame, ProgramFrame}
         /\ cpu.code = "program" => cpu = ProgramFrame
         /\ cpu.code \in {"KBCHandler", "kbc_exit", "SyscallHandlerASM"} =>
              \/ Booted /\ frames = <<IdleFrame>> /\ cpu \in Serving(BootStack)
              \/ Booted /\ frames = <<ProgramFrame>> /\ cpu \in Serving(KernelStack)
<1>1. \A stack : \A f \in Serving(stack) :
        ~f.intr /\ f.code \in {"KBCHandler", "kbc_exit", "SyscallHandlerASM"}
  BY DEF Serving, Entered
<1>2. \A f \in Faulted :
        ~f.intr /\ f.code \notin {"KBCHandler", "kbc_exit", "SyscallHandlerASM", "idle", "program"}
  BY DEF Faulted, Entered
<1>3. BootFrame.code = "boot" /\ ~BootFrame.intr
  BY DEF BootFrame
<1>4. IdleFrame.code = "idle" /\ ProgramFrame.code = "program"
  BY DEF IdleFrame, ProgramFrame
<1> HIDE DEF Serving, Faulted, BootFrame, IdleFrame, ProgramFrame
<1>5. CASE ~Booted /\ cpu = BootFrame
  BY <1>3, <1>5
<1>6. CASE Booted /\ cpu \in {IdleFrame, ProgramFrame} /\ frames = <<>>
  BY <1>4, <1>6
<1>7. CASE Booted /\ frames = <<IdleFrame>> /\ cpu \in Serving(BootStack)
  BY <1>1, <1>7
<1>8. CASE Booted /\ frames = <<ProgramFrame>> /\ cpu \in Serving(KernelStack)
  BY <1>1, <1>8
<1>9. CASE Booted /\ frames = <<ProgramFrame>> /\ cpu \in Faulted
  BY <1>2, <1>9
<1> QED
  BY <1>5, <1>6, <1>7, <1>8, <1>9 DEF KernelInv, Processor

\* The stack within a handler that returns.
LEMMA OneFrameBelow ==
  ASSUME NEW f, frames = <<f>>
  PROVE  Top = f /\ Below = <<>>
<1>1. Len(frames) = 1 /\ frames[1] = f
  OBVIOUS
<1>2. Top = f
  BY <1>1 DEF Top
<1>3. Below = <<>>
  BY <1>1 DEF Below
<1> QED
  BY <1>2, <1>3

\* The tables stay, and the processor is back where it was or in a new place.
LEMMA BackOutside ==
  ASSUME KernelInv, Booted, pc' = pc, UNCHANGED tables,
         cpu' \in {IdleFrame, ProgramFrame}, frames' = <<>>
  PROVE  KernelInv'
<1>1. Booted' /\ IdleFrame' = IdleFrame /\ ProgramFrame' = ProgramFrame
  BY DEF Booted, IdleFrame, ProgramFrame
<1>2. Tables'
  BY DEF KernelInv, Tables, tables
<1>3. Processor'
  BY <1>1 DEF Processor
<1> QED
  BY <1>2, <1>3 DEF KernelInv

LEMMA Inside ==
  ASSUME KernelInv, Booted, pc' = pc, UNCHANGED tables,
         \/ frames' = <<IdleFrame>> /\ cpu' \in Serving(BootStack)
         \/ frames' = <<ProgramFrame>> /\ cpu' \in Serving(KernelStack) \cup Faulted
  PROVE  KernelInv'
<1>1. Booted' /\ IdleFrame' = IdleFrame /\ ProgramFrame' = ProgramFrame
  BY DEF Booted, IdleFrame, ProgramFrame
<1>2. Tables'
  BY DEF KernelInv, Tables, tables
<1>3. /\ Faulted' = Faulted
      /\ Serving(KernelStack)' = Serving(KernelStack)
      /\ Serving(BootStack)' = Serving(BootStack)
  BY DEF Faulted, Serving, Entered
<1>4. Processor'
  BY <1>1, <1>3 DEF Processor
<1> QED
  BY <1>2, <1>4 DEF KernelInv

\* A step that leaves the processor and the tables alone.
LEMMA Untouched ==
  ASSUME KernelInv, UNCHANGED <<pc, tables, cpu, frames>>
  PROVE  KernelInv'
<1>1. Booted' <=> Booted
  BY DEF Booted
<1>2. Tables'
  BY DEF KernelInv, Tables, tables
<1>3. /\ BootFrame' = BootFrame /\ IdleFrame' = IdleFrame /\ ProgramFrame' = ProgramFrame
      /\ Faulted' = Faulted
      /\ Serving(KernelStack)' = Serving(KernelStack)
      /\ Serving(BootStack)' = Serving(BootStack)
  BY DEF BootFrame, IdleFrame, ProgramFrame, Faulted, Serving, Entered
<1>4. Processor'
  <2>1. Processor /\ cpu' = cpu /\ frames' = frames
    BY DEF KernelInv
  <2> QED
    BY <2>1, <1>1, <1>3 DEF Processor
<1> QED
  BY <1>2, <1>4 DEF KernelInv

-----------------------------------------------------------------------------
(***************************************************************************)
(* The invariant                                                           *)
(***************************************************************************)

LEMMA KernelInvInitially ==
  ASSUME BootInit
  PROVE  KernelInv
<1>1. ~Booted
  BY DEF BootInit, Booted, BootSequence
<1> QED
  BY <1>1 DEF BootInit, KernelInv, Tables, Processor, BootFrame

LEMMA KernelInvStep ==
  ASSUME KernelInv, [BootNext]_bootVars
  PROVE  KernelInv'
<1>1. CASE BootStep
  BY <1>1, BootAdvances
<1>2. CASE KeyEvent
  BY <1>2, Untouched DEF KeyEvent
<1>3. CASE ByteArrives
  BY <1>3, Untouched DEF ByteArrives
<1>4. CASE TakeInterrupt
  <2>1. /\ cpu.intr /\ Enter(KBC_INTERRUPT_NUM, "irq")
        /\ pc' = pc /\ UNCHANGED tables
    BY <1>4 DEF TakeInterrupt
  <2>2. Booted /\ frames = <<>> /\ cpu \in {IdleFrame, ProgramFrame}
    BY <2>1, WhatRuns
  <2>3. \/ frames' = <<IdleFrame>> /\ cpu' \in Serving(BootStack)
        \/ frames' = <<ProgramFrame>> /\ cpu' \in Serving(KernelStack)
    BY <2>1, <2>2, CallsAreServed
  <2> QED
    BY <2>1, <2>2, <2>3, Inside
<1>5. CASE doKBCInterrupt
  <2>1. /\ cpu.code = "KBCHandler" /\ cpu' = [cpu EXCEPT !.code = "kbc_exit"]
        /\ pc' = pc /\ UNCHANGED tables /\ frames' = frames
    BY <1>5 DEF doKBCInterrupt, Runs
  <2>2. \/ Booted /\ frames = <<IdleFrame>> /\ cpu \in Serving(BootStack)
        \/ Booted /\ frames = <<ProgramFrame>> /\ cpu \in Serving(KernelStack)
    BY <2>1, WhatRuns
  <2>3. ASSUME NEW stack, cpu \in Serving(stack)
        PROVE  cpu' \in Serving(stack)
    <3>1. cpu = Entered("KBCHandler", stack, "irq")
      BY <2>1, <2>3 DEF Serving, Entered
    <3>2. cpu' = Entered("kbc_exit", stack, "irq")
      BY <3>1, <2>1 DEF Entered
    <3> QED
      BY <3>2 DEF Serving
  <2> QED
    BY <2>1, <2>2, <2>3, Inside
<1>6. CASE kbc_exit
  <2>1. /\ cpu.code = "kbc_exit" /\ Iretq(Top, Below)
        /\ pc' = pc /\ UNCHANGED tables
    BY <1>6 DEF kbc_exit, Runs
  <2>2. Booted /\ frames \in {<<IdleFrame>>, <<ProgramFrame>>}
    BY <2>1, WhatRuns
  <2>3. Top \in {IdleFrame, ProgramFrame} /\ Below = <<>>
    BY <2>2, OneFrameBelow
  <2>4. cpu' \in {IdleFrame, ProgramFrame} /\ frames' = <<>>
    BY <2>1, <2>2, <2>3, ReturnsToItsFrame
  <2> QED
    BY <2>1, <2>2, <2>4, BackOutside
<1>7. CASE Syscall
  <2>1. /\ cpu.code \in {"idle", "program"} /\ Enter(SYSCALL_INTERRUPT_NUM, "int")
        /\ pc' = pc /\ UNCHANGED tables
    BY <1>7 DEF Syscall
  <2>2. Booted /\ frames = <<>> /\ cpu \in {IdleFrame, ProgramFrame}
    BY <2>1, WhatRuns
  <2>3. KBC_INTERRUPT_NUM # SYSCALL_INTERRUPT_NUM
    BY DEF KBC_INTERRUPT_NUM, SYSCALL_INTERRUPT_NUM
  <2>4. \/ frames' = <<IdleFrame>> /\ cpu' \in Serving(BootStack)
        \/ frames' = <<ProgramFrame>> /\ cpu' \in Serving(KernelStack)
    BY <2>1, <2>2, <2>3, CallsAreServed
  <2> QED
    BY <2>1, <2>2, <2>4, Inside
<1>8. CASE Misbehave
  <2>1. /\ cpu.code = "program" /\ pc' = pc /\ UNCHANGED tables
        /\ \E n \in Vectors, why \in {"int", "fault"} :
             /\ \/ why = "int" /\ n # SYSCALL_INTERRUPT_NUM
                \/ why = "fault" /\ n \in 0 .. 31
             /\ Enter(n, why)
    BY <1>8 DEF Misbehave, Runs
  <2>2. Booted /\ frames = <<>> /\ cpu = ProgramFrame
    BY <2>1, WhatRuns
  <2>3. frames' = <<ProgramFrame>> /\ cpu' \in Faulted
    BY <2>1, <2>2, MisbehaviourIsCaught
  <2> QED
    BY <2>1, <2>2, <2>3, Inside
<1>9. CASE SyscallPut
  <2>1. /\ cpu.code = "SyscallHandlerASM" /\ Iretq(Top, Below)
        /\ pc' = pc /\ UNCHANGED tables
    BY <1>9 DEF SyscallPut, Runs
  <2>2. Booted /\ frames \in {<<IdleFrame>>, <<ProgramFrame>>}
    BY <2>1, WhatRuns
  <2>3. Top \in {IdleFrame, ProgramFrame} /\ Below = <<>>
    BY <2>2, OneFrameBelow
  <2>4. cpu' \in {IdleFrame, ProgramFrame} /\ frames' = <<>>
    BY <2>1, <2>2, <2>3, ReturnsToItsFrame
  <2> QED
    BY <2>1, <2>2, <2>4, BackOutside
<1>10. CASE sysExec
  <2>1. /\ cpu.code = "SyscallHandlerASM" /\ Iretq(ProgramFrame, Below)
        /\ pc' = pc /\ tss' = SwitchKernelStack(tss, KernelStack)
        /\ gdt' = gdt /\ idt' = idt
    BY <1>10 DEF sysExec, Runs
  <2>2. Booted /\ frames \in {<<IdleFrame>>, <<ProgramFrame>>}
    BY <2>1, WhatRuns
  <2>3. Below = <<>>
    BY <2>2, OneFrameBelow
  <2>4. cpu' = ProgramFrame /\ frames' = <<>>
    BY <2>1, <2>2, <2>3, ReturnsToItsFrame
  <2>5. tss' = tss
    <3>1. tss = SwitchKernelStack(ZeroTss, KernelStack)
      BY <2>2, BootedTables DEF KernelInv, Tables
    <3> QED
      BY <3>1, <2>1 DEF SwitchKernelStack, ZeroTss
  <2> QED
    BY <2>1, <2>2, <2>4, <2>5, BackOutside DEF tables
<1>11. CASE UNCHANGED bootVars
  BY <1>11, Untouched DEF bootVars, tables
<1> QED
  BY <1>1, <1>2, <1>3, <1>4, <1>5, <1>6, <1>7, <1>8, <1>9, <1>10, <1>11 DEF BootNext

LEMMA KernelInvAlways ==
  BootSpec => []KernelInv
<1>1. BootInit => KernelInv
  BY KernelInvInitially
<1>2. KernelInv /\ [BootNext]_bootVars => KernelInv'
  BY KernelInvStep
<1> QED
  BY <1>1, <1>2, PTL DEF BootSpec

-----------------------------------------------------------------------------
(***************************************************************************)
(* The theorems                                                            *)
(***************************************************************************)

\* Wherever the handlers, the tables and the stacks lie, whatever interrupts
\* there are, and whatever keys are pressed and calls are made in whatever order:
\* the kernel stops only for a fault of a program, or for an interrupt that
\* a program may not name (SetInterruptDescriptor, gdtInit, idtInit, and the
\* order of the calls of start_kernel).
THEOREM KernelStopsForProgramsOnly ==
  BootSpec => []OnlyProgramsStopTheKernel
<1>1. KernelInv => OnlyProgramsStopTheKernel
  <2> SUFFICES ASSUME KernelInv, Stopped
               PROVE  /\ cpu.code # "reset"
                      /\ cpu.why \in {"int", "fault"}
                      /\ frames # <<>> /\ Top.code = "program"
    BY DEF OnlyProgramsStopTheKernel
  <2>1. cpu.code = "reset" \/ cpu.code \in Handlers \ {"KBCHandler", "SyscallHandlerASM"}
    BY DEF Stopped
  <2>2. cpu.code \notin {"boot", "idle", "program", "kbc_exit", "KBCHandler", "SyscallHandlerASM"}
    BY <2>1 DEF Handlers
  <2>3. frames = <<ProgramFrame>> /\ cpu \in Faulted
    BY <2>2 DEF KernelInv, Processor, BootFrame, IdleFrame, ProgramFrame, Serving, Entered
  <2>4. cpu.code # "reset" /\ cpu.why \in {"int", "fault"}
    BY <2>3 DEF Faulted, Entered
  <2>5. Top = ProgramFrame /\ frames # <<>>
    BY <2>3, OneFrameBelow
  <2> QED
    BY <2>4, <2>5 DEF ProgramFrame
<1> QED
  BY <1>1, KernelInvAlways, PTL

\* Likewise: a program enters the kernel on the kernel's stack, with interrupts
\* off, and by an interrupt it names only into the system call or the general
\* protection fault (the DPL of the gates, and the stack in the TSS).
THEOREM ProgramsUseTheirGate ==
  BootSpec => []ProgramsEnterThroughTheirGate
<1>1. KernelInv => ProgramsEnterThroughTheirGate
  <2> SUFFICES ASSUME KernelInv, NEW i \in DOMAIN frames,
                      frames[i].cs = CS_SEGMENT_SELECTOR_USER
               PROVE  /\ EntryAbove(i).cs = CS_SEGMENT_SELECTOR_KERNEL
                      /\ EntryAbove(i).rsp = KernelStack
                      /\ ~EntryAbove(i).intr
                      /\ EntryAbove(i).why = "int" =>
                           EntryAbove(i).code \in {"SyscallHandlerASM",
                                                   "GeneralProtectionFaultHandlerASM"}
    BY DEF ProgramsEnterThroughTheirGate
  <2>1. IdleFrame.cs # CS_SEGMENT_SELECTOR_USER
    BY DEF IdleFrame, CS_SEGMENT_SELECTOR_KERNEL, CS_SEGMENT_SELECTOR_USER
  <2>2. frames \in {<<>>, <<IdleFrame>>, <<ProgramFrame>>}
    BY DEF KernelInv, Processor
  <2>3. frames = <<ProgramFrame>> /\ i = 1 /\ Len(frames) = 1
    BY <2>1, <2>2
  <2>4. cpu \in Serving(KernelStack) \cup Faulted
    <3>1. IdleFrame # ProgramFrame
      BY DEF IdleFrame, ProgramFrame
    <3>2. frames # <<>> /\ frames # <<IdleFrame>>
      BY <2>3, <3>1
    <3> QED
      BY <3>2 DEF KernelInv, Processor
  <2>5. EntryAbove(i) = cpu
    BY <2>3 DEF EntryAbove
  <2> QED
    BY <2>4, <2>5 DEF Serving, Faulted, Entered
<1> QED
  BY <1>1, KernelInvAlways, PTL

-----------------------------------------------------------------------------
(***************************************************************************)
(* What is printed at a time: nothing, a character, or the two of Enter.   *)
(* The fold of puts is a function on the sets of indices: it exists, which *)
(* a function in its place shows, and so it has the values it should.      *)
(***************************************************************************)

LEMMA GreatestIndex ==
  Max({1}) = 1 /\ Max({2}) = 2 /\ Max({1, 2}) = 2
<1>1. Max({1}) = 1
  BY DEF Max
<1>2. Max({2}) = 2
  BY DEF Max
<1>3. \A x \in {1, 2} : (\A y \in {1, 2} : x >= y) <=> x = 2
  OBVIOUS
<1>4. Max({1, 2}) = 2
  BY <1>3 DEF Max
<1> QED
  BY <1>1, <1>2, <1>4

LEMMA PrintNothing ==
  ASSUME NEW c
  PROVE  puts(c, <<>>) = c
<1> DEFINE Step(s, it) == IF s = {} THEN c
                          ELSE putc(it[s \ {Max(s)}], <<>>[Max(s)])
           done == [s \in SUBSET {} |-> c]
           fold == CHOOSE f : f = [s \in SUBSET {} |-> Step(s, f)]
<1>1. done = [s \in SUBSET {} |-> Step(s, done)]
  OBVIOUS
<1>2. fold = [s \in SUBSET {} |-> Step(s, fold)]
  <2> HIDE DEF done, Step
  <2> QED
    BY <1>1
<1>3. fold[{}] = c
  <2> HIDE DEF fold
  <2> QED
    BY <1>2
<1>4. DOMAIN <<>> = {}
  OBVIOUS
<1> QED
  BY <1>3, <1>4 DEF puts, FoldLeft, MapThenFoldSet

LEMMA PrintOne ==
  ASSUME NEW c, NEW x
  PROVE  puts(c, <<x>>) = putc(c, x)
<1> DEFINE str == <<x>>
           Step(s, it) == IF s = {} THEN c
                          ELSE putc(it[s \ {Max(s)}], str[Max(s)])
           done == [s \in SUBSET {1} |-> IF s = {} THEN c ELSE putc(c, x)]
           fold == CHOOSE f : f = [s \in SUBSET {1} |-> Step(s, f)]
<1>1. DOMAIN str = {1} /\ str[1] = x
  OBVIOUS
<1>2. done = [s \in SUBSET {1} |-> Step(s, done)]
  BY <1>1, GreatestIndex
<1>3. fold = [s \in SUBSET {1} |-> Step(s, fold)]
  <2> HIDE DEF done, Step
  <2> QED
    BY <1>2
<1>4. fold[{1}] = putc(c, x)
  <2> HIDE DEF fold
  <2>1. fold[{}] = c
    BY <1>3
  <2>2. fold[{1}] = Step({1}, fold)
    BY <1>3 DEF Step
  <2> QED
    BY <2>1, <2>2, <1>1, GreatestIndex
<1> QED
  BY <1>4, <1>1 DEF puts, FoldLeft, MapThenFoldSet

LEMMA PrintTwo ==
  ASSUME NEW c, NEW x, NEW y
  PROVE  puts(c, <<x, y>>) = putc(putc(c, x), y)
<1> DEFINE str == <<x, y>>
           Step(s, it) == IF s = {} THEN c
                          ELSE putc(it[s \ {Max(s)}], str[Max(s)])
           done == [s \in SUBSET {1, 2} |->
                      IF s = {} THEN c
                      ELSE IF s = {1} THEN putc(c, x)
                      ELSE IF s = {2} THEN putc(c, y)
                      ELSE putc(putc(c, x), y)]
           fold == CHOOSE f : f = [s \in SUBSET {1, 2} |-> Step(s, f)]
<1>1. DOMAIN str = {1, 2} /\ str[1] = x /\ str[2] = y
  OBVIOUS
<1>2. done = [s \in SUBSET {1, 2} |-> Step(s, done)]
  <2>1. \A s \in SUBSET {1, 2} : s \in {{}, {1}, {2}, {1, 2}}
    OBVIOUS
  <2>2. done[{}] = c /\ done[{1}] = putc(c, x) /\ done[{2}] = putc(c, y)
    OBVIOUS
  <2>3. done[{1, 2}] = putc(putc(c, x), y)
    OBVIOUS
  <2>4. /\ Step({}, done) = done[{}]
        /\ Step({1}, done) = done[{1}]
        /\ Step({2}, done) = done[{2}]
    <3> HIDE DEF done
    <3>1. {1} \ {1} = {} /\ {2} \ {2} = {}
      OBVIOUS
    <3> QED
      BY <3>1, <2>2, <1>1, GreatestIndex
  <2>5. Step({1, 2}, done) = done[{1, 2}]
    <3> HIDE DEF done
    <3>1. {1, 2} \ {2} = {1}
      OBVIOUS
    <3> QED
      BY <3>1, <2>2, <2>3, <1>1, GreatestIndex
  <2>6. \A s \in SUBSET {1, 2} : done[s] = Step(s, done)
    <3> HIDE DEF done, Step
    <3> QED
      BY <2>1, <2>4, <2>5
  <2>7. done = [s \in SUBSET {1, 2} |-> done[s]]
    OBVIOUS
  <2> HIDE DEF done, Step
  <2> QED
    BY <2>6, <2>7
<1>3. fold = [s \in SUBSET {1, 2} |-> Step(s, fold)]
  <2> HIDE DEF done, Step
  <2> QED
    BY <1>2
<1>4. fold[{1, 2}] = putc(putc(c, x), y)
  <2> HIDE DEF fold
  <2>1. fold[{}] = c
    BY <1>3
  <2>2. fold[{1}] = Step({1}, fold) /\ fold[{1, 2}] = Step({1, 2}, fold)
    <3> HIDE DEF Step
    <3> QED
      BY <1>3
  <2>3. {1} \ {1} = {} /\ {1, 2} \ {2} = {1}
    OBVIOUS
  <2> QED
    BY <2>1, <2>2, <2>3, <1>1, GreatestIndex
<1> QED
  BY <1>4, <1>1 DEF puts, FoldLeft, MapThenFoldSet

-----------------------------------------------------------------------------
(***************************************************************************)
(* The devices                                                             *)
(***************************************************************************)

IsConsole(c) ==
  /\ c = [cursorX |-> c.cursorX, cursorY |-> c.cursorY, screen |-> c.screen]
  /\ FrameBuffer \subseteq DOMAIN c.screen

\* What one interrupt of the keyboard, or one call of SYSCALL_PUT, prints.
Prints(cs) == cs = <<>> \/ (\E x : cs = <<x>>) \/ (\E x, y : cs = <<x, y>>)

\* The record after each of the operations, one field after another.
LEMMA ConsoleFields ==
  ASSUME NEW c, c = [cursorX |-> c.cursorX, cursorY |-> c.cursorY, screen |-> c.screen]
  PROVE  /\ NewLine(c) = [cursorX |-> 0, cursorY |-> c.cursorY + FONT_HEIGHT,
                          screen |-> c.screen]
         /\ \A x : DrawChar(c, x) = [cursorX |-> c.cursorX + FONT_WIDTH, cursorY |-> c.cursorY,
                                     screen |-> DrawGlyph(c.screen, x, c.cursorX, c.cursorY)]
         /\ [c EXCEPT !.cursorX = 0, !.cursorY = 0]
              = [cursorX |-> 0, cursorY |-> 0, screen |-> c.screen]
         /\ \A t : [c EXCEPT !.screen = t]
                     = [cursorX |-> c.cursorX, cursorY |-> c.cursorY, screen |-> t]
<1> DEFINE px == c.cursorX
           py == c.cursorY
           s  == c.screen
<1>0. c = [cursorX |-> px, cursorY |-> py, screen |-> s]
  OBVIOUS
<1>1. c.cursorX = px /\ c.cursorY = py /\ c.screen = s
  OBVIOUS
<1> HIDE DEF px, py, s
<1>2. ASSUME NEW u, NEW v
      PROVE  [c EXCEPT !.cursorX = u, !.cursorY = v]
               = [cursorX |-> u, cursorY |-> v, screen |-> s]
  <2>1. [c EXCEPT !.cursorX = u] = [cursorX |-> u, cursorY |-> py, screen |-> s]
    BY <1>0
  <2>2. [c EXCEPT !.cursorX = u, !.cursorY = v] = [[c EXCEPT !.cursorX = u] EXCEPT !.cursorY = v]
    BY <1>0
  <2>3. [[cursorX |-> u, cursorY |-> py, screen |-> s] EXCEPT !.cursorY = v]
          = [cursorX |-> u, cursorY |-> v, screen |-> s]
    BY <1>0
  <2> QED
    BY <2>1, <2>2, <2>3, Zenon
<1>4. [c EXCEPT !.cursorX = 0, !.cursorY = @ + FONT_HEIGHT]
        = [c EXCEPT !.cursorX = 0, !.cursorY = py + FONT_HEIGHT]
  <2>1. [c EXCEPT !.cursorX = 0, !.cursorY = @ + FONT_HEIGHT]
          = [[c EXCEPT !.cursorX = 0] EXCEPT !.cursorY = @ + FONT_HEIGHT]
    BY <1>0
  <2>2. [c EXCEPT !.cursorX = 0] = [cursorX |-> 0, cursorY |-> py, screen |-> s]
    BY <1>0
  <2>3. [[cursorX |-> 0, cursorY |-> py, screen |-> s] EXCEPT !.cursorY = @ + FONT_HEIGHT]
          = [cursorX |-> 0, cursorY |-> py + FONT_HEIGHT, screen |-> s]
    BY <1>0
  <2> QED
    BY <2>1, <2>2, <2>3, <1>2, Zenon
<1>5. ASSUME NEW x
      PROVE  DrawChar(c, x) = [cursorX |-> px + FONT_WIDTH, cursorY |-> py,
                               screen |-> DrawGlyph(s, x, px, py)]
  <2>1. [c EXCEPT !.cursorX = @ + FONT_WIDTH,
                  !.screen = DrawGlyph(@, x, c.cursorX, c.cursorY)]
          = [[c EXCEPT !.cursorX = @ + FONT_WIDTH] EXCEPT
                  !.screen = DrawGlyph(@, x, c.cursorX, c.cursorY)]
    BY <1>0
  <2>2. [c EXCEPT !.cursorX = @ + FONT_WIDTH]
          = [cursorX |-> px + FONT_WIDTH, cursorY |-> py, screen |-> s]
    BY <1>0
  <2>3. [[cursorX |-> px + FONT_WIDTH, cursorY |-> py, screen |-> s] EXCEPT
                  !.screen = DrawGlyph(@, x, px, py)]
          = [cursorX |-> px + FONT_WIDTH, cursorY |-> py, screen |-> DrawGlyph(s, x, px, py)]
    BY <1>0
  <2> QED
    BY <2>1, <2>2, <2>3, <1>1, Zenon DEF DrawChar
<1>6. NewLine(c) = [cursorX |-> 0, cursorY |-> py + FONT_HEIGHT, screen |-> s]
  BY <1>2, <1>4, Zenon DEF NewLine
<1>7. [c EXCEPT !.cursorX = 0, !.cursorY = 0] = [cursorX |-> 0, cursorY |-> 0, screen |-> s]
  BY <1>2, Zenon
<1>8. \A t : [c EXCEPT !.screen = t] = [cursorX |-> px, cursorY |-> py, screen |-> t]
  BY <1>0
<1> QED
  BY <1>1, <1>5, <1>6, <1>7, <1>8, Zenon

LEMMA putcKeepsConsole ==
  ASSUME NEW c, IsConsole(c), NEW x
  PROVE  IsConsole(putc(c, x))
<1>1. /\ c = [cursorX |-> c.cursorX, cursorY |-> c.cursorY, screen |-> c.screen]
      /\ FrameBuffer \subseteq DOMAIN c.screen
  BY DEF IsConsole
<1>2. IsConsole(NewLine(c))
  <2>1. NewLine(c) = [cursorX |-> 0, cursorY |-> c.cursorY + FONT_HEIGHT, screen |-> c.screen]
    BY <1>1, ConsoleFields
  <2> QED
    BY <1>1, <2>1 DEF IsConsole
<1>3. IsConsole(DrawChar(c, x))
  <2> DEFINE new == DrawGlyph(c.screen, x, c.cursorX, c.cursorY)
  <2>1. DrawChar(c, x) = [cursorX |-> c.cursorX + FONT_WIDTH, cursorY |-> c.cursorY,
                          screen |-> new]
    BY <1>1, ConsoleFields
  <2>2. DOMAIN c.screen \subseteq DOMAIN new
    BY DEF DrawGlyph
  <2> HIDE DEF new
  <2> QED
    BY <1>1, <2>1, <2>2 DEF IsConsole
<1> QED
  BY <1>2, <1>3 DEF putc

LEMMA putsKeepsConsole ==
  ASSUME NEW c, IsConsole(c), NEW cs, Prints(cs)
  PROVE  IsConsole(puts(c, cs))
<1>1. CASE cs = <<>>
  BY <1>1, PrintNothing
<1>2. ASSUME NEW x, cs = <<x>>
      PROVE  IsConsole(puts(c, cs))
  BY <1>2, PrintOne, putcKeepsConsole
<1>3. ASSUME NEW x, NEW y, cs = <<x, y>>
      PROVE  IsConsole(puts(c, cs))
  <2>1. IsConsole(putc(c, x))
    BY putcKeepsConsole
  <2>2. IsConsole(putc(putc(c, x), y))
    BY <2>1, putcKeepsConsole
  <2> QED
    BY <1>3, <2>2, PrintTwo
<1> QED
  BY <1>1, <1>2, <1>3 DEF Prints

LEMMA BackgroundKeepsConsole ==
  ASSUME NEW c, IsConsole(c)
  PROVE  IsConsole(GraphicInit(c))
<1> DEFINE new == [a \in DOMAIN c.screen |->
                     IF \E x \in 0 .. HorizontalResolution - 1,
                           y \in 0 .. VerticalResolution - 1 : Address(x, y) = a
                     THEN BG ELSE c.screen[a]]
           d   == SetBackGround(c)
<1>1. /\ c = [cursorX |-> c.cursorX, cursorY |-> c.cursorY, screen |-> c.screen]
      /\ FrameBuffer \subseteq DOMAIN c.screen
  BY DEF IsConsole
<1>2. DOMAIN new = DOMAIN c.screen
  OBVIOUS
<1>3. d = [c EXCEPT !.screen = new]
  BY DEF SetBackGround
<1>4. GraphicInit(c) = [d EXCEPT !.cursorX = 0, !.cursorY = 0]
  BY DEF GraphicInit
<1> HIDE DEF new, d
<1>5. d = [cursorX |-> c.cursorX, cursorY |-> c.cursorY, screen |-> new]
  BY <1>1, <1>3, ConsoleFields
<1>6. d.screen = new /\ d = [cursorX |-> d.cursorX, cursorY |-> d.cursorY, screen |-> d.screen]
  BY <1>5
<1>7. GraphicInit(c) = [cursorX |-> 0, cursorY |-> 0, screen |-> new]
  BY <1>4, <1>6, ConsoleFields
<1> QED
  BY <1>1, <1>2, <1>7 DEF IsConsole

LEMMA HandlerPrints ==
  ASSUME NEW byte
  PROVE  Prints(Printed(byte))
  BY DEF Prints, Printed

Devices == mask \subseteq Lines /\ PicTypeOK /\ KeyboardTypeOK /\ IsConsole(con)

LEMMA DevicesStep ==
  ASSUME Devices, KernelInv, [BootNext]_bootVars
  PROVE  Devices'
<1>1. CASE BootStep
  <2>1. /\ irr' \subseteq Lines /\ isr' \subseteq Lines /\ UNCHANGED keyboardVars
    BY <1>1 DEF BootStep, Devices, PicTypeOK
  <2>2. mask' \subseteq Lines
    <3>1. CASE BootPic
      BY <3>1 DEF BootPic, picInit
    <3>2. CASE BootDevices
      BY <3>2 DEF BootDevices, BootDevice, Devices, KBCInit, HPETInit, SyscallInit, ATAInit,
                  EnableInterruptOnPIC
    <3>3. CASE ~BootPic /\ ~BootDevices
      BY <1>1, <3>3 DEF BootStep, BootGraphic, gdtInit, ProcessInit, idtInit,
                        EnableCPUInterrupt, Devices
    <3> QED
      BY <3>1, <3>2, <3>3
  <2>3. IsConsole(con')
    <3>1. CASE BootGraphic
      BY <3>1, BackgroundKeepsConsole DEF BootGraphic, Devices
    <3>2. CASE ~BootGraphic
      BY <1>1, <3>2 DEF BootStep, gdtInit, ProcessInit, idtInit, BootPic, BootDevices,
                        BootDevice, EnableCPUInterrupt, screen, Devices
    <3> QED
      BY <3>1, <3>2
  <2> QED
    BY <2>1, <2>2, <2>3 DEF Devices, PicTypeOK, KeyboardTypeOK, keyboardVars, IsConsole
<1>2. CASE KeyEvent
  <2>1. UNCHANGED <<mask, irr, isr, con>>
    BY <1>2 DEF KeyEvent, screen
  <2>2. PICK k \in Keys : KeyDown(k) \/ KeyUp(k)
    BY <1>2 DEF KeyEvent
  <2>3. PICK b \in Bytes : fifo' = Append(fifo, b) /\ Len(fifo) < FifoSize
    BY <2>2 DEF KeyDown, KeyUp, Byte, Bytes
  <2>4. held' \subseteq Keys /\ outputBuffer' = outputBuffer /\ isShift' = isShift
    BY <2>2 DEF KeyDown, KeyUp, Devices, KeyboardTypeOK
  <2>5. fifo' \in Seq(Bytes) /\ Len(fifo') <= FifoSize
    <3>1. fifo \in Seq(Bytes)
      BY DEF Devices, KeyboardTypeOK
    <3>2. fifo' \in Seq(Bytes) /\ Len(fifo') = Len(fifo) + 1
      BY <3>1, <2>3
    <3> QED
      BY <3>1, <3>2, <2>3, KeyboardAssumption
  <2> QED
    BY <2>1, <2>4, <2>5 DEF Devices, PicTypeOK, KeyboardTypeOK, IsConsole
<1>3. CASE ByteArrives
  <2>1. UNCHANGED <<mask, isr, con>> /\ ControllerLoads
        /\ irr' = irr \cup {Line(KBC_INTERRUPT_NUM)}
    BY <1>3 DEF ByteArrives, screen
  <2>2. Line(KBC_INTERRUPT_NUM) \in Lines
    BY DEF Line, KBC_INTERRUPT_NUM, PIC_MASTER_INTERRUPT_NUM, Lines
  <2>3. /\ outputBuffer' \in Bytes /\ fifo' \in Seq(Bytes) /\ Len(fifo') <= FifoSize
    <3>1. fifo \in Seq(Bytes) /\ fifo # <<>> /\ Len(fifo) <= FifoSize
      BY <2>1 DEF ControllerLoads, Devices, KeyboardTypeOK
    <3>2. Head(fifo) \in Bytes /\ Tail(fifo) \in Seq(Bytes) /\ Len(Tail(fifo)) = Len(fifo) - 1
      BY <3>1
    <3> QED
      BY <3>1, <3>2, <2>1, KeyboardAssumption DEF ControllerLoads
  <2>4. held' = held /\ isShift' = isShift
    BY <2>1 DEF ControllerLoads
  <2> QED
    BY <2>1, <2>2, <2>3, <2>4 DEF Devices, PicTypeOK, KeyboardTypeOK, IsConsole
<1>4. CASE TakeInterrupt
  <2>1. /\ UNCHANGED <<mask, con, keyboardVars>>
        /\ irr' \subseteq irr /\ isr' = InServiceWith(Line(KBC_INTERRUPT_NUM))
    BY <1>4 DEF TakeInterrupt, screen
  <2>2. {Line(KBC_INTERRUPT_NUM), MasterLine(Line(KBC_INTERRUPT_NUM))} \subseteq Lines
    BY DEF Line, MasterLine, KBC_INTERRUPT_NUM, PIC_MASTER_INTERRUPT_NUM, Lines, Cascade
  <2> QED
    BY <2>1, <2>2
    DEF Devices, PicTypeOK, InServiceWith, KeyboardTypeOK, keyboardVars, IsConsole
<1>5. CASE doKBCInterrupt
  <2>1. /\ UNCHANGED <<mask, irr, isr, fifo, held>> /\ outputBuffer' = Empty
        /\ isShift' = IF outputBuffer = Empty THEN isShift ELSE ShiftAfter(outputBuffer)
    BY <1>5 DEF doKBCInterrupt, HandleByte
  <2>2. isShift' \in BOOLEAN
    BY <2>1 DEF Devices, KeyboardTypeOK, ShiftAfter, Bytes
  <2>3. PICK cs : Prints(cs) /\ con' = puts(con, cs)
    BY <1>5, HandlerPrints DEF doKBCInterrupt, Output, Prints
  <2>4. IsConsole(con')
    BY <2>3, putsKeepsConsole DEF Devices
  <2> QED
    BY <2>1, <2>2, <2>4 DEF Devices, PicTypeOK, KeyboardTypeOK, IsConsole
<1>6. CASE kbc_exit
  <2>1. UNCHANGED <<mask, con, irr, keyboardVars>> /\ isr' \subseteq isr
    BY <1>6 DEF kbc_exit, screen, AfterKey, SendEndOfInterrupt
  <2> QED
    BY <2>1 DEF Devices, PicTypeOK, KeyboardTypeOK, keyboardVars, IsConsole
<1>7. CASE Syscall \/ Misbehave \/ sysExec
  <2>1. UNCHANGED <<mask, con, irr, isr, keyboardVars>>
    BY <1>7 DEF Syscall, Misbehave, sysExec, screen
  <2> QED
    BY <2>1 DEF Devices, PicTypeOK, KeyboardTypeOK, keyboardVars, IsConsole
<1>8. CASE SyscallPut
  <2>1. UNCHANGED <<mask, irr, isr, keyboardVars>>
    BY <1>8 DEF SyscallPut
  <2>2. PICK c : con' = puts(con, <<c>>)
    BY <1>8 DEF SyscallPut, Output
  <2>3. IsConsole(con')
    BY <2>2, putsKeepsConsole DEF Devices, Prints
  <2> QED
    BY <2>1, <2>3 DEF Devices, PicTypeOK, KeyboardTypeOK, keyboardVars, IsConsole
<1>9. CASE UNCHANGED bootVars
  BY <1>9 DEF bootVars, Devices, PicTypeOK, KeyboardTypeOK, keyboardVars, IsConsole
<1> QED
  BY <1>1, <1>2, <1>3, <1>4, <1>5, <1>6, <1>7, <1>8, <1>9 DEF BootNext

LEMMA DevicesInitially ==
  ASSUME BootInit
  PROVE  Devices
<1>1. IsConsole(con)
  BY DEF BootInit, PowerOn, IsConsole
<1>2. KeyboardTypeOK
  <2>1. <<>> \in Seq(Bytes) /\ Len(<<>>) <= FifoSize
    BY KeyboardAssumption
  <2> QED
    BY <2>1 DEF BootInit, KeyboardInit, KeyboardTypeOK
<1> QED
  BY <1>1, <1>2 DEF BootInit, Devices, PicTypeOK

\* Every variable keeps its type: the stack pointers in the table and on the
\* stack are the three there are, the selectors the two of gdtInit, and drawing
\* never loses a pixel of the screen.
THEOREM BootTypeCorrect ==
  BootSpec => []BootTypeOK
<1>1. BootInit => Devices
  BY DevicesInitially
<1>2. Devices /\ KernelInv /\ [BootNext]_bootVars => Devices'
  BY DevicesStep
<1>3. KernelInv /\ Devices => BootTypeOK
  <2> SUFFICES ASSUME KernelInv, Devices
               PROVE  BootTypeOK
    OBVIOUS
  <2>1. pc \in 0 .. Len(BootSequence)
    <3>1. Len(BootSequence) = 11
      BY DEF BootSequence
    <3> QED
      BY <3>1 DEF KernelInv
  <2>2. DOMAIN tss = TssWords
    BY DEF KernelInv, Tables, ZeroTss, SwitchKernelStack
  <2>3. BootFrame \in Frame /\ IdleFrame \in Frame /\ ProgramFrame \in Frame
    BY DEF BootFrame, IdleFrame, ProgramFrame, Frame
  <2>4. \A stack \in {BootStack, KernelStack} : Serving(stack) \subseteq Frame
    BY DEF Serving, Entered, Frame, Handlers
  <2>5. Faulted \subseteq Frame
    BY DEF Faulted, Entered, Frame, Handlers
  <2>6. cpu \in Frame /\ frames \in {<<>>, <<IdleFrame>>, <<ProgramFrame>>}
    BY <2>3, <2>4, <2>5 DEF KernelInv, Processor
  <2>7. frames \in Seq(Frame)
    <3>1. <<>> \in Seq(Frame)
      OBVIOUS
    <3>2. \A f \in Frame : <<f>> \in Seq(Frame)
      OBVIOUS
    <3> HIDE DEF Frame, IdleFrame, ProgramFrame
    <3> QED
      BY <3>1, <3>2, <2>3, <2>6
  <2>8. mask \subseteq Lines /\ PicTypeOK /\ KeyboardTypeOK
        /\ FrameBuffer \subseteq DOMAIN con.screen
    BY DEF Devices, IsConsole
  <2> QED
    BY <2>1, <2>2, <2>6, <2>7, <2>8 DEF BootTypeOK
<1> QED
  BY <1>1, <1>2, <1>3, KernelInvAlways, PTL DEF BootSpec

-----------------------------------------------------------------------------
(***************************************************************************)
(* The text that keys have put on the screen.  EchoIn is recursive: that   *)
(* its function exists, and what it does with one more character, follows  *)
(* from the least-number principle.                                        *)
(***************************************************************************)

\* f is the echo of the first n characters of a text, of each number of them.
EchoesUpTo(text, f, n) ==
  /\ DOMAIN f = 0 .. n
  /\ f[0] = <<>>
  /\ \A i \in 1 .. n : f[i] = IF text[i] \in PutChars THEN f[i - 1]
                              ELSE Append(f[i - 1], text[i])

LEMMA EchoExists ==
  ASSUME NEW text, NEW n \in Nat
  PROVE  \E f : EchoesUpTo(text, f, n)
<1> SUFFICES ASSUME ~ \E f : EchoesUpTo(text, f, n)
             PROVE  FALSE
  OBVIOUS
<1> DEFINE T == {k \in Nat : ~ \E f : EchoesUpTo(text, f, k)}
<1>1. n \in T /\ T \subseteq Nat
  OBVIOUS
<1>2. PICK k \in T : \A j \in T : k <= j
  BY <1>1, LeastNumber
<1>3. k # 0
  <2>1. EchoesUpTo(text, [i \in 0 .. 0 |-> <<>>], 0)
    BY DEF EchoesUpTo
  <2> QED
    BY <2>1, <1>2
<1>4. k \in Nat /\ k - 1 \in Nat /\ k - 1 \notin T
  BY <1>2, <1>3
<1>5. PICK f : EchoesUpTo(text, f, k - 1)
  BY <1>4
<1> DEFINE last == IF text[k] \in PutChars THEN f[k - 1] ELSE Append(f[k - 1], text[k])
           g    == [i \in 0 .. k |-> IF i = k THEN last ELSE f[i]]
<1>6. EchoesUpTo(text, g, k)
  <2>1. /\ DOMAIN f = 0 .. k - 1 /\ f[0] = <<>>
        /\ \A i \in 1 .. k - 1 : f[i] = IF text[i] \in PutChars THEN f[i - 1]
                                        ELSE Append(f[i - 1], text[i])
    BY <1>5 DEF EchoesUpTo
  <2>2. DOMAIN g = 0 .. k /\ g[k] = last /\ \A i \in 0 .. k - 1 : g[i] = f[i]
    BY <1>4
  <2> HIDE DEF g
  <2>3. g[0] = <<>>
    BY <1>3, <1>4, <2>1, <2>2
  <2>4. ASSUME NEW i \in 1 .. k
        PROVE  g[i] = IF text[i] \in PutChars THEN g[i - 1] ELSE Append(g[i - 1], text[i])
    <3>1. i - 1 \in 0 .. k - 1 /\ g[i - 1] = f[i - 1]
      BY <1>4, <2>2
    <3>2. CASE i = k
      BY <3>1, <3>2, <2>2
    <3>3. CASE i # k
      <4>1. i \in 1 .. k - 1
        BY <3>3, <1>4
      <4> QED
        BY <4>1, <3>1, <2>1, <2>2
    <3> QED
      BY <3>2, <3>3
  <2> QED
    BY <2>2, <2>3, <2>4 DEF EchoesUpTo
<1>7. k \notin T
  <2> HIDE DEF g
  <2> QED
    BY <1>6
<1> QED
  BY <1>2, <1>7

\* Two echoes agree as far as both of them and their texts go.
LEMMA EchoesAgree ==
  ASSUME NEW s, NEW t, NEW f, NEW g, NEW m \in Nat, NEW n \in Nat,
         EchoesUpTo(s, f, m), EchoesUpTo(t, g, n), m <= n,
         \A i \in 1 .. m : s[i] = t[i]
  PROVE  \A i \in 0 .. m : f[i] = g[i]
<1> SUFFICES ASSUME NEW k \in 0 .. m, f[k] # g[k]
             PROVE  FALSE
  OBVIOUS
<1> DEFINE T == {j \in 0 .. m : f[j] # g[j]}
<1>1. k \in T /\ T \subseteq Nat
  OBVIOUS
<1>2. PICK j \in T : \A i \in T : j <= i
  BY <1>1, LeastNumber
<1>3. f[0] = g[0]
  BY DEF EchoesUpTo
<1>4. j \in 1 .. m /\ j \in 1 .. n /\ j - 1 \in 0 .. m /\ j - 1 \notin T
  BY <1>2, <1>3
<1>5. f[j - 1] = g[j - 1]
  BY <1>4
<1>6. f[j] = g[j]
  BY <1>4, <1>5 DEF EchoesUpTo
<1> QED
  BY <1>2, <1>6

LEMMA EchoIsFold ==
  ASSUME NEW S, NEW text \in Seq(S)
  PROVE  \E f : EchoesUpTo(text, f, Len(text)) /\ EchoIn(text) = f[Len(text)]
<1> DEFINE n == Len(text)
           Body(f) == [i \in 0 .. n |-> IF i = 0 THEN <<>>
                                        ELSE IF text[i] \in PutChars THEN f[i - 1]
                                        ELSE Append(f[i - 1], text[i])]
           echo == CHOOSE f : f = Body(f)
<1>1. n \in Nat
  OBVIOUS
<1>2. PICK f : EchoesUpTo(text, f, n)
  BY <1>1, EchoExists
<1>3. \E g : g = Body(g)
  <2> DEFINE g == [i \in 0 .. n |-> f[i]]
  <2>1. \A i \in 0 .. n : g[i] = f[i]
    OBVIOUS
  <2>2. /\ f[0] = <<>>
        /\ \A i \in 1 .. n : f[i] = IF text[i] \in PutChars THEN f[i - 1]
                                    ELSE Append(f[i - 1], text[i])
    BY <1>2 DEF EchoesUpTo
  <2>3. ASSUME NEW i \in 0 .. n
        PROVE  g[i] = Body(g)[i]
    <3>1. CASE i = 0
      BY <3>1, <2>1, <2>2
    <3>2. CASE i # 0
      <4>1. i \in 1 .. n /\ i - 1 \in 0 .. n
        BY <3>2, <1>1
      <4>2. g[i] = f[i] /\ g[i - 1] = f[i - 1]
        BY <4>1, <2>1
      <4> HIDE DEF g
      <4> QED
        BY <3>2, <4>1, <4>2, <2>2
    <3> QED
      BY <3>1, <3>2
  <2>4. g = [i \in 0 .. n |-> g[i]] /\ Body(g) = [i \in 0 .. n |-> Body(g)[i]]
    OBVIOUS
  <2>5. g = Body(g)
    <3> HIDE DEF g, Body
    <3> QED
      BY <2>3, <2>4
  <2> HIDE DEF g, Body
  <2> QED
    BY <2>5
<1>4. echo = Body(echo)
  <2> HIDE DEF Body
  <2> QED
    BY <1>3
<1>5. EchoesUpTo(text, echo, n)
  <2> HIDE DEF echo
  <2>1. DOMAIN echo = 0 .. n
    BY <1>4
  <2>2. echo[0] = <<>>
    BY <1>4, <1>1
  <2>3. ASSUME NEW i \in 1 .. n
        PROVE  echo[i] = IF text[i] \in PutChars THEN echo[i - 1]
                         ELSE Append(echo[i - 1], text[i])
    <3>1. i \in 0 .. n /\ i # 0
      BY <1>1
    <3>2. echo[i] = Body(echo)[i]
      <4> HIDE DEF Body
      <4> QED
        BY <1>4
    <3>3. Body(echo)[i] = IF text[i] \in PutChars THEN echo[i - 1]
                          ELSE Append(echo[i - 1], text[i])
      BY <3>1
    <3> QED
      BY <3>2, <3>3
  <2> QED
    BY <2>1, <2>2, <2>3 DEF EchoesUpTo
<1>6. EchoIn(text) = echo[n]
  BY DEF EchoIn
<1> HIDE DEF echo
<1> QED
  BY <1>5, <1>6

LEMMA EchoOfNothing ==
  EchoIn(<<>>) = <<>>
<1>1. <<>> \in Seq({}) /\ Len(<<>>) = 0
  OBVIOUS
<1>2. PICK f : EchoesUpTo(<<>>, f, 0) /\ EchoIn(<<>>) = f[0]
  BY <1>1, EchoIsFold
<1> QED
  BY <1>2 DEF EchoesUpTo

LEMMA EchoGrows ==
  ASSUME NEW S, NEW text \in Seq(S), NEW c \in S
  PROVE  EchoIn(Append(text, c)) = IF c \in PutChars THEN EchoIn(text)
                                   ELSE Append(EchoIn(text), c)
<1> DEFINE n == Len(text)
           t == Append(text, c)
<1>1. /\ n \in Nat /\ t \in Seq(S) /\ Len(t) = n + 1 /\ t[n + 1] = c
      /\ \A i \in 1 .. n : text[i] = t[i]
  OBVIOUS
<1>2. PICK f : EchoesUpTo(text, f, n) /\ EchoIn(text) = f[n]
  BY EchoIsFold
<1> HIDE DEF t, n
<1>3. PICK g : EchoesUpTo(t, g, n + 1) /\ EchoIn(t) = g[n + 1]
  BY <1>1, EchoIsFold
<1>4. f[n] = g[n]
  <2>1. \A i \in 0 .. n : f[i] = g[i]
    BY <1>1, <1>2, <1>3, EchoesAgree
  <2> QED
    BY <2>1, <1>1
<1>5. g[n + 1] = IF t[n + 1] \in PutChars THEN g[n] ELSE Append(g[n], t[n + 1])
  <2>1. n + 1 \in 1 .. n + 1 /\ (n + 1) - 1 = n
    BY <1>1
  <2> QED
    BY <2>1, <1>3 DEF EchoesUpTo
<1> QED
  BY <1>1, <1>2, <1>3, <1>4, <1>5 DEF t

-----------------------------------------------------------------------------
(***************************************************************************)
(* The keys on their way from the keyboard to the screen                   *)
(***************************************************************************)

\* What the theorem asks of the keyboard and of programs: on a key is what the
\* table of the driver has for it; and programs print other characters, so that
\* the two can be told apart on the screen.
LegendIsTheTable ==
  \A k \in Keys \ Modifiers :
    Legend[k] = <<CalcASCIICode(scanCode[k + 1], FALSE), CalcASCIICode(scanCode[k + 1], TRUE)>>

KeysAreToldApart ==
  \A k \in Keys \ Modifiers, i \in {1, 2} : Legend[k][i] \notin PutChars

Chars == PutChars \cup UNION {{Legend[k][1], Legend[k][2]} : k \in Keys \ Modifiers}

\* The bytes that the driver has not seen yet, the oldest first.
Queue == (IF outputBuffer = Empty THEN <<>> ELSE <<outputBuffer>>) \o fifo

IsMake(byte) == ~byte.isBrake /\ byte.key \notin Modifiers

\* What will become of them: sh[i] is the shift state behind the i-th of these
\* bytes, and at[i] the number of keys whose character has been printed by then.
WillCome(sh, at, q) ==
  /\ sh[0] = isShift /\ (sh[Len(q)] <=> held \cap Shifts # {})
  /\ at[0] = Len(Echo) /\ at[Len(q)] = Len(typed)
  /\ \A i \in 1 .. Len(q) :
       /\ sh[i] = (IF q[i].key \in Shifts THEN ~q[i].isBrake ELSE sh[i - 1])
       /\ at[i] = at[i - 1] + (IF IsMake(q[i]) THEN 1 ELSE 0)
       /\ at[i] <= Len(typed)
       /\ IsMake(q[i]) => typed[at[i]] = Legend[q[i].key][IF sh[i - 1] THEN 2 ELSE 1]

Promised(q) ==
  \E sh \in [0 .. Len(q) -> BOOLEAN], at \in [0 .. Len(q) -> Nat] : WillCome(sh, at, q)

KeysInv ==
  /\ shown \in Seq(Chars) /\ typed \in Seq(Chars) /\ Echo \in Seq(Chars)
  /\ ~(Shifts \subseteq held)
  /\ Len(Echo) <= Len(typed)
  /\ \A j \in 1 .. Len(Echo) : Echo[j] = typed[j]
  /\ Promised(Queue)

\* What the driver prints for a key is what stands on it.
LEMMA PrintsTheLegend ==
  ASSUME LegendIsTheTable, NEW byte \in Bytes, isShift \in BOOLEAN
  PROVE  TextOf(Printed(byte)) = IF IsMake(byte)
                                 THEN <<Legend[byte.key][IF isShift THEN 2 ELSE 1]>>
                                 ELSE <<>>
<1>1. CASE ~IsMake(byte)
  <2>1. Printed(byte) = <<>>
    BY <1>1 DEF IsMake, Printed
  <2> QED
    BY <2>1, <1>1 DEF TextOf
<1>2. CASE IsMake(byte)
  <2> DEFINE c == CalcASCIICode(scanCode[byte.key + 1], isShift)
  <2>1. byte.key \in Keys \ Modifiers
    BY <1>2 DEF IsMake, Bytes
  <2>2. c = Legend[byte.key][IF isShift THEN 2 ELSE 1]
    <3>1. /\ Legend[byte.key][1] = CalcASCIICode(scanCode[byte.key + 1], FALSE)
          /\ Legend[byte.key][2] = CalcASCIICode(scanCode[byte.key + 1], TRUE)
      <4> DEFINE plain == CalcASCIICode(scanCode[byte.key + 1], FALSE)
                 upper == CalcASCIICode(scanCode[byte.key + 1], TRUE)
      <4>1. Legend[byte.key] = <<plain, upper>>
        BY <2>1, Zenon DEF LegendIsTheTable
      <4> HIDE DEF plain, upper
      <4>2. Legend[byte.key][1] = plain /\ Legend[byte.key][2] = upper
        BY <4>1
      <4> QED
        BY <4>2, Zenon DEF plain, upper
    <3>2. CASE isShift = TRUE
      <4>1. (IF isShift THEN 2 ELSE 1) = 2
        BY <3>2
      <4>2. c = CalcASCIICode(scanCode[byte.key + 1], TRUE)
        BY <3>2, Zenon
      <4> QED
        BY <3>1, <4>1, <4>2, Zenon
    <3>3. CASE isShift = FALSE
      <4>1. (IF isShift THEN 2 ELSE 1) = 1
        BY <3>3
      <4>2. c = CalcASCIICode(scanCode[byte.key + 1], FALSE)
        BY <3>3, Zenon
      <4> QED
        BY <3>1, <4>1, <4>2, Zenon
    <3> QED
      BY <3>2, <3>3
  <2>3. Printed(byte) = IF c = "\n" THEN <<"\r", "\n">> ELSE <<c>>
    BY <1>2 DEF IsMake, Printed
  <2> HIDE DEF c
  <2>5. TextOf(Printed(byte)) = <<c>>
    <3>1. CASE c = "\n"
      <4>1. TextOf(<<"\r", "\n">>) = <<"\n">>
        BY DEF TextOf
      <4> QED
        BY <4>1, <3>1, <2>3
    <3>2. CASE c # "\n"
      <4>1. TextOf(<<c>>) = <<c>>
        BY DEF TextOf
      <4> QED
        BY <4>1, <3>2, <2>3
    <3> QED
      BY <3>1, <3>2
  <2> QED
    BY <2>2, <2>5, <1>2
<1> QED
  BY <1>1, <1>2

\* The queue: the controller moves a byte within it, the keyboard puts one at
\* its end, and the driver takes the first.
LEMMA QueueType ==
  ASSUME KeyboardTypeOK
  PROVE  Queue \in Seq(Bytes)
<1>1. CASE outputBuffer = Empty
  BY <1>1 DEF Queue, KeyboardTypeOK
<1>2. CASE outputBuffer # Empty
  <2>1. <<outputBuffer>> \in Seq(Bytes) /\ fifo \in Seq(Bytes)
    BY <1>2 DEF KeyboardTypeOK
  <2> QED
    BY <2>1, <1>2 DEF Queue
<1> QED
  BY <1>1, <1>2

LEMMA QueueLoads ==
  ASSUME KeyboardTypeOK, ControllerLoads
  PROVE  Queue' = Queue
<1>1. /\ outputBuffer = Empty /\ fifo \in Seq(Bytes) /\ fifo # <<>>
      /\ outputBuffer' = Head(fifo) /\ fifo' = Tail(fifo)
  BY DEF KeyboardTypeOK, ControllerLoads
<1>2. Head(fifo) # Empty
  <2>1. Head(fifo) \in Bytes
    BY <1>1
  <2>2. Head(fifo).key \in 0 .. Len(scanCode) - 1
    BY <2>1, KeyboardAssumption DEF Bytes
  <2> QED
    BY <2>2 DEF Empty
<1>3. fifo = <<Head(fifo)>> \o Tail(fifo) /\ <<>> \o fifo = fifo
  BY <1>1
<1> QED
  BY <1>1, <1>2, <1>3 DEF Queue

LEMMA QueueGrows ==
  ASSUME KeyboardTypeOK, NEW b \in Bytes, outputBuffer' = outputBuffer, fifo' = Append(fifo, b)
  PROVE  Queue' = Append(Queue, b)
<1>1. fifo \in Seq(Bytes)
  BY DEF KeyboardTypeOK
<1>2. \A s \in Seq(Bytes) : s \o Append(fifo, b) = Append(s \o fifo, b)
  BY <1>1
<1>3. <<>> \in Seq(Bytes) /\ (outputBuffer # Empty => <<outputBuffer>> \in Seq(Bytes))
  BY DEF KeyboardTypeOK
<1> QED
  BY <1>2, <1>3 DEF Queue

LEMMA QueueIsServed ==
  ASSUME KeyboardTypeOK, outputBuffer # Empty, outputBuffer' = Empty, fifo' = fifo
  PROVE  /\ Queue # <<>> /\ Queue[1] = outputBuffer
         /\ Queue' = Tail(Queue)
<1>1. fifo \in Seq(Bytes)
  BY DEF KeyboardTypeOK
<1>2. Queue = <<outputBuffer>> \o fifo /\ Queue' = <<>> \o fifo
  BY DEF Queue
<1> QED
  BY <1>1, <1>2

\* Nothing that the promise is about has changed.
LEMMA SamePromise ==
  ASSUME NEW q, Promised(q), UNCHANGED <<isShift, held, typed, Echo>>
  PROVE  Promised(q)'
<1>1. PICK sh \in [0 .. Len(q) -> BOOLEAN], at \in [0 .. Len(q) -> Nat] : WillCome(sh, at, q)
  BY DEF Promised
<1>2. WillCome(sh, at, q)'
  BY <1>1 DEF WillCome
<1> QED
  BY <1>2 DEF Promised

\* A new byte at the end, for a key that goes down or up.
LEMMA PromiseGrows ==
  ASSUME NEW q \in Seq(Bytes), Promised(q), NEW b \in Bytes,
         typed \in Seq(Chars), UNCHANGED <<isShift, Echo>>,
         held' \cap Shifts # {} <=> IF b.key \in Shifts THEN ~b.isBrake
                                    ELSE held \cap Shifts # {},
         \/ /\ IsMake(b)
            /\ typed' = Append(typed, Legend[b.key][IF held \cap Shifts = {} THEN 1 ELSE 2])
         \/ ~IsMake(b) /\ typed' = typed
  PROVE  \E sh \in [0 .. Len(q) + 1 -> BOOLEAN], at \in [0 .. Len(q) + 1 -> Nat] :
           WillCome(sh, at, Append(q, b))'
<1> DEFINE n == Len(q)
           q2 == Append(q, b)
<1>1. PICK sh \in [0 .. n -> BOOLEAN], at \in [0 .. n -> Nat] : WillCome(sh, at, q)
  BY DEF Promised
<1>2. /\ n \in Nat /\ q2 \in Seq(Bytes) /\ Len(q2) = n + 1 /\ q2[n + 1] = b
      /\ \A i \in 1 .. n : q2[i] = q[i]
  OBVIOUS
<1> HIDE DEF n, q2
<1> DEFINE last == IF b.key \in Shifts THEN ~b.isBrake ELSE sh[n]
           sh2  == [i \in 0 .. n + 1 |-> IF i = n + 1 THEN last ELSE sh[i]]
           at2  == [i \in 0 .. n + 1 |-> IF i = n + 1 THEN at[n] + (IF IsMake(b) THEN 1 ELSE 0)
                                         ELSE at[i]]
<1>3. /\ sh[0] = isShift /\ (sh[n] <=> held \cap Shifts # {})
      /\ at[0] = Len(Echo) /\ at[n] = Len(typed)
      /\ \A i \in 1 .. n :
           /\ sh[i] = (IF q[i].key \in Shifts THEN ~q[i].isBrake ELSE sh[i - 1])
           /\ at[i] = at[i - 1] + (IF IsMake(q[i]) THEN 1 ELSE 0)
           /\ at[i] <= Len(typed)
           /\ IsMake(q[i]) => typed[at[i]] = Legend[q[i].key][IF sh[i - 1] THEN 2 ELSE 1]
  BY <1>1 DEF WillCome, n
<1>4. n \in 0 .. n /\ n + 1 \in 0 .. n + 1 /\ n + 1 # 0 /\ 0 \in 0 .. n
      /\ \A i \in 0 .. n : i \in 0 .. n + 1 /\ i # n + 1
  BY <1>2
<1>5. last \in BOOLEAN /\ at[n] \in Nat
  BY <1>1, <1>4 DEF Bytes
<1>6. sh2 \in [0 .. n + 1 -> BOOLEAN]
  <2> HIDE DEF last
  <2> QED
    BY <1>1, <1>2, <1>5
<1>7. at2 \in [0 .. n + 1 -> Nat]
  BY <1>1, <1>2, <1>5
<1>8. /\ sh2[n + 1] = last /\ \A i \in 0 .. n : sh2[i] = sh[i]
      /\ at2[n + 1] = at[n] + (IF IsMake(b) THEN 1 ELSE 0) /\ \A i \in 0 .. n : at2[i] = at[i]
  <2> HIDE DEF last
  <2> QED
    BY <1>4
<1> HIDE DEF sh2, at2
<1>9. sh2[0] = isShift' /\ at2[0] = Len(Echo')
  BY <1>3, <1>4, <1>8
<1>10. at2[n + 1] = Len(typed') /\ Len(typed) <= Len(typed')
       /\ \A k \in 1 .. Len(typed) : typed'[k] = typed[k]
  BY <1>3, <1>8
<1>11. sh2[n + 1] <=> held' \cap Shifts # {}
  BY <1>3, <1>8
<1>12. ASSUME NEW i \in 1 .. n + 1
       PROVE  /\ sh2[i] = (IF q2[i].key \in Shifts THEN ~q2[i].isBrake ELSE sh2[i - 1])
              /\ at2[i] = at2[i - 1] + (IF IsMake(q2[i]) THEN 1 ELSE 0)
              /\ at2[i] <= Len(typed')
              /\ IsMake(q2[i]) =>
                   typed'[at2[i]] = Legend[q2[i].key][IF sh2[i - 1] THEN 2 ELSE 1]
  <2>1. CASE i = n + 1
    <3>1. i - 1 = n /\ sh2[i - 1] = sh[n] /\ at2[i - 1] = at[n] /\ q2[i] = b
      BY <2>1, <1>2, <1>4, <1>8
    <3>2. sh2[i] = (IF q2[i].key \in Shifts THEN ~q2[i].isBrake ELSE sh2[i - 1])
      BY <3>1, <2>1, <1>8
    <3>3. at2[i] = at2[i - 1] + (IF IsMake(q2[i]) THEN 1 ELSE 0) /\ at2[i] <= Len(typed')
      BY <3>1, <2>1, <1>8, <1>10, <1>5
    <3>4. IsMake(q2[i]) => typed'[at2[i]] = Legend[q2[i].key][IF sh2[i - 1] THEN 2 ELSE 1]
      <4>1. (IF sh2[i - 1] THEN 2 ELSE 1) = (IF held \cap Shifts = {} THEN 1 ELSE 2)
        BY <3>1, <1>3
      <4>2. IsMake(b) => /\ typed'[Len(typed) + 1]
                              = Legend[b.key][IF held \cap Shifts = {} THEN 1 ELSE 2]
                         /\ at2[i] = Len(typed) + 1
        BY <1>3, <1>8, <2>1
      <4> QED
        BY <4>1, <4>2, <3>1
    <3> QED
      BY <3>2, <3>3, <3>4
  <2>2. CASE i # n + 1
    <3>1. i \in 1 .. n /\ i \in 0 .. n /\ i - 1 \in 0 .. n
      BY <2>2, <1>2
    <3>2. q2[i] = q[i] /\ sh2[i] = sh[i] /\ sh2[i - 1] = sh[i - 1]
          /\ at2[i] = at[i] /\ at2[i - 1] = at[i - 1]
      BY <3>1, <1>2, <1>8
    <3>3. at[i] \in Nat /\ at[i - 1] \in Nat /\ at[i] <= Len(typed)
      BY <3>1, <1>1, <1>3
    <3>4. at2[i] <= Len(typed')
      BY <3>2, <3>3, <1>10
    <3>5. IsMake(q[i]) => at[i] \in 1 .. Len(typed)
      BY <3>1, <3>3, <1>3
    <3>6. IsMake(q[i]) => typed'[at[i]] = typed[at[i]]
      BY <3>5, <1>10
    <3> QED
      BY <3>1, <3>2, <3>4, <3>6, <1>3
  <2> QED
    BY <2>1, <2>2
<1>13. WillCome(sh2, at2, q2)'
  <2>1. Len(q2)' = n + 1 /\ q2' = q2
    BY <1>2 DEF q2
  <2> QED
    BY <2>1, <1>2, <1>9, <1>10, <1>11, <1>12 DEF WillCome
<1> QED
  BY <1>6, <1>7, <1>13 DEF n, q2

\* The driver handles the first byte: what it prints is what is expected next.
LEMMA PromiseKept ==
  ASSUME NEW q \in Seq(Bytes), q # <<>>, Promised(q),
         typed \in Seq(Chars), Echo \in Seq(Chars),
         UNCHANGED <<held, typed>>, isShift' = ShiftAfter(q[1]),
         Len(Echo) <= Len(typed), \A j \in 1 .. Len(Echo) : Echo[j] = typed[j],
         Echo' = IF IsMake(q[1])
                 THEN Append(Echo, Legend[q[1].key][IF isShift THEN 2 ELSE 1]) ELSE Echo
  PROVE  /\ \E sh \in [0 .. Len(q) - 1 -> BOOLEAN], at \in [0 .. Len(q) - 1 -> Nat] :
              WillCome(sh, at, Tail(q))'
         /\ Len(Echo') <= Len(typed)
         /\ \A j \in 1 .. Len(Echo') : Echo'[j] = typed[j]
<1> DEFINE n == Len(q) - 1
           q2 == Tail(q)
<1>1. PICK sh \in [0 .. Len(q) -> BOOLEAN], at \in [0 .. Len(q) -> Nat] : WillCome(sh, at, q)
  BY DEF Promised
<1>2. /\ n \in Nat /\ Len(q) = n + 1 /\ q2 \in Seq(Bytes) /\ Len(q2) = n
      /\ \A i \in 1 .. n : q2[i] = q[i + 1]
  OBVIOUS
<1>3. /\ sh[0] = isShift /\ (sh[n + 1] <=> held \cap Shifts # {})
      /\ at[0] = Len(Echo) /\ at[n + 1] = Len(typed)
      /\ \A i \in 1 .. n + 1 :
           /\ sh[i] = (IF q[i].key \in Shifts THEN ~q[i].isBrake ELSE sh[i - 1])
           /\ at[i] = at[i - 1] + (IF IsMake(q[i]) THEN 1 ELSE 0)
           /\ at[i] <= Len(typed)
           /\ IsMake(q[i]) => typed[at[i]] = Legend[q[i].key][IF sh[i - 1] THEN 2 ELSE 1]
  BY <1>1, <1>2 DEF WillCome
<1> HIDE DEF n, q2
<1> DEFINE sh2 == [i \in 0 .. n |-> sh[i + 1]]
           at2 == [i \in 0 .. n |-> at[i + 1]]
<1>4. 0 \in 0 .. n /\ n \in 0 .. n /\ 1 \in 1 .. n + 1 /\ 1 - 1 = 0 /\ 0 + 1 = 1
      /\ \A i \in 0 .. n : i + 1 \in 0 .. n + 1
  BY <1>2
<1>5. sh2 \in [0 .. n -> BOOLEAN] /\ at2 \in [0 .. n -> Nat]
  BY <1>1, <1>2, <1>4
<1>6. \A i \in 0 .. n : sh2[i] = sh[i + 1] /\ at2[i] = at[i + 1]
  OBVIOUS
<1> HIDE DEF sh2, at2
<1>7. sh[1] = isShift'
  BY <1>3, <1>4 DEF ShiftAfter
<1>8. at[1] = Len(Echo) + (IF IsMake(q[1]) THEN 1 ELSE 0) /\ at[1] <= Len(typed)
      /\ (IsMake(q[1]) => typed[at[1]] = Legend[q[1].key][IF isShift THEN 2 ELSE 1])
  BY <1>3, <1>4
<1>9. Len(Echo') = at[1]
  <2>1. CASE IsMake(q[1])
    BY <2>1, <1>8
  <2>2. CASE ~IsMake(q[1])
    BY <2>2, <1>8
  <2> QED
    BY <2>1, <2>2
<1>10. \A j \in 1 .. Len(Echo') : Echo'[j] = typed[j]
  <2>1. CASE IsMake(q[1])
    <3> DEFINE c == Legend[q[1].key][IF isShift THEN 2 ELSE 1]
    <3>1. Echo' = Append(Echo, c) /\ typed[Len(Echo) + 1] = c
      BY <2>1, <1>8
    <3> HIDE DEF c
    <3> QED
      BY <3>1
  <2>2. CASE ~IsMake(q[1])
    BY <2>2
  <2> QED
    BY <2>1, <2>2
<1>11. /\ sh2[0] = isShift' /\ at2[0] = Len(Echo')
       /\ sh2[n] <=> held' \cap Shifts # {}
       /\ at2[n] = Len(typed')
  BY <1>3, <1>4, <1>6, <1>7, <1>9
<1>12. ASSUME NEW i \in 1 .. n
       PROVE  /\ sh2[i] = (IF q2[i].key \in Shifts THEN ~q2[i].isBrake ELSE sh2[i - 1])
              /\ at2[i] = at2[i - 1] + (IF IsMake(q2[i]) THEN 1 ELSE 0)
              /\ at2[i] <= Len(typed')
              /\ IsMake(q2[i]) =>
                   typed'[at2[i]] = Legend[q2[i].key][IF sh2[i - 1] THEN 2 ELSE 1]
  <2>1. i \in 0 .. n /\ i - 1 \in 0 .. n /\ i + 1 \in 1 .. n + 1
        /\ (i + 1) - 1 = i /\ (i - 1) + 1 = i
    BY <1>2
  <2>2. q2[i] = q[i + 1] /\ sh2[i] = sh[i + 1] /\ sh2[i - 1] = sh[i]
        /\ at2[i] = at[i + 1] /\ at2[i - 1] = at[i]
    BY <2>1, <1>2, <1>6
  <2>3. /\ sh[i + 1] = (IF q[i + 1].key \in Shifts THEN ~q[i + 1].isBrake ELSE sh[i])
        /\ at[i + 1] = at[i] + (IF IsMake(q[i + 1]) THEN 1 ELSE 0)
        /\ at[i + 1] <= Len(typed)
        /\ IsMake(q[i + 1]) =>
             typed[at[i + 1]] = Legend[q[i + 1].key][IF sh[i] THEN 2 ELSE 1]
    BY <2>1, <1>3
  <2> QED
    BY <2>2, <2>3
<1>13. WillCome(sh2, at2, q2)'
  <2>1. Len(q2)' = n /\ q2' = q2
    BY <1>2 DEF q2
  <2> QED
    BY <2>1, <1>2, <1>11, <1>12 DEF WillCome
<1> QED
  BY <1>5, <1>8, <1>9, <1>10, <1>13 DEF n, q2

\* What the driver and programs print, and what it does to the echo.
LEMMA EchoAfterText ==
  ASSUME shown \in Seq(Chars), NEW c \in Chars, shown' = shown \o <<c>>
  PROVE  /\ shown' \in Seq(Chars)
         /\ Echo' = IF c \in PutChars THEN Echo ELSE Append(Echo, c)
<1>1. shown' = Append(shown, c) /\ Append(shown, c) \in Seq(Chars)
  OBVIOUS
<1>2. EchoIn(Append(shown, c)) = IF c \in PutChars THEN EchoIn(shown)
                                 ELSE Append(EchoIn(shown), c)
  BY EchoGrows
<1>3. Echo' = EchoIn(shown')
  BY DEF Echo
<1> QED
  BY <1>1, <1>2, <1>3 DEF Echo

LEMMA KeysInvInitially ==
  ASSUME BootInit
  PROVE  KeysInv
<1>1. /\ shown = <<>> /\ typed = <<>> /\ outputBuffer = Empty /\ fifo = <<>>
      /\ held = {} /\ isShift = FALSE
  BY DEF BootInit, KeyboardInit
<1>2. Echo = <<>>
  BY <1>1, EchoOfNothing DEF Echo
<1>3. Queue = <<>>
  BY <1>1 DEF Queue
<1>4. Len(<<>>) = 0 /\ <<>> \in Seq(Chars)
  OBVIOUS
<1> DEFINE sh == [i \in 0 .. 0 |-> FALSE]
           at == [i \in 0 .. 0 |-> 0]
<1>5. /\ sh \in [0 .. 0 -> BOOLEAN] /\ sh[0] = FALSE
      /\ at \in [0 .. 0 -> Nat] /\ at[0] = 0
  OBVIOUS
<1>6. Promised(<<>>)
  <2> HIDE DEF sh, at
  <2>1. held \cap Shifts = {} /\ 1 .. 0 = {}
    BY <1>1
  <2>2. WillCome(sh, at, <<>>)
    BY <2>1, <1>1, <1>2, <1>4, <1>5 DEF WillCome
  <2> QED
    BY <2>2, <1>4, <1>5 DEF Promised
<1>7. ~(Shifts \subseteq held)
  BY <1>1 DEF Shifts
<1> QED
  BY <1>1, <1>2, <1>3, <1>4, <1>6, <1>7 DEF KeysInv

\* A step that neither prints nor touches the keyboard.
LEMMA KeysUntouched ==
  ASSUME KeysInv, UNCHANGED <<shown, typed, keyboardVars>>
  PROVE  KeysInv'
<1>1. Echo' = Echo /\ Queue' = Queue
  BY DEF Echo, Queue, keyboardVars
<1>2. Promised(Queue)'
  <2> DEFINE q == Queue
  <2>1. Promised(q)
    BY DEF KeysInv
  <2>2. \A r : Promised(r) => Promised(r)'
    <3> SUFFICES ASSUME NEW r, Promised(r)
                 PROVE  Promised(r)'
      OBVIOUS
    <3> QED
      BY <1>1, SamePromise DEF keyboardVars
  <2> QED
    BY <2>1, <2>2, <1>1
<1> QED
  BY <1>1, <1>2 DEF KeysInv, keyboardVars

LEMMA KeysInvStep ==
  ASSUME LegendIsTheTable, KeysAreToldApart, KeysInv, KeyboardTypeOK, KeyboardTypeOK',
         [BootNext]_bootVars
  PROVE  KeysInv'
<1>1. CASE BootStep \/ TakeInterrupt \/ kbc_exit \/ Syscall \/ Misbehave \/ sysExec
           \/ UNCHANGED bootVars
  <2>1. UNCHANGED <<shown, typed, keyboardVars>>
    <3>1. CASE BootStep
      BY <3>1 DEF BootStep, BootGraphic, gdtInit, ProcessInit, idtInit, BootPic, BootDevices,
                  BootDevice, EnableCPUInterrupt, screen
    <3>2. CASE ~BootStep
      BY <1>1, <3>2 DEF TakeInterrupt, kbc_exit, Syscall, Misbehave, sysExec, screen, bootVars
    <3> QED
      BY <3>1, <3>2
  <2> QED
    BY <2>1, KeysUntouched
<1>2. CASE KeyEvent
  <2>1. UNCHANGED shown /\ Echo' = Echo
    BY <1>2 DEF KeyEvent, screen, Echo
  <2>2. PICK k \in Keys :
          \/ /\ KeyDown(k)
             /\ IF k \in Modifiers THEN typed' = typed
                ELSE typed' = Append(typed, LegendOf(k, held))
          \/ KeyUp(k) /\ typed' = typed
    BY <1>2 DEF KeyEvent
  <2>3. PICK up \in BOOLEAN :
          /\ fifo' = Append(fifo, Byte(k, up)) /\ UNCHANGED <<outputBuffer, isShift>>
          /\ ~(Shifts \subseteq held')
          /\ held' \cap Shifts # {} <=> IF k \in Shifts THEN ~up ELSE held \cap Shifts # {}
          /\ IF up \/ k \in Modifiers THEN typed' = typed
             ELSE typed' = Append(typed, LegendOf(k, held))
    <3>1. CASE KeyDown(k) /\ IF k \in Modifiers THEN typed' = typed
                             ELSE typed' = Append(typed, LegendOf(k, held))
      <4>1. /\ fifo' = Append(fifo, Byte(k, FALSE)) /\ UNCHANGED <<outputBuffer, isShift>>
            /\ ~(Shifts \subseteq held') /\ held' = held \cup {k}
        BY <3>1 DEF KeyDown
      <4>2. held' \cap Shifts # {} <=> IF k \in Shifts THEN TRUE ELSE held \cap Shifts # {}
        BY <4>1
      <4> QED
        BY <3>1, <4>1, <4>2
    <3>2. CASE KeyUp(k) /\ typed' = typed
      <4>1. /\ fifo' = Append(fifo, Byte(k, TRUE)) /\ UNCHANGED <<outputBuffer, isShift>>
            /\ held' = held \ {k} /\ k \in held
        BY <3>2 DEF KeyUp
      <4>2. ~(Shifts \subseteq held) /\ ~(Shifts \subseteq held')
        BY <4>1 DEF KeysInv
      <4>3. held' \cap Shifts # {} <=> IF k \in Shifts THEN FALSE ELSE held \cap Shifts # {}
        BY <4>1, <4>2 DEF Shifts
      <4> QED
        BY <3>2, <4>1, <4>2, <4>3
    <3> QED
      BY <2>2, <3>1, <3>2
  <2> DEFINE byte == Byte(k, up)
  <2>4. byte \in Bytes /\ byte.key = k /\ byte.isBrake = up
        /\ (IsMake(byte) <=> ~up /\ k \notin Modifiers)
    BY <2>3 DEF Byte, Bytes, IsMake
  <2>5. PICK q \in Seq(Bytes) : q = Queue /\ Promised(q)
    BY QueueType DEF KeysInv
  <2>6. Queue' = Append(q, byte)
    BY <2>3, <2>4, <2>5, QueueGrows
  <2>7. k \notin Modifiers =>
          LegendOf(k, held) = Legend[k][IF held \cap Shifts = {} THEN 1 ELSE 2]
          /\ LegendOf(k, held) \in Chars
    BY DEF LegendOf, Chars
  <2>8. typed \in Seq(Chars)
    BY DEF KeysInv
  <2>9. \/ /\ IsMake(byte)
           /\ typed' = Append(typed, Legend[byte.key][IF held \cap Shifts = {} THEN 1 ELSE 2])
        \/ ~IsMake(byte) /\ typed' = typed
    BY <2>3, <2>4, <2>7
  <2> HIDE DEF byte
  <2>10. held' \cap Shifts # {} <=> IF byte.key \in Shifts THEN ~byte.isBrake
                                    ELSE held \cap Shifts # {}
    BY <2>3, <2>4
  <2>11. \E sh \in [0 .. Len(q) + 1 -> BOOLEAN], at \in [0 .. Len(q) + 1 -> Nat] :
           WillCome(sh, at, Append(q, byte))'
    BY <2>1, <2>3, <2>4, <2>5, <2>8, <2>9, <2>10, PromiseGrows
  <2>12. Promised(Queue)'
    <3>1. Len(Append(q, byte)) = Len(q) + 1
      BY <2>5
    <3>2. \A r : r = Append(q, byte) =>
            \E sh \in [0 .. Len(r) -> BOOLEAN], at \in [0 .. Len(r) -> Nat] :
              WillCome(sh, at, r)'
      BY <2>11, <3>1
    <3> QED
      BY <2>6, <3>2 DEF Promised
  <2>13. typed' \in Seq(Chars) /\ Len(typed) <= Len(typed')
         /\ \A j \in 1 .. Len(typed) : typed'[j] = typed[j]
    <3>1. CASE typed' = typed
      BY <3>1, <2>8
    <3>2. CASE typed' # typed
      <4>1. typed' = Append(typed, LegendOf(k, held)) /\ LegendOf(k, held) \in Chars
        BY <3>2, <2>3, <2>7
      <4> QED
        BY <4>1, <2>8
    <3> QED
      BY <3>1, <3>2
  <2>14. Len(Echo') <= Len(typed') /\ \A j \in 1 .. Len(Echo') : Echo'[j] = typed'[j]
    <3>1. Len(Echo) \in Nat /\ Len(typed) \in Nat /\ Len(typed') \in Nat
          /\ Len(Echo) <= Len(typed) /\ \A j \in 1 .. Len(Echo) : Echo[j] = typed[j]
      BY <2>8, <2>13 DEF KeysInv
    <3> QED
      BY <3>1, <2>1, <2>13
  <2> QED
    BY <2>1, <2>3, <2>12, <2>13, <2>14 DEF KeysInv
<1>3. CASE ByteArrives
  <2>1. UNCHANGED <<shown, typed, isShift, held>> /\ Echo' = Echo
    BY <1>3 DEF ByteArrives, ControllerLoads, screen, Echo
  <2>2. Queue' = Queue
    BY <1>3, QueueLoads DEF ByteArrives
  <2>3. PICK q : q = Queue /\ Promised(q)
    BY DEF KeysInv
  <2>4. Promised(q)'
    BY <2>1, <2>3, SamePromise
  <2>5. Promised(Queue)'
    BY <2>2, <2>3, <2>4
  <2> QED
    BY <2>1, <2>5 DEF KeysInv
<1>4. CASE doKBCInterrupt /\ outputBuffer = Empty
  <2>1. TextOf(<<>>) = <<>> /\ shown \in Seq(Chars)
    BY DEF TextOf, KeysInv
  <2>2. shown' = shown \o <<>>
    BY <1>4, <2>1 DEF doKBCInterrupt, Output
  <2>3. UNCHANGED <<shown, typed, keyboardVars>>
    BY <1>4, <2>1, <2>2 DEF doKBCInterrupt, HandleByte, keyboardVars
  <2> QED
    BY <2>3, KeysUntouched
<1>5. CASE doKBCInterrupt /\ outputBuffer # Empty
  <2>1. /\ outputBuffer' = Empty /\ UNCHANGED <<fifo, held, typed>>
        /\ isShift' = ShiftAfter(outputBuffer)
        /\ shown' = shown \o TextOf(Printed(outputBuffer))
    BY <1>5 DEF doKBCInterrupt, HandleByte, Output
  <2>2. PICK byte \in Bytes : byte = outputBuffer
    BY <1>5 DEF KeyboardTypeOK
  <2>3. PICK q \in Seq(Bytes) : q = Queue /\ Promised(q)
    BY QueueType DEF KeysInv
  <2>4. q # <<>> /\ q[1] = byte /\ Queue' = Tail(q)
    BY <1>5, <2>1, <2>2, <2>3, QueueIsServed
  <2>5. isShift' = ShiftAfter(q[1])
    BY <2>1, <2>2, <2>4
  <2>6. PICK c : c = Legend[byte.key][IF isShift THEN 2 ELSE 1]
    OBVIOUS
  <2>7. IsMake(byte) => c \in Chars /\ c \notin PutChars
    <3>1. IsMake(byte) => byte.key \in Keys \ Modifiers
      BY DEF IsMake, Bytes
    <3> QED
      BY <3>1, <2>6 DEF Chars, KeysAreToldApart
  <2>8. TextOf(Printed(byte)) = IF IsMake(byte) THEN <<c>> ELSE <<>>
    BY <2>6, PrintsTheLegend DEF KeyboardTypeOK
  <2>9. /\ typed \in Seq(Chars) /\ Echo \in Seq(Chars) /\ shown \in Seq(Chars)
        /\ Len(Echo) <= Len(typed) /\ \A j \in 1 .. Len(Echo) : Echo[j] = typed[j]
    BY DEF KeysInv
  <2>10. shown' \in Seq(Chars) /\ Echo' = IF IsMake(byte) THEN Append(Echo, c) ELSE Echo
    <3>1. CASE IsMake(byte)
      <4>1. shown' = shown \o <<c>>
        BY <3>1, <2>1, <2>2, <2>8
      <4> QED
        BY <3>1, <4>1, <2>7, <2>9, EchoAfterText
    <3>2. CASE ~IsMake(byte)
      <4>1. shown' = shown \o <<>>
        BY <3>2, <2>1, <2>2, <2>8
      <4>2. shown' = shown
        BY <4>1, <2>9
      <4> QED
        BY <3>2, <4>2, <2>9 DEF Echo
    <3> QED
      BY <3>1, <3>2
  <2>11. Echo' = IF IsMake(q[1])
                 THEN Append(Echo, Legend[q[1].key][IF isShift THEN 2 ELSE 1]) ELSE Echo
    BY <2>4, <2>6, <2>10
  <2>12. /\ \E sh \in [0 .. Len(q) - 1 -> BOOLEAN], at \in [0 .. Len(q) - 1 -> Nat] :
              WillCome(sh, at, Tail(q))'
         /\ Len(Echo') <= Len(typed) /\ \A j \in 1 .. Len(Echo') : Echo'[j] = typed[j]
    BY <2>1, <2>3, <2>4, <2>5, <2>9, <2>11, PromiseKept
  <2>13. Promised(Queue)'
    <3>1. Len(Tail(q)) = Len(q) - 1
      BY <2>3, <2>4
    <3>2. \A r : r = Tail(q) =>
            \E sh \in [0 .. Len(r) -> BOOLEAN], at \in [0 .. Len(r) -> Nat] :
              WillCome(sh, at, r)'
      BY <2>12, <3>1
    <3> QED
      BY <2>4, <3>2 DEF Promised
  <2>14. Echo' \in Seq(Chars)
    BY <2>7, <2>9, <2>10
  <2>15. ~(Shifts \subseteq held')
    BY <2>1 DEF KeysInv
  <2> QED
    BY <2>1, <2>9, <2>10, <2>12, <2>13, <2>14, <2>15 DEF KeysInv
<1>6. CASE SyscallPut
  <2>1. PICK d \in PutChars : shown' = shown \o TextOf(<<d>>)
    BY <1>6 DEF SyscallPut, Output
  <2>2. UNCHANGED <<typed, outputBuffer, fifo, held, isShift>>
    BY <1>6 DEF SyscallPut, keyboardVars
  <2>3. shown \in Seq(Chars) /\ d \in Chars
    BY DEF KeysInv, Chars
  <2>4. shown' \in Seq(Chars) /\ Echo' = Echo
    <3>1. TextOf(<<d>>) = <<d>>
      BY DEF TextOf
    <3> QED
      BY <3>1, <2>1, <2>3, EchoAfterText
  <2>5. Queue' = Queue
    BY <2>2 DEF Queue
  <2>6. PICK q : q = Queue /\ Promised(q)
    BY DEF KeysInv
  <2>7. Promised(q)'
    BY <2>2, <2>4, <2>6, SamePromise
  <2>8. Promised(Queue)'
    BY <2>5, <2>6, <2>7
  <2> QED
    BY <2>2, <2>4, <2>8 DEF KeysInv
<1> QED
  BY <1>1, <1>2, <1>3, <1>4, <1>5, <1>6 DEF BootNext

\* The keys come out in the order they were pressed in, and with the character
\* that shift selected on them when they were, however late the handler gets to
\* them, whatever programs print meanwhile (doKBCInterrupt, isShift): for every
\* keyboard whose keys carry what the driver's table has for them, and programs
\* whose characters can be told from those of the keys.
THEOREM KeysComeOutInOrder ==
  LegendIsTheTable /\ KeysAreToldApart => (BootSpec => []KeysComeOutAsTyped)
<1> SUFFICES ASSUME LegendIsTheTable /\ KeysAreToldApart
             PROVE  BootSpec => []KeysComeOutAsTyped
  OBVIOUS
<1>1. BootInit => Devices /\ KeysInv
  BY DevicesInitially, KeysInvInitially
<1>2. Devices /\ KernelInv /\ KeysInv /\ [BootNext]_bootVars => (Devices /\ KeysInv)'
  <2> SUFFICES ASSUME Devices, KernelInv, KeysInv, [BootNext]_bootVars
               PROVE  (Devices /\ KeysInv)'
    OBVIOUS
  <2>1. Devices'
    BY DevicesStep
  <2>2. KeysInv'
    BY <2>1, KeysInvStep DEF Devices
  <2> QED
    BY <2>1, <2>2
<1>3. Devices /\ KeysInv => KeysComeOutAsTyped
  <2> SUFFICES ASSUME KeysInv
               PROVE  KeysComeOutAsTyped
    OBVIOUS
  <2>1. /\ Echo \in Seq(Chars) /\ typed \in Seq(Chars) /\ Len(Echo) <= Len(typed)
        /\ \A j \in 1 .. Len(Echo) : Echo[j] = typed[j]
    BY DEF KeysInv
  <2>2. PICK e : e = Echo
    OBVIOUS
  <2>3. e = SubSeq(typed, 1, Len(e))
    BY <2>1, <2>2
  <2> QED
    BY <2>1, <2>2, <2>3 DEF KeysComeOutAsTyped, IsPrefix
<1> QED
  BY <1>1, <1>2, <1>3, KernelInvAlways, PTL DEF BootSpec

-----------------------------------------------------------------------------
(***************************************************************************)
(* Where the characters of a text belong                                   *)
(***************************************************************************)

\* The line and the column the next character of a text comes to.
NextLine(text)   == LineAt(text, Len(text) + 1)
NextColumn(text) == ColumnAt(text, Len(text) + 1)

NewlinesBefore(text, i) == {j \in 1 .. i - 1 : text[j] = "\n"}
SameLineBefore(text, i) ==
  {j \in 1 .. i - 1 : LineAt(text, j) = LineAt(text, i) /\ text[j] # "\n"}

LEMMA PlacesCount ==
  ASSUME NEW text, NEW i \in Nat
  PROVE  /\ IsFiniteSet(NewlinesBefore(text, i)) /\ IsFiniteSet(SameLineBefore(text, i))
         /\ LineAt(text, i) = Cardinality(NewlinesBefore(text, i))
         /\ ColumnAt(text, i) = Cardinality(SameLineBefore(text, i))
         /\ LineAt(text, i) \in Nat /\ ColumnAt(text, i) \in Nat
<1>1. IsFiniteSet(1 .. i - 1)
  BY FS_Interval
<1>2. IsFiniteSet(NewlinesBefore(text, i)) /\ IsFiniteSet(SameLineBefore(text, i))
  BY <1>1, FS_Subset DEF NewlinesBefore, SameLineBefore
<1>3. /\ LineAt(text, i) = Cardinality(NewlinesBefore(text, i))
      /\ ColumnAt(text, i) = Cardinality(SameLineBefore(text, i))
  BY DEF LineAt, ColumnAt, NewlinesBefore, SameLineBefore
<1> QED
  BY <1>2, <1>3, FS_CardinalityType

\* A place depends on the characters before it only.
LEMMA PlacesStay ==
  ASSUME NEW text, NEW more, NEW n \in Nat, \A j \in 1 .. n : more[j] = text[j]
  PROVE  \A i \in 1 .. n + 1 : LineAt(more, i) = LineAt(text, i)
                               /\ ColumnAt(more, i) = ColumnAt(text, i)
<1>1. \A i \in 1 .. n + 1 : LineAt(more, i) = LineAt(text, i)
  <2> TAKE i \in 1 .. n + 1
  <2>1. {j \in 1 .. i - 1 : more[j] = "\n"} = {j \in 1 .. i - 1 : text[j] = "\n"}
    OBVIOUS
  <2> QED
    BY <2>1 DEF LineAt
<1>2. TAKE i \in 1 .. n + 1
<1>3. SameLineBefore(more, i) = SameLineBefore(text, i)
  <2>1. \A j \in 1 .. i - 1 : more[j] = text[j] /\ LineAt(more, j) = LineAt(text, j)
    BY <1>1
  <2>2. LineAt(more, i) = LineAt(text, i)
    BY <1>1
  <2> QED
    BY <2>1, <2>2 DEF SameLineBefore
<1>4. ColumnAt(more, i) = Cardinality(SameLineBefore(more, i))
      /\ ColumnAt(text, i) = Cardinality(SameLineBefore(text, i))
  BY DEF ColumnAt, SameLineBefore
<1> QED
  BY <1>1, <1>3, <1>4

LEMMA LinesGrow ==
  ASSUME NEW text, NEW i \in Nat, NEW j \in 1 .. i
  PROVE  LineAt(text, j) <= LineAt(text, i)
<1>1. NewlinesBefore(text, j) \subseteq NewlinesBefore(text, i)
  BY DEF NewlinesBefore
<1> QED
  BY <1>1, FS_Subset, PlacesCount

\* No two characters come to the same place.
LEMMA PlacesDiffer ==
  ASSUME NEW text, NEW i \in Nat, NEW j \in 1 .. i - 1, text[j] # "\n",
         LineAt(text, j) = LineAt(text, i)
  PROVE  ColumnAt(text, j) < ColumnAt(text, i)
<1>1. SameLineBefore(text, j) \subseteq SameLineBefore(text, i)
  BY DEF SameLineBefore
<1>2. j \in SameLineBefore(text, i) /\ j \notin SameLineBefore(text, j)
  BY DEF SameLineBefore
<1>3. /\ Cardinality(SameLineBefore(text, j)) <= Cardinality(SameLineBefore(text, i))
      /\ Cardinality(SameLineBefore(text, j)) # Cardinality(SameLineBefore(text, i))
  BY <1>1, <1>2, FS_Subset, PlacesCount
<1> QED
  BY <1>3, PlacesCount

\* The place behind a character: the next line, or the next column.
LEMMA NextPlace ==
  ASSUME NEW text, NEW i \in Nat \ {0}
  PROVE  /\ text[i] = "\n" => /\ LineAt(text, i + 1) = LineAt(text, i) + 1
                              /\ ColumnAt(text, i + 1) = 0
         /\ text[i] # "\n" => /\ LineAt(text, i + 1) = LineAt(text, i)
                              /\ ColumnAt(text, i + 1) = ColumnAt(text, i) + 1
<1>1. i \notin NewlinesBefore(text, i) /\ i \notin SameLineBefore(text, i)
  BY DEF NewlinesBefore, SameLineBefore
<1>2. CASE text[i] = "\n"
  <2>1. NewlinesBefore(text, i + 1) = NewlinesBefore(text, i) \cup {i}
    BY <1>2 DEF NewlinesBefore
  <2>2. LineAt(text, i + 1) = LineAt(text, i) + 1
    BY <1>1, <2>1, PlacesCount, FS_AddElement
  <2>3. SameLineBefore(text, i + 1) = {}
    <3>1. \A j \in 1 .. i : LineAt(text, j) <= LineAt(text, i) /\ LineAt(text, j) \in Nat
      BY LinesGrow, PlacesCount
    <3>2. \A j \in 1 .. i : LineAt(text, j) # LineAt(text, i + 1)
      BY <2>2, <3>1, PlacesCount
    <3> QED
      BY <3>2 DEF SameLineBefore
  <2> QED
    BY <1>2, <2>2, <2>3, PlacesCount, FS_EmptySet
<1>3. CASE text[i] # "\n"
  <2>1. NewlinesBefore(text, i + 1) = NewlinesBefore(text, i)
    BY <1>3 DEF NewlinesBefore
  <2>2. LineAt(text, i + 1) = LineAt(text, i)
    BY <2>1, PlacesCount
  <2>3. SameLineBefore(text, i + 1) = SameLineBefore(text, i) \cup {i}
    BY <1>3, <2>2 DEF SameLineBefore
  <2> QED
    BY <1>1, <1>3, <2>2, <2>3, PlacesCount, FS_AddElement
<1> QED
  BY <1>2, <1>3

-----------------------------------------------------------------------------
(***************************************************************************)
(* Pixels and cells                                                        *)
(***************************************************************************)

\* A pixel is at one address only, as long as it is not behind the right edge.
LEMMA AddressesDiffer ==
  ASSUME NEW r \in Nat, NEW x \in 0 .. r - 1, NEW u \in 0 .. r - 1, NEW y \in Nat, NEW v \in Nat,
         r * y + x = r * v + u
  PROVE  x = u /\ y = v
<1>1. ASSUME NEW a \in Nat, NEW b \in Nat, a < b
      PROVE  r * a + r <= r * b
  <2>1. PICK d \in Nat : b = a + 1 + d
    <3>1. b - a - 1 \in Nat /\ b = a + 1 + (b - a - 1)
      BY <1>1
    <3> QED
      BY <3>1
  <2>2. r * b = r * a + r + r * d /\ r * d \in Nat /\ r * a \in Nat
    BY <2>1
  <2> QED
    BY <2>2
<1>2. r * y \in Nat /\ r * v \in Nat
  OBVIOUS
<1>3. ~(y < v)
  BY <1>1, <1>2
<1>4. ~(v < y)
  BY <1>1, <1>2
<1> QED
  BY <1>2, <1>3, <1>4

LEMMA QuotientIs ==
  ASSUME NEW w \in Nat \ {0}, NEW x \in Nat
  PROVE  /\ x \div w \in Nat /\ x % w \in 0 .. w - 1 /\ x = w * (x \div w) + (x % w)
<1>1. x % w \in 0 .. w - 1
  OBVIOUS
<1>2. x \div w \in Int
  OBVIOUS
<1>3. x = w * (x \div w) + (x % w)
  OBVIOUS
<1>4. x \div w >= 0
  <2> DEFINE q == x \div w
             m == x % w
  <2>1. q \in Int /\ m < w /\ m \in Nat /\ x = w * q + m
    BY <1>1, <1>2, <1>3
  <2> HIDE DEF q, m
  <2>2. ASSUME q < 0
        PROVE  FALSE
    <3>1. PICK d \in Nat : q = -1 - d
      <4>1. -1 - q \in Nat /\ q = -1 - (-1 - q)
        BY <2>1, <2>2
      <4> QED
        BY <4>1
    <3>2. w * (-1 - d) = -w - w * d /\ w * d \in Nat
      OBVIOUS
    <3> QED
      BY <2>1, <3>1, <3>2
  <2> QED
    BY <2>1, <2>2 DEF q
<1> QED
  BY <1>1, <1>2, <1>3, <1>4

\* The pixels of the k-th interval of length w, and their places in it.
LEMMA Intervals ==
  ASSUME NEW w \in Nat \ {0}, NEW x \in Nat, NEW k \in Nat
  PROVE  /\ x \div w = k <=> w * k <= x /\ x < w * k + w
         /\ x \div w = k => x % w = x - w * k
<1>1. /\ x \div w \in Nat /\ x % w \in 0 .. w - 1 /\ x = w * (x \div w) + (x % w)
  BY QuotientIs
<1>2. ASSUME w * k <= x, x < w * k + w
      PROVE  x \div w = k
  <2> DEFINE q == x \div w
             m == x % w
  <2>1. q \in Nat /\ m \in 0 .. w - 1 /\ w * q + m = w * k + (x - w * k)
    BY <1>1
  <2>2. w * k \in Nat /\ x - w * k \in 0 .. w - 1
    BY <1>2
  <2> HIDE DEF q, m
  <2>3. q = k
    BY <2>1, <2>2, AddressesDiffer
  <2> QED
    BY <2>3 DEF q
<1>3. w * k \in Nat
  OBVIOUS
<1> QED
  BY <1>1, <1>2, <1>3

LEMMA CellsFit ==
  ASSUME NEW w \in Nat \ {0}, NEW r \in Nat, NEW k \in Nat, k <= (r \div w) - 1
  PROVE  w * k + w <= r
<1>1. r \div w \in Nat /\ w * (r \div w) <= r
  OBVIOUS
<1>2. PICK d \in Nat : r \div w = k + 1 + d
  <2>1. (r \div w) - k - 1 \in Nat /\ r \div w = k + 1 + ((r \div w) - k - 1)
    BY <1>1
  <2> QED
    BY <2>1
<1>3. w * (k + 1 + d) = w * k + w + w * d /\ w * d \in Nat /\ w * k \in Nat
  OBVIOUS
<1> QED
  BY <1>1, <1>2, <1>3

\* Drawing a character changes the pixels of its cell and no others, if the cell
\* does not reach over the right edge.
LEMMA GlyphIsDrawn ==
  ASSUME NEW s, NEW c, NEW left \in Nat, NEW top \in Nat,
         left + FONT_WIDTH <= HorizontalResolution,
         NEW x \in 0 .. HorizontalResolution - 1, NEW y \in Nat, Address(x, y) \in DOMAIN s
  PROVE  DrawGlyph(s, c, left, top)[Address(x, y)]
           = IF left <= x /\ x < left + FONT_WIDTH /\ top <= y /\ y < top + FONT_HEIGHT
             THEN fontBitMap(c, y - top, x - left) ELSE s[Address(x, y)]
<1> DEFINE at == [q \in Cell |-> Address(left + q[1], top + q[2])]
           a  == Address(x, y)
           InCell == left <= x /\ x < left + FONT_WIDTH /\ top <= y /\ y < top + FONT_HEIGHT
<1>1. FONT_WIDTH \in Nat \ {0} /\ FONT_HEIGHT \in Nat \ {0} /\ HorizontalResolution \in Nat \ {0}
  BY ConsoleAssumption
<1>2. DrawGlyph(s, c, left, top)[a]
        = IF \E q \in Cell : at[q] = a
          THEN LET q == CHOOSE r \in Cell : at[r] = a IN fontBitMap(c, q[2], q[1])
          ELSE s[a]
  BY DEF DrawGlyph
<1>3. ASSUME NEW q \in Cell, at[q] = a
      PROVE  q[1] = x - left /\ q[2] = y - top /\ InCell
  <2>1. q[1] \in 0 .. FONT_WIDTH - 1 /\ q[2] \in 0 .. FONT_HEIGHT - 1
    BY DEF Cell
  <2>2. left + q[1] \in 0 .. HorizontalResolution - 1 /\ top + q[2] \in Nat
    BY <1>1, <2>1
  <2>3. HorizontalResolution * (top + q[2]) + (left + q[1]) = HorizontalResolution * y + x
    BY <1>3 DEF Address
  <2>4. left + q[1] = x /\ top + q[2] = y
    <3> DEFINE u == left + q[1]
               v == top + q[2]
    <3>1. /\ u \in 0 .. HorizontalResolution - 1 /\ v \in Nat
          /\ HorizontalResolution * v + u = HorizontalResolution * y + x
      BY <2>2, <2>3
    <3> HIDE DEF u, v
    <3>2. u = x /\ v = y
      BY <1>1, <3>1, AddressesDiffer
    <3> QED
      BY <3>2 DEF u, v
  <2> QED
    BY <1>1, <2>1, <2>4
<1>4. ASSUME InCell
      PROVE  <<x - left, y - top>> \in Cell /\ at[<<x - left, y - top>>] = a
  <2>1. x - left \in 0 .. FONT_WIDTH - 1 /\ y - top \in 0 .. FONT_HEIGHT - 1
    BY <1>1, <1>4
  <2>2. <<x - left, y - top>> \in Cell
    BY <2>1 DEF Cell
  <2>3. left + (x - left) = x /\ top + (y - top) = y
    OBVIOUS
  <2> QED
    BY <2>2, <2>3
<1>5. CASE InCell
  <2>1. \E q \in Cell : at[q] = a
    BY <1>4, <1>5
  <2> DEFINE q == CHOOSE r \in Cell : at[r] = a
  <2>2. q \in Cell /\ at[q] = a
    BY <2>1
  <2> HIDE DEF at, a, InCell
  <2>3. q[1] = x - left /\ q[2] = y - top
    BY <1>3, <2>2
  <2>4. DrawGlyph(s, c, left, top)[a] = fontBitMap(c, q[2], q[1])
    BY <1>2, <2>1
  <2> HIDE DEF q
  <2>5. DrawGlyph(s, c, left, top)[a] = fontBitMap(c, y - top, x - left)
    BY <2>3, <2>4
  <2> QED
    BY <1>5, <2>5 DEF InCell, a
<1>6. CASE ~InCell
  <2>1. ~ \E q \in Cell : at[q] = a
    <3> HIDE DEF at, a, InCell
    <3> QED
      BY <1>3, <1>6
  <2> QED
    BY <1>2, <1>6, <2>1
<1> QED
  BY <1>5, <1>6

\* A blank leaves a pixel as it was or gives it the background, wherever it is.
LEMMA BlankIsDrawn ==
  ASSUME NEW s, NEW left, NEW top, NEW a \in DOMAIN s
  PROVE  DrawGlyph(s, "\r", left, top)[a] \in {BG, s[a]}
BY DEF DrawGlyph, fontBitMap, Blank

-----------------------------------------------------------------------------
(***************************************************************************)
(* The console shows a text, and its cursor is where the next character    *)
(* belongs.                                                                *)
(***************************************************************************)
TextAt(text, x, y) ==
  {i \in DOMAIN text : /\ text[i] # "\n"
                       /\ LineAt(text, i) = y \div FONT_HEIGHT
                       /\ ColumnAt(text, i) = x \div FONT_WIDTH}

NextCellIs(text, x, y) ==
  NextLine(text) = y \div FONT_HEIGHT /\ NextColumn(text) = x \div FONT_WIDTH

ConsoleShows(c, text) ==
  /\ IsConsole(c)
  /\ c.cursorX = FONT_WIDTH * NextColumn(text)
  /\ c.cursorY = FONT_HEIGHT * NextLine(text)
  /\ Fits(text) => Shows(c, text)

Xs == 0 .. HorizontalResolution - 1
Ys == 0 .. VerticalResolution - 1

LEMMA NothingInNextCell ==
  ASSUME NEW S, NEW text \in Seq(S), NEW x, NEW y, NextCellIs(text, x, y)
  PROVE  TextAt(text, x, y) = {}
<1>1. Len(text) + 1 \in Nat /\ DOMAIN text = 1 .. (Len(text) + 1) - 1
  OBVIOUS
<1>2. ASSUME NEW i \in TextAt(text, x, y)
      PROVE  FALSE
  <2>1. /\ i \in 1 .. (Len(text) + 1) - 1 /\ text[i] # "\n"
        /\ LineAt(text, i) = LineAt(text, Len(text) + 1)
        /\ ColumnAt(text, i) = ColumnAt(text, Len(text) + 1)
    BY <1>1, <1>2 DEF TextAt, NextCellIs, NextLine, NextColumn
  <2>2. ColumnAt(text, i) < ColumnAt(text, Len(text) + 1)
    BY <1>1, <2>1, PlacesDiffer
  <2>3. ColumnAt(text, i) \in Nat
    BY <2>1, PlacesCount
  <2> QED
    BY <2>1, <2>2, <2>3
<1> QED
  BY <1>2

LEMMA PixelIs ==
  ASSUME NEW text, NEW x, NEW y
  PROVE  PixelOf(text, x, y)
           = IF TextAt(text, x, y) = {} THEN BG
             ELSE fontBitMap(text[CHOOSE i \in TextAt(text, x, y) : TRUE],
                             y % FONT_HEIGHT, x % FONT_WIDTH)
BY Zenon DEF PixelOf, TextAt

\* One character more, and where it comes to.
LEMMA TextGrows ==
  ASSUME NEW S, NEW text \in Seq(S), NEW ch \in S
  PROVE  LET more == Append(text, ch)
         IN  /\ more \in Seq(S) /\ Len(more) = Len(text) + 1
             /\ more[Len(text) + 1] = ch
             /\ \A i \in 1 .. Len(text) : more[i] = text[i]
             /\ \A i \in 1 .. Len(text) + 1 : LineAt(more, i) = LineAt(text, i)
                                              /\ ColumnAt(more, i) = ColumnAt(text, i)
             /\ NextLine(more) = IF ch = "\n" THEN NextLine(text) + 1 ELSE NextLine(text)
             /\ NextColumn(more) = IF ch = "\n" THEN 0 ELSE NextColumn(text) + 1
<1> DEFINE more == Append(text, ch)
           n    == Len(text)
<1>1. /\ more \in Seq(S) /\ Len(more) = n + 1 /\ more[n + 1] = ch /\ n \in Nat
      /\ \A i \in 1 .. n : more[i] = text[i]
  OBVIOUS
<1> HIDE DEF more, n
<1>2. \A i \in 1 .. n + 1 : LineAt(more, i) = LineAt(text, i)
                            /\ ColumnAt(more, i) = ColumnAt(text, i)
  BY <1>1, PlacesStay
<1>3. LineAt(more, n + 1) = NextLine(text) /\ ColumnAt(more, n + 1) = NextColumn(text)
  <2>1. n + 1 \in 1 .. n + 1
    BY <1>1
  <2> QED
    BY <1>2, <2>1 DEF NextLine, NextColumn, n
<1>4. n + 1 \in Nat \ {0}
  BY <1>1
<1>5. /\ ch = "\n" => /\ LineAt(more, (n + 1) + 1) = LineAt(more, n + 1) + 1
                      /\ ColumnAt(more, (n + 1) + 1) = 0
      /\ ch # "\n" => /\ LineAt(more, (n + 1) + 1) = LineAt(more, n + 1)
                      /\ ColumnAt(more, (n + 1) + 1) = ColumnAt(more, n + 1) + 1
  BY <1>1, <1>4, NextPlace
<1>6. /\ NextLine(more) = IF ch = "\n" THEN NextLine(text) + 1 ELSE NextLine(text)
      /\ NextColumn(more) = IF ch = "\n" THEN 0 ELSE NextColumn(text) + 1
  <2>1. NextLine(more) = LineAt(more, (n + 1) + 1) /\ NextColumn(more) = ColumnAt(more, (n + 1) + 1)
    BY <1>1 DEF NextLine, NextColumn
  <2> QED
    BY <1>3, <1>5, <2>1
<1> QED
  BY <1>1, <1>2, <1>6 DEF more, n

LEMMA ShorterFits ==
  ASSUME NEW S, NEW text \in Seq(S), NEW ch \in S, Fits(Append(text, ch))
  PROVE  Fits(text) /\ (ch # "\n" => NextColumn(text) < Columns - 1)
<1> DEFINE more == Append(text, ch)
<1>1. /\ Len(more) = Len(text) + 1 /\ more[Len(text) + 1] = ch
      /\ \A i \in 1 .. Len(text) : more[i] = text[i]
      /\ \A i \in 1 .. Len(text) + 1 : LineAt(more, i) = LineAt(text, i)
                                       /\ ColumnAt(more, i) = ColumnAt(text, i)
      /\ more \in Seq(S)
  BY TextGrows
<1>2. Fits(more)
  OBVIOUS
<1> HIDE DEF more
<1>3. DOMAIN text = 1 .. Len(text) /\ DOMAIN more = 1 .. Len(text) + 1 /\ Len(text) \in Nat
  BY <1>1
<1>4. Fits(text)
  BY <1>1, <1>2, <1>3 DEF Fits
<1>5. ch # "\n" => ColumnAt(more, Len(text) + 1) < Columns - 1
  BY <1>1, <1>2, <1>3 DEF Fits
<1> QED
  BY <1>1, <1>3, <1>4, <1>5 DEF NextColumn

\* A text that fits leaves room for the blank of an Enter, if the screen has room
\* for a column at all.
LEMMA RoomForEnter ==
  ASSUME NEW S, NEW text \in Seq(S), Fits(text), Columns \in Nat \ {0}
  PROVE  NextColumn(text) <= Columns - 1
<1> DEFINE n == Len(text)
<1>1. n \in Nat /\ DOMAIN text = 1 .. n
  OBVIOUS
<1>2. CASE n = 0
  <2>1. SameLineBefore(text, 1) = {}
    BY DEF SameLineBefore
  <2>2. NextColumn(text) = 0
    BY <1>2, <2>1, PlacesCount, FS_EmptySet DEF NextColumn
  <2> QED
    BY <2>2
<1>3. CASE n # 0
  <2>1. n \in Nat \ {0} /\ n \in DOMAIN text
    BY <1>1, <1>3
  <2>2. /\ text[n] = "\n" => ColumnAt(text, n + 1) = 0
        /\ text[n] # "\n" => ColumnAt(text, n + 1) = ColumnAt(text, n) + 1
    BY <2>1, NextPlace
  <2>3. text[n] = "\n" \/ ColumnAt(text, n) < Columns - 1
    BY <2>1 DEF Fits
  <2>4. ColumnAt(text, n) \in Nat
    BY <2>1, PlacesCount
  <2> QED
    BY <2>2, <2>3, <2>4 DEF NextColumn
<1> QED
  BY <1>2, <1>3

\* The picture of a longer text is that of the text with one more cell filled, or
\* the same picture if a line ends.
LEMMA PictureGrows ==
  ASSUME NEW S, NEW text \in Seq(S), NEW ch \in S, NEW x, NEW y
  PROVE  PixelOf(Append(text, ch), x, y)
           = IF ch # "\n" /\ NextCellIs(text, x, y)
             THEN fontBitMap(ch, y % FONT_HEIGHT, x % FONT_WIDTH) ELSE PixelOf(text, x, y)
<1> DEFINE more == Append(text, ch)
           n    == Len(text)
<1>1. /\ n \in Nat /\ Len(more) = n + 1 /\ more[n + 1] = ch
      /\ \A i \in 1 .. n : more[i] = text[i]
      /\ \A i \in 1 .. n + 1 : LineAt(more, i) = LineAt(text, i)
                               /\ ColumnAt(more, i) = ColumnAt(text, i)
      /\ more \in Seq(S)
  BY TextGrows
<1>2. DOMAIN text = 1 .. n /\ DOMAIN more = 1 .. n + 1 /\ n + 1 \in 1 .. n + 1
  <2> HIDE DEF more
  <2> QED
    BY <1>1
<1> HIDE DEF more
<1>3. n + 1 \in TextAt(more, x, y) <=> ch # "\n" /\ NextCellIs(text, x, y)
  BY <1>1, <1>2 DEF TextAt, NextCellIs, NextLine, NextColumn
<1>4. \A i \in 1 .. n : i \in TextAt(more, x, y) <=> i \in TextAt(text, x, y)
  <2> HIDE DEF n
  <2> QED
    BY <1>1, <1>2 DEF TextAt
<1>5. /\ TextAt(more, x, y) \subseteq 1 .. n + 1 /\ TextAt(text, x, y) \subseteq 1 .. n
      /\ \A i \in 1 .. n + 1 : i \in 1 .. n \/ i = n + 1
      /\ n + 1 \notin 1 .. n
  <2> HIDE DEF n
  <2> QED
    BY <1>1, <1>2 DEF TextAt
<1>6. CASE ch # "\n" /\ NextCellIs(text, x, y)
  <2>1. TextAt(text, x, y) = {}
    BY <1>6, NothingInNextCell
  <2>2. TextAt(more, x, y) = {n + 1}
    <3> HIDE DEF n
    <3> QED
      BY <1>3, <1>4, <1>5, <1>6, <2>1
  <2>3. PixelOf(more, x, y) = fontBitMap(more[n + 1], y % FONT_HEIGHT, x % FONT_WIDTH)
    <3> DEFINE i == CHOOSE j \in TextAt(more, x, y) : TRUE
    <3>1. TextAt(more, x, y) # {}
      BY <2>2
    <3>2. i \in TextAt(more, x, y)
      BY Zenon, <3>1
    <3>3. PixelOf(more, x, y) = fontBitMap(more[i], y % FONT_HEIGHT, x % FONT_WIDTH)
      BY Zenon, <3>1, PixelIs
    <3> HIDE DEF n, i
    <3>4. i = n + 1
      BY <2>2, <3>2
    <3> QED
      BY <3>3, <3>4
  <2> QED
    BY <1>1, <1>6, <2>3 DEF more
<1>7. CASE ~(ch # "\n" /\ NextCellIs(text, x, y))
  <2>1. TextAt(more, x, y) = TextAt(text, x, y)
    <3> HIDE DEF n
    <3> QED
      BY <1>3, <1>4, <1>5, <1>7
  <2>2. PixelOf(more, x, y) = PixelOf(text, x, y)
    <3>1. CASE TextAt(text, x, y) = {}
      BY Zenon, <2>1, <3>1, PixelIs
    <3>2. CASE TextAt(text, x, y) # {}
      <4> DEFINE i == CHOOSE j \in TextAt(text, x, y) : TRUE
      <4>1. i \in TextAt(text, x, y)
        BY <3>2
      <4>2. more[i] = text[i]
        <5> HIDE DEF n, i
        <5> QED
          BY <1>1, <1>5, <4>1
      <4>3. (CHOOSE j \in TextAt(more, x, y) : TRUE) = i
        <5>1. \A A, B : A = B => (CHOOSE j \in A : TRUE) = (CHOOSE j \in B : TRUE)
          OBVIOUS
        <5> QED
          BY Zenon, <2>1, <5>1
      <4>4. /\ PixelOf(more, x, y) = fontBitMap(more[CHOOSE j \in TextAt(more, x, y) : TRUE],
                                               y % FONT_HEIGHT, x % FONT_WIDTH)
            /\ PixelOf(text, x, y) = fontBitMap(text[i], y % FONT_HEIGHT, x % FONT_WIDTH)
        BY Zenon, <2>1, <3>2, PixelIs
      <4> HIDE DEF i
      <4> QED
        BY Zenon, <4>2, <4>3, <4>4
    <3> QED
      BY <3>1, <3>2
  <2> QED
    BY <1>7, <2>2 DEF more
<1> QED
  BY <1>6, <1>7

-----------------------------------------------------------------------------
(***************************************************************************)
(* putc and GraphicInit, seen on the screen                                *)
(***************************************************************************)

LEMMA PixelsAreOnScreen ==
  ASSUME NEW x \in Xs, NEW y \in Ys
  PROVE  /\ HorizontalResolution * y + x \in FrameBuffer /\ x \in Nat /\ y \in Nat
         /\ Address(x, y) = HorizontalResolution * y + x
<1> DEFINE r == HorizontalResolution
           v == VerticalResolution
<1>1. r \in Nat \ {0} /\ v \in Nat \ {0} /\ x \in 0 .. r - 1 /\ y \in 0 .. v - 1
  BY ConsoleAssumption DEF Xs, Ys
<1> HIDE DEF r, v
<1>2. PICK d \in Nat : v = y + 1 + d
  <2>1. v - y - 1 \in Nat /\ v = y + 1 + (v - y - 1)
    BY <1>1
  <2> QED
    BY <2>1
<1>3. r * (y + 1 + d) = r * y + r + r * d /\ r * d \in Nat /\ r * y \in Nat
  BY <1>1
<1>4. r * y + x \in 0 .. r * v - 1 /\ x \in Nat /\ y \in Nat
  BY <1>1, <1>2, <1>3
<1> QED
  BY <1>4 DEF r, v, FrameBuffer, Address

LEMMA NextPlaceIsNumber ==
  ASSUME NEW S, NEW text \in Seq(S)
  PROVE  NextLine(text) \in Nat /\ NextColumn(text) \in Nat
<1>1. Len(text) + 1 \in Nat
  OBVIOUS
<1> QED
  BY <1>1, PlacesCount DEF NextLine, NextColumn

\* The pixels of a screen behind the drawing of one character.
LEMMA DrawnPixelIs ==
  ASSUME NEW S, NEW text \in Seq(S), NEW c, ConsoleShows(c, text), Shows(c, text), NEW ch,
         FONT_WIDTH * NextColumn(text) + FONT_WIDTH <= HorizontalResolution,
         NEW x \in Xs, NEW y \in Ys
  PROVE  DrawGlyph(c.screen, ch, c.cursorX, c.cursorY)[HorizontalResolution * y + x]
           = IF NextCellIs(text, x, y) THEN fontBitMap(ch, y % FONT_HEIGHT, x % FONT_WIDTH)
             ELSE PixelOf(text, x, y)
<1> DEFINE col  == NextColumn(text)
           line == NextLine(text)
           left == FONT_WIDTH * col
           top  == FONT_HEIGHT * line
           InCell == left <= x /\ x < left + FONT_WIDTH /\ top <= y /\ y < top + FONT_HEIGHT
<1>1. FONT_WIDTH \in Nat \ {0} /\ FONT_HEIGHT \in Nat \ {0}
  BY ConsoleAssumption
<1>2. col \in Nat /\ line \in Nat
  BY NextPlaceIsNumber
<1>3. x \in Nat /\ y \in Nat /\ Address(x, y) = HorizontalResolution * y + x
      /\ HorizontalResolution * y + x \in FrameBuffer
  BY PixelsAreOnScreen
<1>4. /\ c.cursorX = left /\ c.cursorY = top /\ left + FONT_WIDTH <= HorizontalResolution
      /\ FrameBuffer \subseteq DOMAIN c.screen
  BY DEF ConsoleShows, IsConsole
<1>5. (x \div FONT_WIDTH = col <=> left <= x /\ x < left + FONT_WIDTH)
      /\ (x \div FONT_WIDTH = col => x % FONT_WIDTH = x - left)
  <2> HIDE DEF col
  <2> QED
    BY <1>1, <1>2, <1>3, Intervals
<1>6. (y \div FONT_HEIGHT = line <=> top <= y /\ y < top + FONT_HEIGHT)
      /\ (y \div FONT_HEIGHT = line => y % FONT_HEIGHT = y - top)
  <2> HIDE DEF line
  <2> QED
    BY <1>1, <1>2, <1>3, Intervals
<1>7. left \in Nat /\ top \in Nat
  <2> HIDE DEF col, line
  <2> QED
    BY <1>1, <1>2
<1>8. c.screen[HorizontalResolution * y + x] = PixelOf(text, x, y)
  BY DEF Shows, Xs, Ys
<1>9. NextCellIs(text, x, y) <=> x \div FONT_WIDTH = col /\ y \div FONT_HEIGHT = line
  BY DEF NextCellIs
<1> HIDE DEF left, top, col, line
<1>10. DrawGlyph(c.screen, ch, left, top)[Address(x, y)]
         = IF InCell THEN fontBitMap(ch, y - top, x - left) ELSE c.screen[Address(x, y)]
  <2>1. x \in 0 .. HorizontalResolution - 1 /\ Address(x, y) \in DOMAIN c.screen
    BY <1>3, <1>4 DEF Xs
  <2> QED
    BY <1>3, <1>4, <1>7, <2>1, GlyphIsDrawn
<1>11. CASE NextCellIs(text, x, y)
  <2>1. InCell /\ x % FONT_WIDTH = x - left /\ y % FONT_HEIGHT = y - top
    BY <1>5, <1>6, <1>9, <1>11
  <2> HIDE DEF InCell
  <2> QED
    BY <1>3, <1>4, <1>10, <1>11, <2>1
<1>12. CASE ~NextCellIs(text, x, y)
  <2>1. ~InCell
    BY <1>5, <1>6, <1>9, <1>12
  <2> HIDE DEF InCell
  <2> QED
    BY <1>3, <1>4, <1>8, <1>10, <1>12, <2>1
<1> QED
  BY <1>11, <1>12

LEMMA ColumnsAre == Columns \in Nat
<1>1. FONT_WIDTH \in Nat \ {0} /\ HorizontalResolution \in Nat
  BY ConsoleAssumption
<1> QED
  BY <1>1, QuotientIs DEF Columns

\* A character that is not the end of a line.
LEMMA CharacterShows ==
  ASSUME NEW S, NEW text \in Seq(S), NEW ch \in S, ch # "\n", NEW c, ConsoleShows(c, text)
  PROVE  ConsoleShows(putc(c, ch), Append(text, ch))
<1> DEFINE more == Append(text, ch)
           new  == DrawGlyph(c.screen, ch, c.cursorX, c.cursorY)
           d    == putc(c, ch)
<1>1. IsConsole(d)
  BY putcKeepsConsole DEF ConsoleShows
<1>2. d = [cursorX |-> c.cursorX + FONT_WIDTH, cursorY |-> c.cursorY, screen |-> new]
  BY Zenon, ConsoleFields DEF ConsoleShows, IsConsole, putc
<1>3. more \in Seq(S) /\ NextLine(more) = NextLine(text) /\ NextColumn(more) = NextColumn(text) + 1
  BY TextGrows
<1>4. NextLine(text) \in Nat /\ NextColumn(text) \in Nat
  BY NextPlaceIsNumber
<1>5. FONT_WIDTH \in Nat \ {0} /\ HorizontalResolution \in Nat
  BY ConsoleAssumption
<1>6. ASSUME Fits(more)
      PROVE  Shows(d, more)
  <2>1. Fits(text) /\ NextColumn(text) < Columns - 1
    BY <1>6, ShorterFits
  <2>2. Shows(c, text)
    BY <2>1 DEF ConsoleShows
  <2>3. FONT_WIDTH * NextColumn(text) + FONT_WIDTH <= HorizontalResolution
    <3>1. NextColumn(text) <= (HorizontalResolution \div FONT_WIDTH) - 1
      BY <1>4, <2>1, ColumnsAre DEF Columns
    <3> QED
      BY <1>4, <1>5, <3>1, CellsFit
  <2>4. ASSUME NEW x \in Xs, NEW y \in Ys
        PROVE  new[HorizontalResolution * y + x] = PixelOf(more, x, y)
    <3>1. new[HorizontalResolution * y + x]
            = IF NextCellIs(text, x, y) THEN fontBitMap(ch, y % FONT_HEIGHT, x % FONT_WIDTH)
              ELSE PixelOf(text, x, y)
      BY <2>2, <2>3, DrawnPixelIs
    <3>2. PixelOf(more, x, y)
            = IF NextCellIs(text, x, y) THEN fontBitMap(ch, y % FONT_HEIGHT, x % FONT_WIDTH)
              ELSE PixelOf(text, x, y)
      BY PictureGrows
    <3> HIDE DEF new, more
    <3> QED
      BY <3>1, <3>2
  <2> HIDE DEF d, new, more
  <2>5. d.screen = new
    BY <1>2
  <2> QED
    BY <2>4, <2>5 DEF Shows, Xs, Ys
<1>7. FONT_WIDTH * (NextColumn(text) + 1) = FONT_WIDTH * NextColumn(text) + FONT_WIDTH
  BY <1>4, <1>5
<1>8. c.cursorX = FONT_WIDTH * NextColumn(text) /\ c.cursorY = FONT_HEIGHT * NextLine(text)
  BY DEF ConsoleShows
<1> HIDE DEF d, new, more
<1>9. d.cursorX = FONT_WIDTH * NextColumn(more) /\ d.cursorY = FONT_HEIGHT * NextLine(more)
  <2>1. d.cursorX = c.cursorX + FONT_WIDTH /\ d.cursorY = c.cursorY
    BY <1>2
  <2> QED
    BY Zenon, <2>1, <1>3, <1>7, <1>8
<1> QED
  BY <1>1, <1>6, <1>9 DEF ConsoleShows, d, more

\* The end of a line, on a console whose cursor may be anywhere in the line.
LEMMA NewLineShows ==
  ASSUME NEW S, NEW text \in Seq(S), "\n" \in S, NEW c, IsConsole(c),
         c.cursorY = FONT_HEIGHT * NextLine(text), Fits(text) => Shows(c, text)
  PROVE  ConsoleShows(putc(c, "\n"), Append(text, "\n"))
<1> DEFINE more == Append(text, "\n")
           d    == putc(c, "\n")
<1>1. IsConsole(d)
  BY putcKeepsConsole
<1>2. d = [cursorX |-> 0, cursorY |-> c.cursorY + FONT_HEIGHT, screen |-> c.screen]
  BY Zenon, ConsoleFields DEF IsConsole, putc
<1>3. more \in Seq(S) /\ NextLine(more) = NextLine(text) + 1 /\ NextColumn(more) = 0
  BY TextGrows
<1>4. NextLine(text) \in Nat
  BY NextPlaceIsNumber
<1>5. FONT_WIDTH \in Nat \ {0} /\ FONT_HEIGHT \in Nat \ {0}
  BY ConsoleAssumption
<1>6. Fits(more) => Fits(text)
  BY ShorterFits
<1>7. \A x, y : PixelOf(more, x, y) = PixelOf(text, x, y)
  BY PictureGrows
<1>8. /\ FONT_HEIGHT * (NextLine(text) + 1) = FONT_HEIGHT * NextLine(text) + FONT_HEIGHT
      /\ FONT_WIDTH * 0 = 0
  BY <1>4, <1>5
<1> HIDE DEF d, more
<1>9. d.cursorX = 0 /\ d.cursorY = c.cursorY + FONT_HEIGHT /\ d.screen = c.screen
  BY <1>2
<1>10. d.cursorX = FONT_WIDTH * NextColumn(more) /\ d.cursorY = FONT_HEIGHT * NextLine(more)
  BY Zenon, <1>3, <1>8, <1>9
<1>11. Fits(more) => Shows(d, more)
  BY <1>6, <1>7, <1>9 DEF Shows
<1> QED
  BY <1>1, <1>10, <1>11 DEF ConsoleShows, d, more

\* The '\r' of an Enter blanks a cell in which there is nothing, or, on a screen
\* too narrow for a column, some pixels of a screen with nothing on it.
LEMMA ReturnShows ==
  ASSUME NEW S, NEW text \in Seq(S), NEW c, ConsoleShows(c, text)
  PROVE  /\ IsConsole(putc(c, "\r"))
         /\ putc(c, "\r").cursorY = FONT_HEIGHT * NextLine(text)
         /\ Fits(text) => Shows(putc(c, "\r"), text)
<1> DEFINE new == DrawGlyph(c.screen, "\r", c.cursorX, c.cursorY)
           d   == putc(c, "\r")
<1>1. IsConsole(d)
  BY putcKeepsConsole DEF ConsoleShows
<1>2. d = [cursorX |-> c.cursorX + FONT_WIDTH, cursorY |-> c.cursorY, screen |-> new]
  BY Zenon, ConsoleFields DEF ConsoleShows, IsConsole, putc
<1>3. d.cursorY = c.cursorY /\ d.screen = new
  <2> HIDE DEF d, new
  <2> QED
    BY <1>2
<1>4. ASSUME Fits(text), NEW x \in Xs, NEW y \in Ys
      PROVE  new[HorizontalResolution * y + x] = PixelOf(text, x, y)
  <2>1. Shows(c, text)
    BY <1>4 DEF ConsoleShows
  <2>2. CASE Columns # 0
    <3>1. NextColumn(text) <= (HorizontalResolution \div FONT_WIDTH) - 1
      BY <1>4, <2>2, ColumnsAre, RoomForEnter DEF Columns
    <3>2. FONT_WIDTH * NextColumn(text) + FONT_WIDTH <= HorizontalResolution
      BY <3>1, ConsoleAssumption, NextPlaceIsNumber, CellsFit
    <3>3. new[HorizontalResolution * y + x]
            = IF NextCellIs(text, x, y) THEN fontBitMap("\r", y % FONT_HEIGHT, x % FONT_WIDTH)
              ELSE PixelOf(text, x, y)
      BY <2>1, <3>2, DrawnPixelIs
    <3>4. fontBitMap("\r", y % FONT_HEIGHT, x % FONT_WIDTH) = BG
      BY DEF fontBitMap, Blank
    <3>5. NextCellIs(text, x, y) => PixelOf(text, x, y) = BG
      BY NothingInNextCell, PixelIs
    <3> QED
      BY Zenon, <3>3, <3>4, <3>5
  <2>3. CASE Columns = 0
    <3>1. TextAt(text, x, y) = {}
      <4>1. ASSUME NEW i \in TextAt(text, x, y)
            PROVE  FALSE
        <5>1. i \in 1 .. Len(text) /\ i \in DOMAIN text /\ text[i] # "\n"
          BY <4>1 DEF TextAt
        <5>2. ColumnAt(text, i) < Columns - 1
          BY <1>4, <5>1 DEF Fits
        <5>3. ColumnAt(text, i) \in Nat
          BY <5>1, PlacesCount
        <5> QED
          BY <2>3, <5>2, <5>3
      <4> QED
        BY <4>1
    <3>2. PixelOf(text, x, y) = BG
      BY <3>1, PixelIs
    <3>3. c.screen[HorizontalResolution * y + x] = BG
      BY <2>1, <3>2 DEF Shows, Xs, Ys
    <3>4. HorizontalResolution * y + x \in DOMAIN c.screen
      BY PixelsAreOnScreen DEF ConsoleShows, IsConsole
    <3>5. new[HorizontalResolution * y + x] \in {BG, c.screen[HorizontalResolution * y + x]}
      BY <3>4, BlankIsDrawn
    <3> QED
      BY Zenon, <3>2, <3>3, <3>5
  <2> QED
    BY <2>2, <2>3
<1> HIDE DEF d, new
<1>5. Fits(text) => Shows(d, text)
  BY <1>3, <1>4 DEF Shows, Xs, Ys
<1> QED
  BY Zenon, <1>1, <1>3, <1>5 DEF d, ConsoleShows

LEMMA putcShows ==
  ASSUME NEW S, NEW text \in Seq(S), NEW ch \in S, NEW c, ConsoleShows(c, text)
  PROVE  ConsoleShows(putc(c, ch), Append(text, ch))
<1>1. CASE ch = "\n"
  BY <1>1, NewLineShows DEF ConsoleShows
<1> QED
  BY <1>1, CharacterShows

LEMMA EnterShows ==
  ASSUME NEW S, NEW text \in Seq(S), "\n" \in S, NEW c, ConsoleShows(c, text)
  PROVE  ConsoleShows(putc(putc(c, "\r"), "\n"), Append(text, "\n"))
BY ReturnShows, NewLineShows

LEMMA BackgroundShows ==
  ASSUME NEW c, IsConsole(c)
  PROVE  ConsoleShows(GraphicInit(c), <<>>)
<1> DEFINE new == [a \in DOMAIN c.screen |->
                     IF \E x \in 0 .. HorizontalResolution - 1,
                           y \in 0 .. VerticalResolution - 1 : Address(x, y) = a
                     THEN BG ELSE c.screen[a]]
           d   == SetBackGround(c)
           g   == GraphicInit(c)
<1>1. /\ c = [cursorX |-> c.cursorX, cursorY |-> c.cursorY, screen |-> c.screen]
      /\ FrameBuffer \subseteq DOMAIN c.screen
  BY DEF IsConsole
<1>2. \A x \in Xs, y \in Ys : new[HorizontalResolution * y + x] = BG
  BY <1>1, PixelsAreOnScreen DEF Xs, Ys
<1>3. d = [c EXCEPT !.screen = new]
  BY DEF SetBackGround
<1>4. g = [d EXCEPT !.cursorX = 0, !.cursorY = 0]
  BY DEF GraphicInit
<1>5. IsConsole(g)
  BY BackgroundKeepsConsole
<1> HIDE DEF new, d, g
<1>6. d = [cursorX |-> c.cursorX, cursorY |-> c.cursorY, screen |-> new]
  BY <1>1, <1>3, ConsoleFields
<1>7. d.screen = new /\ d = [cursorX |-> d.cursorX, cursorY |-> d.cursorY, screen |-> d.screen]
  BY <1>6
<1>8. g = [cursorX |-> 0, cursorY |-> 0, screen |-> new]
  BY <1>4, <1>7, ConsoleFields
<1>9. g.cursorX = 0 /\ g.cursorY = 0 /\ g.screen = new
  BY <1>8
<1>10. NextLine(<<>>) = 0 /\ NextColumn(<<>>) = 0
  <2>1. NewlinesBefore(<<>>, 1) = {} /\ SameLineBefore(<<>>, 1) = {} /\ Len(<<>>) + 1 = 1
    BY DEF NewlinesBefore, SameLineBefore
  <2> QED
    BY <2>1, PlacesCount, FS_EmptySet DEF NextLine, NextColumn
<1>11. \A x, y : PixelOf(<<>>, x, y) = BG
  <2>1. \A x, y : TextAt(<<>>, x, y) = {}
    BY DEF TextAt
  <2> QED
    BY <2>1, PixelIs
<1>12. Shows(g, <<>>)
  BY <1>2, <1>9, <1>11 DEF Shows, Xs, Ys
<1>13. FONT_WIDTH * 0 = 0 /\ FONT_HEIGHT * 0 = 0
  BY ConsoleAssumption
<1> QED
  BY <1>5, <1>9, <1>10, <1>12, <1>13 DEF ConsoleShows, g

-----------------------------------------------------------------------------
(***************************************************************************)
(* What is printed, and the screen                                         *)
(***************************************************************************)
AnyChar == PutChars \cup {"\n"}
             \cup {CalcASCIICode(scanCode[k + 1], shift) : k \in Keys, shift \in BOOLEAN}

ScreenInv ==
  /\ shown \in Seq(AnyChar)
  /\ pc = 0 => shown = <<>>
  /\ pc > 0 => ConsoleShows(con, shown)

\* What is printed at a time: nothing, a character, or Enter.
PrintsText(cs) == cs = <<>> \/ cs = <<"\r", "\n">> \/ \E c \in AnyChar : cs = <<c>>

LEMMA OutputShows ==
  ASSUME ScreenInv, pc > 0, pc' = pc, NEW cs, PrintsText(cs), Output(cs)
  PROVE  ScreenInv'
<1>1. /\ con' = puts(con, cs) /\ shown' = shown \o TextOf(cs) /\ shown \in Seq(AnyChar)
      /\ ConsoleShows(con, shown) /\ "\n" \in AnyChar
  BY DEF Output, ScreenInv, AnyChar
<1>2. CASE cs = <<>>
  <2>1. TextOf(cs) = <<>> /\ puts(con, cs) = con
    BY <1>2, PrintNothing DEF TextOf
  <2>2. con' = con /\ shown' = shown
    BY <1>1, <2>1
  <2> QED
    BY <2>2 DEF ScreenInv
<1>3. ASSUME NEW c \in AnyChar, cs = <<c>>
      PROVE  ScreenInv'
  <2>1. TextOf(cs) = <<c>> /\ puts(con, cs) = putc(con, c)
    BY <1>3, PrintOne DEF TextOf
  <2>2. con' = putc(con, c) /\ shown' = Append(shown, c) /\ shown' \in Seq(AnyChar)
    BY <1>1, <2>1
  <2>3. ConsoleShows(putc(con, c), Append(shown, c))
    BY <1>1, putcShows
  <2> QED
    BY <2>2, <2>3 DEF ScreenInv
<1>4. CASE cs = <<"\r", "\n">>
  <2>1. TextOf(cs) = <<"\n">> /\ puts(con, cs) = putc(putc(con, "\r"), "\n")
    BY <1>4, PrintTwo DEF TextOf
  <2>2. con' = putc(putc(con, "\r"), "\n") /\ shown' = Append(shown, "\n")
        /\ shown' \in Seq(AnyChar)
    BY <1>1, <2>1
  <2>3. ConsoleShows(putc(putc(con, "\r"), "\n"), Append(shown, "\n"))
    BY <1>1, EnterShows
  <2> QED
    BY <2>2, <2>3 DEF ScreenInv
<1> QED
  BY <1>2, <1>3, <1>4 DEF PrintsText

LEMMA BytesPrintText ==
  ASSUME NEW byte \in Bytes, isShift \in BOOLEAN
  PROVE  PrintsText(Printed(byte))
<1> DEFINE c == CalcASCIICode(scanCode[byte.key + 1], isShift)
<1>1. c \in AnyChar
  BY DEF AnyChar, Bytes
<1> HIDE DEF c
<1>2. Printed(byte) = <<>> \/ Printed(byte) = IF c = "\n" THEN <<"\r", "\n">> ELSE <<c>>
  BY DEF Printed, c
<1> QED
  BY <1>1, <1>2 DEF PrintsText

LEMMA ScreenInvStep ==
  ASSUME Devices, KernelInv, ScreenInv, [BootNext]_bootVars
  PROVE  ScreenInv'
<1>1. pc \in Nat
  BY DEF KernelInv
<1>2. CASE BootStep
  <2>1. pc' = pc + 1
    BY <1>2 DEF BootStep, Return
  <2>2. CASE BootGraphic
    <3>1. pc = 0 /\ con' = GraphicInit(con) /\ shown' = shown
      BY <2>2, <1>1, CallsInOrder DEF BootGraphic, KernelInv
    <3>2. ConsoleShows(con', <<>>)
      BY <3>1, BackgroundShows DEF Devices
    <3> QED
      BY <2>1, <3>1, <3>2 DEF ScreenInv
  <2>3. CASE ~BootGraphic
    <3>1. UNCHANGED <<con, shown>> /\ pc # 0
      BY <1>2, <2>3, CallsInOrder
      DEF BootStep, gdtInit, ProcessInit, idtInit, BootPic, BootDevices, BootDevice,
          EnableCPUInterrupt, screen, KernelInv
    <3> QED
      BY <1>1, <2>1, <3>1 DEF ScreenInv
  <2> QED
    BY <2>2, <2>3
<1>3. CASE doKBCInterrupt
  <2>1. Booted
    BY <1>3, WhatRuns DEF doKBCInterrupt, Runs
  <2>2. pc > 0 /\ pc' = pc
    BY <1>3, <2>1 DEF Booted, BootSequence, doKBCInterrupt
  <2>3. CASE outputBuffer = Empty
    <3>1. Output(<<>>)
      BY <1>3, <2>3 DEF doKBCInterrupt
    <3> QED
      BY <2>2, <3>1, OutputShows DEF PrintsText
  <2>4. CASE outputBuffer # Empty
    <3>1. Output(Printed(outputBuffer))
      BY <1>3, <2>4 DEF doKBCInterrupt
    <3>2. PrintsText(Printed(outputBuffer))
      BY <2>4, BytesPrintText DEF Devices, KeyboardTypeOK
    <3> QED
      BY <2>2, <3>1, <3>2, OutputShows
  <2> QED
    BY <2>3, <2>4
<1>4. CASE SyscallPut
  <2>1. Booted
    BY <1>4, WhatRuns DEF SyscallPut, Runs
  <2>2. pc > 0 /\ pc' = pc
    BY <1>4, <2>1 DEF Booted, BootSequence, SyscallPut
  <2>3. PICK c \in PutChars : Output(<<c>>)
    BY <1>4 DEF SyscallPut
  <2>4. PrintsText(<<c>>)
    BY DEF PrintsText, AnyChar
  <2> QED
    BY <2>2, <2>3, <2>4, OutputShows
<1>5. CASE KeyEvent \/ ByteArrives \/ TakeInterrupt \/ kbc_exit \/ Syscall \/ Misbehave
           \/ sysExec \/ UNCHANGED bootVars
  <2>1. UNCHANGED <<pc, con, shown>>
    BY <1>5 DEF KeyEvent, ByteArrives, TakeInterrupt, kbc_exit, Syscall, Misbehave, sysExec,
                screen, bootVars
  <2> QED
    BY <2>1 DEF ScreenInv
<1> QED
  BY <1>2, <1>3, <1>4, <1>5 DEF BootNext

\* Whoever prints, and whenever: as long as the text fits the screen, each
\* character stands in its cell, line after line, and every other pixel has the
\* background colour, for every size of the screen and of the font, though putc
\* draws without looking at the resolution and an Enter draws a '\r' (puts, putc,
\* DrawPixel, GraphicInit).
THEOREM ScreenAlwaysShowsTheText == BootSpec => []ScreenShowsTheText
<1>1. BootInit => Devices /\ ScreenInv
  BY DevicesInitially DEF BootInit, ScreenInv
<1>2. Devices /\ KernelInv /\ ScreenInv /\ [BootNext]_bootVars => (Devices /\ ScreenInv)'
  BY DevicesStep, ScreenInvStep
<1>3. ScreenInv => ScreenShowsTheText
  BY DEF ScreenInv, ScreenShowsTheText, ConsoleShows
<1> QED
  BY <1>1, <1>2, <1>3, KernelInvAlways, PTL DEF BootSpec
=============================================================================
