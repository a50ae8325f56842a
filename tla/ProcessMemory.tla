---------------------------- MODULE ProcessMemory ----------------------------
(***************************************************************************)
(* The memory of processes: what fork, KernelThread and exec of process.c  *)
(* take from the kernel heap (module KHeap) and from the page frames, the  *)
(* page tables they build, and the stack pointers they hand to the         *)
(* processor.                                                              *)
(*                                                                         *)
(* Frame f is the page at address f * PAGE_SIZE.  No frame is ever given   *)
(* back, so AllocatePageFrames(1) is a frame that was not used before      *)
(* (module PageFrames), here the next one: frames do not run out, and the  *)
(* first is frame 1, page 0 being reserved (its address would be taken for *)
(* a failure).  A structure is known by its block in the heap; a buffer or *)
(* page that holds no structure by what the programs see in it.  Which     *)
(* process runs when is left open here and made concrete in Scheduler.     *)
(***************************************************************************)
EXTENDS KHeap

CONSTANTS Programs,         \* the executable files on the disk
          FileSize,         \* their sizes in bytes
          MaxProcesses,     \* bound on the processes that are created
          MaxLost,          \* bound on the buffers that failing execs lose
          KernelThreadsExec \* do threads of the kernel call exec?

ASSUME ProcessMemoryAssumption ==
  /\ FileSize \in [Programs -> Nat \ {0}]
  /\ MaxProcesses \in Nat \ {0}
  /\ MaxLost \in Nat
  /\ KernelThreadsExec \in BOOLEAN

VARIABLES mem,            \* what lies at each block of the heap
          content,        \* what each frame that was handed out holds
          processes,      \* the processes, oldest first
          currentProcess,
          program,        \* which program a process executes: Kernel before exec
          cr3,            \* the processor's page table register
          rsp0            \* tss[1..2]: the stack pointer for entries from user mode

pmVars == <<heap, live, mem, content, processes, currentProcess, program, cr3, rsp0>>

PAGE_SIZE    == 4096
Kernel       == "kernel" \* code of the kernel itself, in its own memory
SizeOfStack  == 160      \* sizeof(struct InterruptStack)
SizeOfProcess       == 48
SizeOfProcessMemory == 32
SizeOfThreadInfo    == 40

StructureSizes == {SizeOfProcess, SizeOfProcessMemory, SizeOfThreadInfo}

Address(frame) == frame * PAGE_SIZE
Frame(address) == address \div PAGE_SIZE

\* What a frame holds: bytes of a program, or a page table.
Data(d)  == [data |-> d, table |-> <<>>]
Table(t) == [data |-> "table", table |-> t]

\* A block that holds no structure.
Bytes == [kind |-> "bytes"]

ThreadInfoOf(p)    == mem[mem[p].threadInfo]
ProcessMemoryOf(p) == mem[mem[p].processMemory]

-----------------------------------------------------------------------------
(***************************************************************************)
(* Page tables.  A table is a function from the indices that are present.  *)
(***************************************************************************)
Entry(frame, user)  == [frame |-> frame, user |-> user, huge |-> FALSE]
Entry1GB(gigabyte)  == [frame |-> gigabyte, user |-> FALSE, huge |-> TRUE]

\* Mutant: the top of the stack is taken for its page.
StackFrameAbove(processStackBase) == Frame(processStackBase + 8)

\* The page of a stack, from the address of its topmost word.
StackFrame(processStackBase) == Frame(processStackBase + 8 - PAGE_SIZE)

(***************************************************************************)
(* The five frames SetUpPageTable fills when n frames have been handed out *)
(* before: the kernel's five gigabytes, one to one, in the lower half, and *)
(* the text page and the stack page at the end of the address space.       *)
(***************************************************************************)
SetUpPageTable(n, textSegment, processStackBase) ==
  LET l3ptBaseLower  == [i \in 0 .. 4 |-> Entry1GB(i)]
      l1ptBaseHigher == [i \in {510, 511} |->
                           IF i = 510 THEN Entry(Frame(textSegment), TRUE)
                           ELSE Entry(StackFrame(processStackBase), TRUE)]
      l2ptBaseHigher == [i \in {511} |-> Entry(n + 2, TRUE)]
      l3ptBaseHigher == [i \in {511} |-> Entry(n + 3, TRUE)]
      l4ptBase       == [i \in {0, 511} |-> IF i = 0 THEN Entry(n + 1, FALSE)
                                            ELSE Entry(n + 4, TRUE)]
  IN  <<Table(l3ptBaseLower), Table(l1ptBaseHigher), Table(l2ptBaseHigher),
        Table(l3ptBaseHigher), Table(l4ptBase)>>

\* Mutant: one frame too far.
L4PageTableTooFar(n) == Address(n + 6)

\* Where the last of them lies.
L4PageTable(n) == Address(n + 5)

(***************************************************************************)
(* CalcPhyAddr, the walk the processor makes too: the page of the virtual  *)
(* page with the table indices va[1] (level 4) to va[4] (level 1), and     *)
(* whether every level allows the user in.  Empty where it is not present. *)
(***************************************************************************)
CalcPhyAddr(base, va) ==
  LET entriesOf(frames, i) ==
        {content[f].table[i] : f \in {g \in frames : i \in DOMAIN content[g].table}}
      next(entries) == {e.frame : e \in entries}
      l4 == entriesOf({Frame(base)}, va[1])
      l3 == entriesOf(next(l4), va[2])
      l2 == entriesOf(next(l3), va[3])
      l1 == entriesOf(next(l2), va[4])
      user(levels) == \A e \in levels : e.user
  IN  IF \E e \in l3 : e.huge
      THEN {[frame |-> e.frame, huge |-> TRUE, user |-> user(l4 \cup l3)] : e \in l3}
      ELSE {[frame |-> e.frame, huge |-> FALSE,
             user |-> user(l4 \cup l3 \cup l2 \cup l1)] : e \in l1}

-----------------------------------------------------------------------------
(***************************************************************************)
(* fork and KernelThread                                                   *)
(***************************************************************************)

\* The topmost word of the page at this address.
StackTop(page) == page - 8 + PAGE_SIZE

\* Where SetUpKernelStack puts the registers of a kernel thread.
SetUpKernelStack(kernelStackBase) == kernelStackBase - SizeOfStack + 8

\* Where the registers of the caller lie when a program has made a system
\* call: the processor aligns the stack it switches to.
SyscallStack == (rsp0 \div 16) * 16 - SizeOfStack

\* Mutant: the child is given the address its parent's registers are at.
ChildStackNotMoved(rsp, from, to) == rsp

\* The same place in the child's copy of the parent's kernel stack.
ChildStack(rsp, from, to) == to + (rsp - from)

\* Mutant: the text page is shared whether the caller asks for it or not.
SharesTextAlways(shareVM) == TRUE

SharesText(shareVM) == shareVM

(***************************************************************************)
(* The frames CopyProcessMemory takes when n are in use: user stack, kernel*)
(* stack, the text page unless it is shared, and the page tables.          *)
(***************************************************************************)
NewProcessMemory(n, shareVM, originalPm) ==
  LET m    == IF SharesText(shareVM) THEN n + 2 ELSE n + 3
  IN  [kind                 |-> "ProcessMemory",
       userStackPageFrame   |-> Address(n + 1),
       kernelStackPageFrame |-> Address(n + 2),
       textSegmentPageFrame |-> IF SharesText(shareVM) THEN originalPm.textSegmentPageFrame
                                ELSE Address(n + 3),
       l4PageTableBase      |-> L4PageTable(m)]

\* And what they hold: without CLONE_VM copies of what the original's hold.
NewFrames(n, shareVM, originalPm, pm) ==
  LET copyOf(page) == content[Frame(page)]
      tables(m)    == SetUpPageTable(m, pm.textSegmentPageFrame,
                                     StackTop(pm.userStackPageFrame))
  IN  IF SharesText(shareVM)
      THEN <<Data("new"), Data("new")>> \o tables(n + 2)
      ELSE <<copyOf(originalPm.userStackPageFrame),
             copyOf(originalPm.kernelStackPageFrame),
             copyOf(originalPm.textSegmentPageFrame)>> \o tables(n + 3)

\* Mutant: the thread information of the child still names its parent.
CopyThreadInfoAsIs(originalTi, process) == originalTi

CopyThreadInfo(originalTi, process) == [originalTi EXCEPT !.process = process]

\* The result r of a kmalloc, with what has been handed out then: l and, unless
\* it failed, a block of that size.
Record(l, size, r) ==
  [heap  |-> r.heap, block |-> r.block,
   live  |-> IF r.block = NULL THEN l ELSE Append(l, [block |-> r.block, size |-> size])]

Obtain(h, l, size) == Record(l, size, kmalloc(h, size))

\* The three structures of a process, in the order they are allocated.
Structured(process, processMemory, threadInfo) ==
  [heap   |-> threadInfo.heap, live |-> threadInfo.live,
   blocks |-> <<process.block, processMemory.block, threadInfo.block>>]

AllocateThreadInfo(process, processMemory) ==
  Structured(process, processMemory,
             Obtain(processMemory.heap, processMemory.live, SizeOfThreadInfo))

AllocateProcessMemory(process) ==
  AllocateThreadInfo(process, Obtain(process.heap, process.live, SizeOfProcessMemory))

AllocateStructures(h, l) == AllocateProcessMemory(Obtain(h, l, SizeOfProcess))

(***************************************************************************)
(* CopyProcess: the child's structures.  The results of kmalloc are not    *)
(* looked at: a structure there is no room for lies at address 0, the last *)
(* one written over the others.  What becomes of such a process is not     *)
(* followed.                                                               *)
(***************************************************************************)
CopyProcess(shareVM, original, blocks) ==
  [process       |-> [original EXCEPT !.processMemory = blocks[2], !.threadInfo = blocks[3]],
   processMemory |-> NewProcessMemory(Len(content), shareVM, mem[original.processMemory]),
   threadInfo    |-> CopyThreadInfo(mem[original.threadInfo], blocks[1])]

\* The heap's memory m with a process's structures in it, written in this order.
WithStructures(m, blocks, child) ==
  [x \in DOMAIN m |->
     CASE x = blocks[3] -> child.threadInfo
       [] x = blocks[2] /\ x # blocks[3] -> child.processMemory
       [] x = blocks[1] /\ x \notin {blocks[2], blocks[3]} -> child.process
       [] OTHER -> m[x]]

\* The stack the child is resumed on, its parent's registers being at rsp.
Ring0Rsp(shareVM, rsp, originalPm, pm) ==
  IF shareVM THEN SetUpKernelStack(StackTop(pm.kernelStackPageFrame))
  ELSE ChildStack(rsp, originalPm.kernelStackPageFrame, pm.kernelStackPageFrame)

DoFork(shareVM, rsp) ==
  /\ Len(processes) < MaxProcesses
  /\ \E got \in {AllocateStructures(heap, live)} :
     \E child \in {CopyProcess(shareVM, mem[currentProcess], got.blocks)} :
       LET originalPm == ProcessMemoryOf(currentProcess)
           pm         == child.processMemory
           ring0rsp   == Ring0Rsp(shareVM, rsp, originalPm, pm)
       IN  /\ heap' = got.heap
           /\ live' = got.live
           /\ mem' = WithStructures(mem, got.blocks,
                        [child EXCEPT !.threadInfo = [@ EXCEPT !.ring0rsp = ring0rsp]])
           /\ content' = content \o NewFrames(Len(content), shareVM, originalPm, pm)
           /\ processes' = Append(processes, got.blocks[1])
           /\ program' = [program EXCEPT ![got.blocks[1]] =
                            IF shareVM THEN Kernel ELSE program[currentProcess]]
  /\ UNCHANGED <<currentProcess, cr3, rsp0>>

\* A program calls fork: the kernel is entered on the stack rsp0 names.
sysFork ==
  /\ program[currentProcess] # Kernel
  /\ DoFork(FALSE, SyscallStack)

\* Called by the boot code, the first process, before its exec.
KernelThread ==
  /\ currentProcess = processes[1] /\ program[currentProcess] = Kernel
  /\ DoFork(TRUE, 0)

-----------------------------------------------------------------------------
(***************************************************************************)
(* exec: the file is read into a buffer of the heap, its text is copied to *)
(* the text page of the caller, and the caller's registers are reset.  When*)
(* there is no such file, or no room for it, nothing changes.              *)
(***************************************************************************)
MayExec ==
  \/ program[currentProcess] # Kernel
  \/ currentProcess = processes[1]
  \/ KernelThreadsExec

\* The heap's memory once the file is written to a buffer there.
Written(block, size) ==
  [x \in DOMAIN mem |->
     IF block <= x /\ x < block + BlocksFor(size) THEN Bytes ELSE mem[x]]

\* ReadFile fails, or reads less than the file: the buffer is not freed.
sysExecFails(file) ==
  /\ MayExec
  /\ Len(live) - 3 * Len(processes) < MaxLost
  /\ \E r \in {kmalloc(heap, FileSize[file])} :
       /\ r.block # NULL
       /\ heap' = r.heap
       /\ live' = Append(live, [block |-> r.block, size |-> FileSize[file]])
       /\ mem' = Written(r.block, FileSize[file])
  /\ UNCHANGED <<content, processes, currentProcess, program, cr3, rsp0>>

sysExec(file) ==
  LET pm == ProcessMemoryOf(currentProcess)
  IN  /\ MayExec
      /\ \E r \in {kmalloc(heap, FileSize[file])} :
           /\ r.block # NULL
           /\ heap' = kfree(r.heap, r.block)
           /\ mem' = Written(r.block, FileSize[file])
      /\ content' = [content EXCEPT ![Frame(pm.textSegmentPageFrame)] = Data(file)]
      /\ program' = [program EXCEPT ![currentProcess] = file]
      /\ rsp0' = StackTop(pm.kernelStackPageFrame)
      /\ UNCHANGED <<live, processes, currentProcess, cr3>>

\* The processor passes to another process, which Scheduler chooses.
Schedule(next) ==
  /\ currentProcess' = next
  /\ cr3' = ProcessMemoryOf(next).l4PageTableBase
  /\ rsp0' = ThreadInfoOf(next).ring0rsp

Switch ==
  /\ \E i \in DOMAIN processes : processes[i] # currentProcess /\ Schedule(processes[i])
  /\ UNCHANGED <<heap, live, mem, content, processes, program>>

-----------------------------------------------------------------------------
(***************************************************************************)
(* ProcessInit and PagingInit: three structures at the start of the empty  *)
(* heap, and eight frames.                                                 *)
(***************************************************************************)
ProcessInit ==
  LET pm == [kind                 |-> "ProcessMemory",
             textSegmentPageFrame |-> Address(1),
             kernelStackPageFrame |-> Address(2),
             userStackPageFrame   |-> Address(3),
             l4PageTableBase      |-> L4PageTable(3)]
      first(blocks) ==
        [process       |-> [kind |-> "Process", processMemory |-> blocks[2],
                            threadInfo |-> blocks[3]],
         processMemory |-> pm,
         threadInfo    |-> [kind |-> "ThreadInfo", process |-> blocks[1],
                            ring0rsp |-> StackTop(pm.kernelStackPageFrame)]]
  IN  /\ \E got \in {AllocateStructures(kHeapInit, <<>>)} :
           /\ heap = got.heap
           /\ live = got.live
           /\ mem = WithStructures([x \in Ids \cup {NULL} |-> Bytes], got.blocks,
                                   first(got.blocks))
           /\ processes = <<got.blocks[1]>>
           /\ currentProcess = got.blocks[1]
      /\ content = <<Data("new"), Data("new"), Data("new")>>
                     \o SetUpPageTable(3, pm.textSegmentPageFrame,
                                       StackTop(pm.userStackPageFrame))
      /\ program = [x \in Ids \cup {NULL} |-> Kernel]
      /\ cr3 = pm.l4PageTableBase
      /\ rsp0 = StackTop(pm.kernelStackPageFrame)

ProcessMemoryNext ==
  \/ sysFork
  \/ KernelThread
  \/ \E file \in Programs : sysExec(file) \/ sysExecFails(file)
  \/ Switch

ProcessMemorySpec == ProcessInit /\ [][ProcessMemoryNext]_pmVars

-----------------------------------------------------------------------------
(***************************************************************************)
(* Properties                                                              *)
(***************************************************************************)
Kinds == {"Process", "ProcessMemory", "ThreadInfo", "bytes"}

Frames == 1 .. Len(content)

ProcessMemoryTypeOK ==
  /\ heap \in HeapType
  /\ live \in Seq([block : Ids, size : StructureSizes \cup {FileSize[f] : f \in Programs}])
  /\ \A x \in Ids \cup {NULL} : mem[x].kind \in Kinds
  /\ \A f \in Frames : \A i \in DOMAIN content[f].table : i \in 0 .. 511
  /\ processes \in Seq(Ids)
  /\ currentProcess \in Ids
  /\ program \in [Ids \cup {NULL} -> Programs \cup {Kernel}]
  /\ Frame(cr3) \in Frames
  /\ Frame(rsp0) \in Frames

AllProcesses == {processes[i] : i \in DOMAIN processes}

Structures(p) == {p, mem[p].processMemory, mem[p].threadInfo}

\* Every process keeps its three structures, each in a heap block of its own
\* that nothing else is written to, whatever is forked, read and executed; and
\* its ThreadInfo leads back to it (CopyProcess, CopyThreadInfo, sysExec).
StructuresAreIntact ==
  /\ \A p \in AllProcesses :
       /\ mem[p].kind = "Process"
       /\ ProcessMemoryOf(p).kind = "ProcessMemory"
       /\ ThreadInfoOf(p).kind = "ThreadInfo"
       /\ ThreadInfoOf(p).process = p
       /\ Structures(p) \subseteq {live[i].block : i \in DOMAIN live}
  /\ \A p, q \in AllProcesses : p # q => Structures(p) \cap Structures(q) = {}

\* The virtual pages whose tables the kernel fills in.
VirtualPages == {0, 511} \X (0 .. 4 \cup {511}) \X {0, 511} \X {0, 510, 511}

TextPage  == <<511, 511, 511, 510>>
StackPage == <<511, 511, 511, 511>>

\* The frames the programs of a process can reach.
UserFrames(p) ==
  {w.frame : w \in {v \in UNION {CalcPhyAddr(ProcessMemoryOf(p).l4PageTableBase, va) :
                                   va \in VirtualPages} : v.user}}

\* In its own address space a program finds its text and its stack where it
\* was linked for, and nothing else is open to it: no table, no kernel stack,
\* no gigabyte of the kernel (SetUpPageTable, CopyProcessMemory).
UserReachesOnlyItsOwn ==
  \A p \in AllProcesses :
    LET pm   == ProcessMemoryOf(p)
        at(va) == {w.frame : w \in CalcPhyAddr(pm.l4PageTableBase, va)}
    IN  /\ at(TextPage)  = {Frame(pm.textSegmentPageFrame)}
        /\ at(StackPage) = {Frame(pm.userStackPageFrame)}
        /\ UserFrames(p) = at(TextPage) \cup at(StackPage)

\* A program that was forked or executed is still what the process finds in
\* its text page, whatever the processes it was forked from or has forked
\* execute: no two programs share a frame.
EachRunsItsProgram ==
  \A p \in AllProcesses : program[p] # Kernel =>
    /\ content[Frame(ProcessMemoryOf(p).textSegmentPageFrame)].data = program[p]
    /\ \A q \in AllProcesses \ {p} :
         program[q] # Kernel => UserFrames(p) \cap UserFrames(q) = {}

\* Whoever runs, the kernel is entered on his own kernel stack and in his own
\* address space, with room on that stack for the registers of a call: also
\* after forks of forks, which start further down, and after exec.
KernelEntersOnItsOwnStack ==
  LET inside(p, sp) == Frame(sp) = Frame(ProcessMemoryOf(p).kernelStackPageFrame)
  IN  /\ cr3 = ProcessMemoryOf(currentProcess).l4PageTableBase
      /\ inside(currentProcess, SyscallStack)
      /\ inside(currentProcess, rsp0)
      /\ \A p \in AllProcesses : inside(p, ThreadInfoOf(p).ring0rsp)
=============================================================================
