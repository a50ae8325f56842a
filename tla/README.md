# amaterasu in TLA+

amaterasu is a small x86-64 kernel: one processor, preemptive round-robin
processes made by `fork`, four system calls that matter (`READ`, `OPEN`, `EXEC`,
`EXIT`, next to `FORK` and `PUT`), a PIO disk driver with a request queue, two
buddy allocators (page frames and the kernel heap), a keyboard, a FAT reader and a
frame-buffer console. This directory holds TLA+ modules translated from its C and
assembly sources, TLC runs over small instances of them, and TLAPS proofs, for instances
of any size: of the scheduler's safety invariants, of round robin and of its abstract
specification; of the disk driver's ring, data and wakeups and that it uses the scheduler
as it may; that `OPEN` and `READ` on a partitioned disk, and `EXEC` on any, get the file they
name; of the kernel heap and of the page frames; of the booted kernel's gates, faults, keys
and screen; of the bit layouts of the processor's tables; and of the pointer operations of
the linked lists.

All definitions follow the code as built by `src/Makefile` at this commit. Three
calls are commented out in it: `main.c:76-79` (`KernelThread`, `SchedulerStart`,
`EXEC`) and `ata.c:74` (`EnableInterruptOnPIC` of the disk's line). The
functions themselves are in the image, and are modelled; where a run depends on the
commented-out call, a constant says so (`AtaIrqUnmasked`).

## 1. The system

| component | state it keeps | operations | talks to |
|---|---|---|---|
| **Scheduler and process life cycle**: `scheduler.c`, `process.c`, `list.c`, `handler.s`, `hpet.c` | the ring `processListHead`, `currentProcess`, per process `state`, `pid`, `parent`, and in `ThreadInfo` the stack and `rip` it continues at | `ProcessInit`, `CopyProcess`/`DoFork`, `KernelThread`, `sysFork`, `sysExit`, `Schedule`, `FindNextTask`, `sleep`, `wakeup`, `HPETHandler`, `SchedulerStart` | called by the timer interrupt, the system calls and the disk driver; sends end-of-interrupts |
| **Interrupt controllers**: `pic.c` | mask, latched requests and in-service lines of two 8259A | `picInit`, `EnableInterruptOnPIC`, `SendEndOfInterrupt` | every handler |
| **Disk driver**: `ata.c` | `ATArequestQueue` (ring of `HeadIndex`, `Size`, `queueBody`), the drive's registers | `ATARead` (sleeping and polling), `ATASendRequest`, `ATAHandler`, push/front/pop | `sleep`, `wakeup`, `SendEndOfInterrupt`; called by `GetFileInfo`, `ReadFile`, `DriveInit` |
| **Kernel heap**: `kHeap.c` | `kHeapManagementMap` (order, allocated flag, links), `kHeapOrder` list heads | `kHeapInit`, `kmalloc`, `kfree` | one page frame; called by `process.c` |
| **Page frames**: `physicalMemory.c` | `pageManagementMap`, `pageFrameOrder` list heads | `BuddySystemInit`, `AllocatePageFrames`, `FreePageFrames` | called by the heap and `process.c` |
| **Keyboard**: `kbc.c` | `isShift` | `KBCInit`, `doKBCInterrupt` | console, controllers |
| **System call entry**: `syscall.c`, `handler.s` | none | `SyscallInit`, `SyscallHandler` | everything |
| **Process memory**: parts of `process.c`, `paging.c`, `elf.c` | page tables, the three frames of a process | `CopyProcessMemory`, `SetUpPageTable`, `CalcPhyAddr`, `sysExec`, `SwitchKernelStack` | both allocators, files |
| **File system**: `fat.c`, `file.c` | `drives`, `partitions` | `DriveInit`, `ParseBootRecord`, `GetFileInfo`, `ReadFile` | disk driver; called by `start_kernel`, the system calls and `sysExec` |
| **Linked lists and queues**: `list.c`, `queue.c`, `stdin.c` | links of the nodes, size of a queue | `ListAdd`, `ListDelete`, `QueuePush`, `QueuePop` | the process ring; the queues have no caller in the kernel |
| **Console**: `graphic.c`, `fb.c`, `font.c` | cursor, frame buffer | `GraphicInit`, `putc`, `puts`, `puth`, `DrawPixel` | keyboard handler, `PUT`, fault handlers |
| **Boot and descriptor tables**: `main.c`, `x86_64.c`, `interrupt.c` | GDT, IDT, TSS | `start_kernel`, `gdtInit`, `SwitchKernelStack`, `idtInit`, `SetInterruptDescriptor` | every component |
| **ACPI and the timer's registers**: `acpi.c`, `hpet.c` | `xsdt`, the HPET's registers | `ACPIInit`, `HPETInit`, `HPETStartPeriodicTimer` | scheduler |
| **User library and programs**: `app/` | - | `int 0x80` wrapper | system calls |

How they interact. There is one processor. System calls and device interrupts enter
through interrupt gates, so the interrupt flag is clear until `iretq`: handlers do
not interleave with each other *except* through `Schedule`, which leaves a handler
in the middle and resumes another process in the middle of *its* handler. The timer
handler switches on every tick; `sleep` and `sysExit` switch inside a system call.
Whoever is resumed owes the end of interrupt of the tick that was taken in another
process. Devices run concurrently with all of this: the timer and the keyboard latch
requests in the controllers, the disk finishes sectors at any time.

What is hard here, and what makes each component right:

* **Scheduler** - order of forks, exits, sleeps and ticks; three separate pieces of
  code send the timer's end of interrupt. Right means: only RUNNING processes run,
  each process continues where its state says, no line stays in service, the ring
  holds every process once, everybody who can run gets the processor, round robin.
* **Disk driver** - processes queue behind one another, the answer goes to the
  *head* of the ring whoever made it; a wakeup may come as early as the tick after
  the request. Right means: a read that reports success filled its caller's buffer with
  the sectors asked for; no lost wakeup; every read returns.
* **Process memory** - three structures and eight frames for each process, taken from
  a heap that is also used and lost by `EXEC`; a text page that `CLONE_VM` shares;
  kernel stacks that start further down with each generation of `fork`. Right means:
  structures stay intact, a program reaches its own text and stack and nothing else, it
  keeps its text whatever others execute, the kernel is entered on the running
  process's own stack.
* **Boot, keyboard, console** - tables filled by straight-line code in an order that
  matters and read by the processor at any later time; bytes that arrive one by one,
  behind the keys. Right means: every event the kernel causes or waits for finds a handler that
  returns, programs enter the kernel by their gate and on its stack only, what is
  typed comes out, in order, with the shift state of the moment, and stands where it belongs.
* **File system** - positions computed from fields of three sectors, results of reads
  that nobody looks at. Right means: what a program reads or becomes is the file it named.
* **Allocators** - long sequences of legal calls, split and merge at order
  boundaries, intrusive lists with links that are not all maintained. Right means:
  memory is partitioned between the callers and the free lists, blocks are aligned
  and large enough, a request fails only if there is no room.

`PROJECT.json` lists every hazard with its line and the property that covers it, or
why none does yet.

## 2. The modules

| module | models | notes |
|---|---|---|
| `Pic` | `pic.c` and the 8259A pair | no actions of its own; the mask is the constant `BootMask` computed from the initialisers `start_kernel` calls |
| `Scheduler` | `scheduler.c`, life cycle of `process.c`, `hpet.c`, `kbc.c`'s handler, the entry and exit paths of `handler.s` | one action per handler and system call, plus `Resume` |
| `Tasks` | nothing in the code: the abstract specification of multitasking | phases and one holder of the processor |
| `SchedulerRefinement` | - | the refinement mapping `Scheduler` => `Tasks` |
| `SchedulerProofs` | - | inductive invariant and theorems; that `Scheduler` implements the safety part of `Tasks` |
| `RoundRobin` | `Scheduler` with a history variable | whom each waiting process saw getting the processor |
| `RoundRobinProofs` | - | round robin |
| `Ata` | `ata.c` on top of `Scheduler` | replaces the free `sleep`/`wakeup` of `Scheduler` by the driver's |
| `Files` | `fat.c`, `file.c`, drive detection, the file system calls, on top of `Ata` | disks are laid out by `DiskOf` |
| `DiskProofs` | - | invariants of the driver, and that it implements `Scheduler`; invariants of the file system on top, and that it implements both |
| `Descriptors` | the bit layouts of `x86_64.c` and `interrupt.c`, and the processor's reading of them | no state; a word is the set of its 1 bits |
| `Console` | `graphic.c`, `fb.c`, `font.c` | no state; a console is a record |
| `Keyboard` | `kbc.c` and the keyboard with its controller | |
| `Boot` | `start_kernel`, the tables, the processor's interrupt delivery, keys, `PUT` and `EXEC` of one program | composes `Pic`, `Descriptors`, `Console`, `Keyboard` |
| `BootProofs` | - | theorems on all bit layouts, and the invariants of the booted kernel |
| `LinkedList` | `list.c`, `queue.c` on pointers | no state, no run |
| `LinkedListProofs` | - | theorems on all rings |
| `KHeap` | `kHeap.c` | `kmalloc` and `kfree` as operators on a heap record |
| `PageFrames` | `BuddySystemInit`, `AllocatePageFrames`, and what `ACPIInit` does to it | |
| `PageFramesProofs` | - | the invariants of the page allocator, for every memory map |
| `BuddyArithmetic` | `pow` and `log2` of `util.c` | powers of two as a recursive function, which the prover can unfold |
| `ArithmeticProofs` | - | the least-number principle, powers of two and `log2` |
| `ProcessMemory` | fork, `KernelThread` and `EXEC` of `process.c` as far as memory goes, `CalcPhyAddr` of `paging.c`, `SwitchKernelStack` | EXTENDS `KHeap` and is the heap's client |
| `MemoryProofs` | - | `kfree` undoes `kmalloc`, the heap's invariants, and on top of them those of the processes' memory |
| `MC...` | - | constants for TLC |

### Scheduler

`processList` is the ring without its guard, as a sequence; `ListAdd` inserts behind
its parent. `pstate` is `Process.state`, with `FREE` for what is not
allocated. `resume[p]` is the place in the code at which `Schedule` left `p`
(`ThreadInfo.rip` and the return addresses on its stack):

| `resume` | code | what follows when it is resumed |
|---|---|---|
| `"HPETHandler"` | behind `Schedule()` in `HPETHandler` | end of interrupt of the timer, `iretq` |
| `"sleep"` | behind `Schedule()` in `sleep` | end of interrupt of the timer, rest of `ATARead` |
| `"return_from_sys_fork"` | label in `handler.s` | end of interrupt of the timer, `iretq` |
| `"sysExit"` | behind `Schedule()` in `sysExit` | never resumed |

`cpu` is what the processor does: `"task"` (own code, interrupts on), `"resumed"`
(came out of `Schedule`, interrupts off, end of interrupt still owed), or
`"FindNextTask"` (the endless loop of that function, entered when nobody is RUNNING;
nothing but the latches of the controllers changes from there on). A handler or a
system call up to its `iretq` or its task switch is one step, because interrupts are
off in it; what devices do meanwhile commutes with it.

`Schedule` with the process itself as its own next one is a switch too: the code returns
at once then, to the same place behind `Schedule()` that a switch would come back to.

Left out: registers and page tables (the context that is saved is represented by the
place only), what a key prints (module `Boot`), and the boot code before `ProcessInit`.
`Procs` bounds the processes, as the kernel heap does (there is room for the
structures of five); running out is listed as a hazard, not modelled here.

### Tasks and the refinement

`Tasks` says what programs may rely on: a task is unborn, ready, waiting or gone;
the holder of the processor is a ready task unless there is none; a task that is
ready again and again gets its turn (strong fairness). The mapping reads RUNNING as
ready and `currentProcess` as the holder, and "nobody" in the endless loop.

### Ata

The ring is modelled slot by slot. The drive has a status (`idle`, `busy`, `drq`,
`err`), the sectors it still has to give, and how many words of the present one were
taken; it ignores commands while BSY or DRQ is set, as QEMU's, the machine
`src/Makefile` runs, does. Its interrupt request is a level that a read of
the status register (`ATAPollingUntilReady`, or behind `sleep`) takes back; the
controller latches rising edges.

| action | code |
|---|---|
| `ATARead` | up to its wait: the return -1 of a full ring (`ReadFull`), or push, send if first (`Enqueue`), and `sleep()` or the polling loop |
| `ATAReadReturns` | behind `sleep()` (`ATAReadWoken`) or the loop (`ATAPollingUntilReady`): status, data to the *head's* buffer, pop, send the next, return |
| `ATAHandler` | wake the head's process, end of interrupt at both controllers |
| `DriveAnswers` | the hardware: a sector is ready, or the command failed |

`PollModes` is the set of values of `enablePoll` in use. In the kernel `READ` and
`OPEN` sleep (`syscall.c:36`, `:42`) and `EXEC` polls (`process.c:236`, `:245`).
A sector is its address; a buffer is the sequence of sectors in it, with `Zero` for
what an idle or busy drive gives and `Torn` for the tail of an older one.

### Files

`disk` is one of the volumes given (`Volumes`), a function from addresses to sectors, laid out
by `DiskOf`: `SectorOf` says what lies at an address, so that the proofs can reason about any
volume that satisfies `VolumesAssumption` (numbers a disk may hold, and files that fit the
first sector of the root directory). A sector is a record of the fields the code reads from it. A sector of another kind than the
code expects has zeros in the places it looks at. `op` is the call a process is in,
`opened` and `loaded` are what the last `OPEN`, and the last `READ` or `EXEC` gave it, with
the name it asked for.

| action | code |
|---|---|
| `DriveInit`, `DriveInitGoesOn` | each `ATARead` of `DriveInit`, and the code behind it up to the next one |
| `OPEN`, `OPENReturns` | `GetFileInfo` with `enablePoll` 0 around its sleep |
| `READ`, `READReturns` | `ReadFile` likewise |
| `EXEC`, `ExecFindsFile`, `ExecLoads` | `sysExec` up to its first read, from there to its second, and the rest; interrupts are off in between, and no other action of a process or handler comes between |

`InBuffer` is what a buffer may hold after a read whose result is ignored: any sector of
the disk if nothing was written to it, because the memory was used for sectors before
(a bound: it could be any bytes). Left out: files of more or less than 512 bytes (what `ATARead` makes of them
is a finding about `Ata`), the FAT itself, which no code reads, and directories
of more than one sector, which the code does not look at (a TODO in `file.c:11`); the disks
of the runs have root directories of up to two sectors with all entries in the first.

### Boot, Descriptors, Console, Keyboard

`pc` counts the calls of `start_kernel` that have returned; each is one step. `gdt`, `idt`
and `tss` hold what the code put there, bit by bit; `Gate`, `Segment`, `EnterThrough` and
`Iretq` are the processor's part: which handler runs, on which stack, with interrupts on or
off, and which fault comes instead. A handler that is found neither at its address nor by
the double fault is `"reset"`. `frames` is what the entries have pushed.

| action | code |
|---|---|
| `BootStep` | the calls of `start_kernel` |
| `KeyEvent`, `ByteArrives` | the keyboard and its controller (hardware) |
| `TakeInterrupt` | interrupt delivery (hardware) |
| `doKBCInterrupt`, `kbc_exit` | the handler up to its label, and its end of interrupt with `iretq` |
| `Syscall`, `SyscallPut`, `sysExec` | the `int` of the idle kernel or a program, `PUT`, and the part of `sysExec` that builds the frame of a program |
| `Misbehave` | a program names another interrupt or causes a fault |

The console draws glyphs at addresses of the frame buffer, as `DrawPixel` computes
them; which pixels of a glyph are lit is abstracted to the character and the place. The keyboard
sends make codes (again while a key is held) and break codes; `LegendOf` is what the
user meant, the character on the key at the moment it goes down. On the apostrophe key the code
gives `"` without shift and `'` with it (`kbc.c:137`), the reverse of the key tops of the
layout its other keys follow; no doc says which was meant.

Left out: processes, memory and disk, which have their own modules; the tick
(`HPETStartPeriodicTimer` is not called); a key pressed before `picInit`, whose byte would
wait in the controller with its edge forgotten; both shift keys held at once (releasing one
ends the shift, `kbc.c:55`); keys beyond the table `scanCode`.

### LinkedList

`prev` and `next` are functions on the nodes; the operators are the assignments of `list.c`
and `queue.c` in their order. `Holds(l, guard, s)` says that the ring of a guard holds the
sequence `s` in both directions. `Scheduler`'s `processList` is this `s`, and its `ListAdd`
the `Inserted` of `AddInsertsBehind`; that is the link between the two modules, made by hand.
The operators have no run; their theorems hold for rings of every length.

### KHeap and PageFrames

`KHeap` keeps the management map as it is in memory - orders, flags, `front`,
`next` and `prev` links, with the links the code forgets to set - and
`live`, the allocations its callers hold. `kmalloc` and `kfree` are operators whose
loops are recursive functions over the order. The client in `HeapSpec` frees what
it allocated last: the kernel's callers of `kfree`, `DriveInit` and `sysExec`, free
their buffer before anything else is allocated.

`PageFrames` keeps each free list as a sequence: `AllocatePageFrames` only ever
takes from the front, so the links are those of a stack. `BuddySystemInit` walks the
memory map as the code does, including the flag it reads behind the map's end
(`BeyondReserved`) and the list head it keeps behind the array's end (`XsdtIsHead`).
`allocated` are the blocks marked `PAGE_ALLOCATED`; `returned` is what the last call gave its
caller, the address `(allocated - memoryMap) << 12` of the block or 0 for none. The block at page 0
has the address 0: if page 0 is usable, its caller is told that there is no page
(`SetUpPageTable` returns 0 then), and the block is lost. The boot loader, which marks the pages,
is not in the repository, so maps with and without a usable page 0 are in the run, and
`FailsOnlyWithoutRoom` speaks of those that reserve it.

### ProcessMemory

`mem` is what lies at each block of the heap: a `Process`, `ProcessMemory` or
`ThreadInfo`, or bytes. `content` is what each page frame holds: the bytes of a
program, or a page table as a function from the indices that are present to entries.
Frame `f` has the address `f * PAGE_SIZE`, so the arithmetic on stack tops and page
addresses is the code's. `program` is a history variable: what each process was told
to execute; `cr3` and `rsp0` are the processor's register and the TSS.

| action | code |
|---|---|
| `sysFork`, `KernelThread` | `DoFork` with `CopyProcess`, `CopyProcessMemory`, `SetUpPageTable`, `CopyThreadInfo`, in the order they allocate |
| `sysExec` | read into a heap buffer, copy to the caller's text page, reset the stack of the TSS, free the buffer |
| `sysExecFails` | the return after a failed `ReadFile`, which loses the buffer |
| `Switch` | what `Schedule` does to `cr3` and the TSS; which process is next is left open |

Left out: registers, the contents of the kernel stacks (where on them the saved registers lie
is kept), and the headers of the executable file, whose text is taken to fit into a page.
A fork that finds the heap full puts its structures at address 0, as the code does; the
invariants say that this does not happen within the bounds, and what would become of such a
process is not followed.

## 3. The runs

Passing runs:

| run | question | bounds |
|---|---|---|
| `sched_any` | are the scheduler's safety invariants, round robin and the safety part of `Tasks` kept by any mix of fork, exit, sleep, wake and ticks? | 4 processes, every one free to stop, so the endless loop of `FindNextTask` is reached too; symmetric in the three later ones |
| `sched_busy` | with one process that never stops: does the search for the next task end, and does everyone get his turn (`FairTaskSpec`)? | 4 processes |
| `ata_sleep` | sleeping reads: right data, ring and readers agree, no lost wakeup, spurious interrupts | 3 processes (two of them can queue while the third is at the drive), ring of 2 so that it is full and wraps, 2 sectors, interrupt unmasked |
| `files_open` | sleeping `OPEN` and `READ`: is the file found exactly when it is there, and delivered; does every call return; do file system and driver use the scheduler as `Scheduler` says (`Sched!Spec`)? | 3 processes, one of which keeps running, ring of 2, two disks with and without the name, started behind `DriveInit` |
| `files_exec` | `DriveInit` and `EXEC` with drive errors at any time: is what is executed a file of that name? | 2 processes, polled reads, interrupt masked as in this commit; partition at different places and with the active flag clear, one or two FATs, root directory of one or two sectors, clusters of one or two; two drives present; one name a prefix of another |
| `boot` | do the tables lead every interrupt, fault and call where it belongs; is what is typed shown, in order and in place, whatever programs do meanwhile? | a screen of 2 lines of 3 characters of 2 by 2 pixels, so that text meets the end of a line and of the screen; keys A, Enter and both shifts, 2 held at a time, 1 byte in the controller and 1 behind it; 2 typed and 1 printed character; handlers at addresses with bits in each field of a gate |
| `heap_kernel` | the heap as the kernel uses it: last allocated, first freed | the real 16 blocks of 256 bytes and orders 0 to 4, sizes of 1, 2, 3, 6 and 16 blocks |
| `proc_memory` | with fork, kernel threads, exec and lost buffers on the real heap: are structures intact, address spaces separate, programs what was executed, kernel stacks the right ones? | 4 processes (`TASK_MAX_NUMBER`) in every shape of family tree, a program of one heap block and one of four, 1 lost buffer (`MaxLost`): together they fill the sixteen blocks of the heap exactly |
| `pages_alloc` | the page allocator over *every* memory map of 11 pages whose last page is usable | orders 0 to 2, so that blocks of the largest order, a cut-off end and holes everywhere occur; requests of 1, 2, 3 and 5 pages (5 is more than the largest block); `FailsOnlyWithoutRoom` is about the half of the maps that reserve page 0 |

Runs that find the code in disagreement with what it says of itself; each is a
finding in `PROJECT.json` with the lines:

| run | violated | what happens |
|---|---|---|
| `ata_mixed` | `ReadDeliversItsData` | a process that polls (EXEC) while another sleeps in a read (READ) takes the sleeper's data for its own, and leaves its own buffer unwritten |
| `ata_error` | `QueueIsServed` | a read that fails is never popped, and no later one is ever sent |
| `pages_xsdt` | `ListsHoldPagesOfTheMap` | `pageFrameOrder` is one element short; `ACPIInit` overwrites the head of the largest order |

Each passing property was also seen to fail for a plausible bug in the code
(`PROJECT.json`, `mutants`; the mutated forms stand in the modules, marked
"Mutant").

Things that are worth trying by hand, and fail for a reason the models show:
`StructuresAreIntact` with `MaxProcesses = 6` (the heap has no
room, `CopyProcess` does not look, and its structures land on address 0);
`EachRunsItsProgram` with `KernelThreadsExec = TRUE` (a kernel thread that calls
exec overwrites the text page it shares with its creator; `taskX`, the only thread in
`start_kernel`, does not); `HeapIsPartitioned` with a client that frees in any order
(`kfree` takes a buddy that is split and partly in use for a free one, unlike
`doc/BuddyMemoryAllocation.md:31`); `EveryRunnerIsServed` with `Busy <- MCNone` (everyone asleep or gone: the processor spins
with interrupts off for ever); `EveryReadReturns` with `AtaIrqUnmasked = FALSE`
(this commit: a sleeping read is never woken); `ReadDeliversItsData` on `MCAta` with
`PollModes = {TRUE}` and `Sizes = {1024}` (the words of the second sector are read without
waiting for it, `ata.c:179`) or `{100, 512}` (the rest of the last sector stays in the drive, which
then ignores the next command); `KeysComeOutAsTyped` without the bound on both shift
keys; `ScreenShowsTheText` without `Fits` (Enter behind an exactly full line blanks part of
column 0, one row of pixels lower);
`FailsOnlyWithoutRoom` without its condition on page 0 (a request that is given the block there is
told 0, no room, `physicalMemory.c:104`, whatever else is free); `InterruptMeansHeadIsDone` on `ata_sleep`
with `PollModes = {TRUE}` (an interrupt latched during a polled read outlives it);
`ListsHoldPagesOfTheMap` with maps whose last page is
reserved and `BeyondReserved = FALSE` (a free block behind the map). Two children of
one parent have the same number (`NewProcessId`, with a TODO at `scheduler.c:21`);
nothing in the kernel looks a process up by number, and no property asks
for more.

Why the bounds are enough. Every decision of the scheduler compares states of
processes and neighbours in the ring: with four there is a current one, one to be
chosen, one to be passed over and one to be inserted between them. The ring of
requests branches on empty, full, last, wrapped: two slots give all four, and three
processes keep it full. The buddy operations of one order only see the next one; the
heap's bounds are the code's own. Unbounded counters: `pid` only grows by forks,
which `Procs` bounds. A gate spreads an address over three fields, and the addresses of
`boot` have bits in each (for all addresses: `BootProofs`). A position on the disk is
a sum in which each term has two values in the volumes.

### Fairness

`Scheduler!Fairness`: weak fairness of `SchedulerStart` (straight-line boot code), of
`Tick` (a periodic comparator), of `HPETHandler` (the processor takes a presented
interrupt while its flag is set) and of `Resume` (straight-line code). Nothing is
assumed of programs: they may never make a call. `Ata` adds the drive (it answers a
command), the two halves of `ATARead`, and strong fairness of `ATAHandler`:
its line has a lower priority than the timer and the keyboard, so it is presented
again and again rather than always; `RoomBetweenInterrupts` says that a
handler is shorter than the interval between ticks (5 ms) and key presses, so that
it *is* presented again and again. Without that, a system that only ever handles
ticks would starve the disk, which no hardware this code runs on does.

`Files` takes over `Ata`'s, with the halves of `OPEN` and `READ` in place of those of
`ATARead`. `Boot`: weak fairness of the kernel's own straight-line code and of the
controller, which loads the next byte when its buffer is empty; strong fairness of
`TakeInterrupt`, because a program that makes system calls one after the other has
interrupts enabled again and again, not always. `EveryKeyIsPrinted` excepts a kernel a
program has stopped by a fault.

The scheduler's and the disk's liveness runs need a process that does not stop (`Busy` is not empty): without one,
the endless loop of `FindNextTask` is reachable, and nobody is ever served again.

`CHECK_DEADLOCK FALSE` stands only in `sched_any`, `ata_sleep` and `files_exec` (the endless
loop with its lines latched) and in `boot` (a fault handler that halts).

## 4. What is proved

`SchedulerProofs` proves, for every set `Procs`, every `InitProc` in it, every `Busy`
and both values of `AtaIrqUnmasked` (the named assumptions `ProcsAssumption` and
`PicAssumption`):

| theorem | says |
|---|---|
| `TypeCorrect` | `Spec => []TypeOK` |
| `OnlyRunningExecutes` | `Spec => []RunsOnlyRunning` |
| `LeftWhereStateSays` | `Spec => []ParkedWhereItStopped` |
| `TimerNeverHeldBack` | `Spec => []NoLineLeftInService` |
| `RingComplete` | `Spec => []RingHoldsEachOnce` |

The argument. None of the properties but the type invariant is inductive. Whether the
interrupt lines are clear *in a task* depends on what the resumed handler before it
owes; `OnlyTimerInService` (in a resumed handler nothing but the timer's line is in
service) says that it owes one end of interrupt and no other, and
`ParkedWhereItStopped` says that the place it resumes at is one of those that send
it. That again needs `RunsOnlyRunning` (what is resumed is RUNNING, so it is not
parked in `sysExit`), and for a switch from `currentProcess` one needs that the ring
holds it. So the inductive invariant `IInv` is the conjunction of the properties with
`OnlyTimerInService`. The step lemma has one case for each action; a lemma on `Schedule` (any
switch keeps the invariant if only the current process changes its state, to match the point
it is left at) serves the timer, `sleep` and `sysExit`, and two on `ListAdd` (type, and
which elements the new list holds) serve `fork`.

The same module shows that every step of `Scheduler` is a step of `Tasks` or a stutter
(`SchedulerImplementsTasks`, the safety part of `Tasks`; `TaskInit` and `[TaskNext]` one
step at a time, under `IInv` before and after). At most one process changes its phase in a
step (`OnePhaseChanges`); the holder of the processor is ready because
`FindNextTask` stops at the first RUNNING process, and finds one unless there is none
(`SearchEnds`: the least distance on the ring at which one is found). Process 0 is nobody
(`ProcsAssumption`): it stands for the processor that is withheld.

`RoundRobinProofs` adds the history variable: `RoundRobin` says that `RoundRobinSpec =>
NobodyOvertakesTwice` for every set of processes. The invariant is about the ring: those
who have overtaken a waiting process lie between it and the current process, so
whoever comes next lies beyond them, or is the one that waits; a child is inserted
right behind the current process, beyond them too.

`DiskProofs` begins with the driver, for every set of processes, ring capacity, set of sizes and reading modes:

| theorem | says | given |
|---|---|---|
| `AtaTypeCorrect` | `[]AtaTypeOK` | nothing |
| `RingIsExact` | `[]RingHoldsTheReaders` | `OneKindOfRead`, no drive errors |
| `ReadsAreDelivered` | `[]ReadDeliversItsData` | and `WholeSectors`: each read is of one whole sector |
| `NoWakeupIsLost` | `[]SleeperWillBeWoken` | `SleepingReads`: all of that, and no read polls |
| `HandlerMeetsFinishedHead` | `InterruptMeansHeadIsDone` | `SleepingReads` |
| `DriverImplementsScheduler` | `ImplementsScheduler` | `SleepingReads`, or the line masked as in this commit |
| `SchedulingHoldsUnderDriver` | `RunsOnlyRunning`, `NoLineLeftInService` and `RingHoldsEachOnce` with the driver on top | the same |

The conditions are what the code needs, not what the proofs need: `ata_mixed` shows
`ReadDeliversItsData` broken when one process polls while another sleeps, `ata_error` the ring
out of service behind one error, and section 3 names the sizes that break it. The argument
goes up in layers, each used by the next. `Types`; `RingInv`: the slots between
`HeadIndex` and `HeadIndex + Size` are the processes inside `ATARead`, one slot each, and nobody
else is asleep; `DataInv`: the drive works at the request of the head and of nobody else,
a process that is awake inside `ATARead` has its data, and a latched interrupt is the
head's. With it `wakeup` only ever meets a process that sleeps, which is what makes the driver's
steps steps of `Scheduler` (one case per action, through the mapping in `Ata`), and the
theorems of `SchedulerProofs` are then used as they stand, through that mapping.

`DiskProofs` then puts the file system on that driver, for every number of processes, ring
capacity, set of names and of disks (`VolumesAssumption`), with or without the boot:

| theorem | says | given |
|---|---|---|
| `FilesTypeCorrect` | `[]FilesTypeOK` | nothing |
| `FilesImplementDriver` | `FilesSpec => AtaSpec` | no read polls |
| `FilesImplementScheduler` | `ImplementsScheduler` | `SleepingReads`, or the line masked as in this commit |
| `SchedulingHoldsUnderFiles` | `RunsOnlyRunning`, `NoLineLeftInService` and `RingHoldsEachOnce` with the file system on top | the same |
| `SleepersLoadTheNamedFile` | `[]LoadsTheNamedFile` | `SleepingReads`, `EveryDiskIsPartitioned` |
| `OpenersFindTheFile` | `[]OpenFindsTheFile` | and `RingHasRoom` |
| `PollersLoadTheNamedFile` | `[]LoadsTheNamedFile` | each read polls (`EXEC` and the boot) |

The conditions are again those of the code. A full ring makes `ATARead` return -1 at once, and
`GetFileInfo` does not look: so `OPEN` finds nothing it could rely on unless the ring has room for
each process that may read (`RingHasRoom`; a process of `Busy` does not), and on a disk without a
partition it might even believe a sector some earlier call left in the buffer
(`EveryDiskIsPartitioned`; with a partition, what a directory says is right wherever it was
read, so that `LoadsTheNamedFile` needs no room in the ring). `files_open` satisfies all three
conditions. `EXEC` needs none of them, drive errors at any moment included, which is `files_exec`.

The argument has three parts. The disk: from the layout alone, `ParseBootRecord` finds
where the root directory and the first cluster are (`RightPartition`), and the search gets a
file that is in the directory under a name the asked one means, at the sector its data lies in
(`SearchRightSector`, for any position, number of FATs and size of clusters; the
rounding in `RootSectors` is where it would go wrong). The types (`FilesTypes`) say that
whatever was in the buffer, the code goes on with a sector of the disk; with
`BootIsAlone` - while `DriveInit` runs there is one process and it makes no call - that is
inductive. And the calls: `SleepingFiles` says of each process that its call asks the driver for
the root directory or for a file that is right, and rests on the driver's `DataInv` for
what comes back; `BusyNeverRead` bounds the readers by the ring's capacity for `OpenersFindTheFile`.
For polled reads with errors `DataInv` does not hold, so `PolledFiles` takes its place: either the
drive has failed, and then no read ever succeeds again (the failed request stays at the head of
the ring), or the ring is empty, or it holds the one request of the current process
with the drive at work on it (`Failed`, `Idle`, `Serving`). Since interrupts are off while a read
polls, there is one caller at a time (`OneCaller`), and `EXEC` looks at the result of its last read.

`MemoryProofs` begins with the heap, for every number of orders, block size and set of
request sizes, without further conditions: `HeapTypeCorrect`, `HeapIsAlwaysPartitioned`,
`AllocationsAreAlwaysLargeEnough`, `FreeBuddiesAreAlwaysMerged`, `FreeAlwaysUndoesAllocate`.
The argument: `kmalloc` splits the front block of some order in steps, and `SplitTo` gives the heap
at each of them in closed form; `kfree` of the same block goes through the same heaps in
the other direction and stops where `kmalloc` began, because the buddy there is
allocated. So a heap the kernel can be in is one that allocations alone have made, and the
invariant `HeapInv` says so with a history of heaps, one for each live allocation
(`Past`): each is `Sound`, and `kfree` leads from each to the one before it. Soundness then has
to be shown of `kmalloc` only. It says more than the properties, above all that
a list holds one block at most, whose buddy is allocated, and no links at all: that
is why the links `kfree` leaves unmaintained do no harm to clients that free what they allocated last.

`MemoryProofs` then puts the processes on that heap, for every number of processes, set of programs
and of file sizes:

| theorem | says | given |
|---|---|---|
| `ProcessMemoryTypeCorrect` | `[]ProcessMemoryTypeOK` | `HeapIsLargeEnough`, `StackHoldsTheCalls` |
| `StructuresAreAlwaysIntact` | `[]StructuresAreIntact` | `HeapIsLargeEnough` |
| `UsersAlwaysReachOnlyTheirOwn` | `[]UserReachesOnlyItsOwn` | `HeapIsLargeEnough` |
| `EachAlwaysRunsItsProgram` | `[]EachRunsItsProgram` | `HeapIsLargeEnough`, `~KernelThreadsExec` |
| `KernelAlwaysEntersOnItsOwnStack` | `[]KernelEntersOnItsOwnStack` | `HeapIsLargeEnough`, `StackHoldsTheCalls` |

`HeapIsLargeEnough` says that a structure fits into a block and that the heap has as many blocks
as the structures of `MaxProcesses` processes and `MaxLost` lost buffers take. The kernel's has:
three times four blocks of 256 bytes and one buffer of four are all of its sixteen. It is
needed because `CopyProcess` does not look at what `kmalloc` returns. `StackHoldsTheCalls` says that
the registers of one call for each process fit on a kernel stack, 25 processes on 4096
bytes, because each generation of `fork` starts further down. And a thread of the
kernel shares the text page of the process that made it, so that its exec would
overwrite that one's program: `~KernelThreadsExec`, as in `main.c`.

The argument: `FreeIds` are the blocks that no allocation covers, and `kmalloc` succeeds on one block whenever
there is one (`FindsRoom`); a buffer takes at most as many as `HeapIsLargeEnough` counts. So a fork
gets three blocks nobody has (`HeapForFork`). `ProcInv` says that every process is
`Settled`: three structures that lead to each other, page tables as `SetUpPageTable` left
them, a stack pointer in its kernel stack within the bound of its place among the processes; and that
the frames a process does not share (`Own`: stacks and tables) are neither another's nor
anybody's text page. `Joins` shows that of the process a fork adds, `Kept` that it stays so for the
others, since exec writes blocks that were free and a text page only. `ProgInv` adds
which program lies in each text page and that pages are shared with threads only.
`Reaches` walks the five tables level by level.

`PageFramesProofs`, for every number of pages and orders, every set of memory maps and of requests,
under `MapsEnd` (the last page of a map is usable, or what is read behind it reads as
reserved) and `~XsdtIsHead`:

| theorem | says |
|---|---|
| `PageTypeCorrect` | `[]PageTypeOK` |
| `PagesAreAlwaysPartitioned` | `[]PagesArePartitioned` |
| `BlocksAreAlwaysWhole` | `[]BlocksAreWhole` |
| `FailsNeverWithRoom` | `FailsOnlyWithoutRoom`, an action property, about maps with page 0 reserved |
| `ListsStayInTheMap` | `[]ListsHoldPagesOfTheMap` |

Both conditions are those of `pages_alloc`: without the first a free block behind the map
appears (section 3), without the second `pages_xsdt` shows the lists overwritten. The argument: what
`BuddySystemInit` makes of the map from a page on is a partition of the usable
pages from there on into aligned blocks (`ListsFrom`, one block more at a time from the end of the map), and each
block is the largest that could begin where it does (`Largest`). An allocation takes the front of
the least order that will do and leaves the upper halves of what it splits in
lists that were empty. `PagesInv` says that blocks stay disjoint and complete, and that no
larger aligned block of usable pages could begin where a free one does. So a run of free
pages that is long enough for a request begins with a free block that is large enough, and a request
no list can serve has no room (`NoBlockNoRoom`). A request that is served gets the first page of a block
of usable pages, which is not page 0 if that is reserved, so that its caller is not told 0
(`ServedIsNotZero`).

`BootProofs`, for every screen, keyboard and placement of handlers in 64-bit memory:

| theorem | says |
|---|---|
| `EntryDecodes` | base, limit, access byte and flags of every segment descriptor read back as they were given |
| `GateLeadsToItsHandler` | through the gate of any interrupt the processor reaches the handler it was given, at whatever address |
| `KernelStackDecodes` | from the TSS it takes the stack pointer `SwitchKernelStack` was given |
| `KernelStopsForProgramsOnly` | `BootSpec => []OnlyProgramsStopTheKernel` |
| `ProgramsUseTheirGate` | `BootSpec => []ProgramsEnterThroughTheirGate` |
| `BootTypeCorrect` | `BootSpec => []BootTypeOK` |
| `KeysComeOutInOrder` | `BootSpec => []KeysComeOutAsTyped`, given `LegendIsTheTable` and `KeysAreToldApart` |
| `ScreenAlwaysShowsTheText` | `BootSpec => []ScreenShowsTheText` |

The first three are about bits: a word is the set of its 1 bits, and a shift and a mask move
and cut that set. `KernelInv` says what the tables hold after each call of `start_kernel`
(`Tables`) and which four shapes what runs and what is on the stack can have
(`Processor`); the decoding theorems turn a table entry into the handler the
processor enters. `Devices` adds the types of controllers, keyboard and console. For the keys,
`KeysInv` says what the bytes on their way will become (`Promised`): a shift
state and a count of printed characters behind each byte in the buffers, ending in the keys
held and the text typed now. The conditions say that what stands on a key is what the driver's
table has for it, and that programs print other characters, so that the two can be told apart.

For the screen, `ScreenInv` says that the cursor is at the cell of the next character and that a
text which fits is shown (`ConsoleShows`). A character's place is counted from the characters
before it, so it stays when the text grows (`PlacesStay`), no two share one (`PlacesDiffer`), and
the next one is beside or below (`NextPlace`). A pixel is at one address only while it is not
behind the right edge (`AddressesDiffer`), which is where `Fits` is needed: then drawing a glyph
changes the pixels of its cell and no others (`GlyphIsDrawn`), and the `\r` of an Enter blanks a
cell that is empty. No condition is left on the screen: one too narrow for a single column shows
nothing but newlines, and its blanks wrap around on an empty screen.

`LinkedListProofs`: `LIST_INIT`, `ListAdd`, `ListDelete` (`InitIsEmpty`, `AddInsertsBehind`,
`DeleteRemoves`), `QueuePush`, `QUEUE_FRONT` and `QueuePop` (`PushAppends`, `PopTakesTheFront`) on the
pointers of a ring of any length do to the sequence it holds what `Scheduler` does to
`processList`. Each splits the ring into the links before, at and behind the place that changes.

Facts about powers of two, `log2` and the least element of a set of numbers, with which the
inductions above are made (a counterexample has a least one), are in `ArithmeticProofs`.
The prover reads no `2^n`, so `pow2` is a recursive function; and the prover's
library has nothing on `SelectSeq`, so the free lists are built as a function from pages
(`ListsFrom`) rather than by filtering a sequence of blocks.

Only model-checked. Everything with fairness: `EveryRunnerIsServed`,
`ImplementsFairTasks`, `EveryReadReturns`, `QueueIsServed` (violated),
`EveryKeyIsPrinted`; the prover has neither ENABLED nor fairness. Every invariant that a
passing run checks is also a theorem.

## 5. What is not modelled

* **The executable file's headers** (`elf.h`, `process.c:250-259`) and what the fault
  handlers print before they halt. Running out of heap is only followed up to the
  first structure that has no room, and running out of page frames not at all: `SetUpPageTable`
  gives up half-way then, and `CopyProcessMemory` does not look (`process.c:194-206`).
* **`FreePageFrames`, `getc`, `DrawBox`, the queues' use, `Dump...`**: nothing in the
  kernel calls them (the queue operations are modelled and proved as operators).
* **The value of `rax` after `PUT`, `EXEC` and `EXIT`** (`syscall.c:59` returns an uninitialised
  variable): no module has registers, and no program of the repository looks at it.
* **Scan codes behind the end of `scanCode`** (`kbc.c:50`), `log2(0)` for an empty file
  (`process.c:240`), files longer than a sector in `Files`: excluded by assumption, listed as hazards.
* **The search of the ACPI tables, the HPET's registers beyond the tick**: reads of memory
  and writes of device registers nothing else in the kernel depends on.
* **User programs**: the environment of `Scheduler`, `Boot` and `Files`.

## 6. Composition

`Scheduler` EXTENDS `Pic`; `Ata` EXTENDS `Scheduler` and is shown to
implement it in `files_open`, where `Files`, which EXTENDS `Ata`, is its client; `Boot`
EXTENDS `Pic`, `Descriptors`, `Console` and `Keyboard`; `ProcessMemory` EXTENDS `KHeap`, is
its client, and takes page frames as
`PageFrames` hands them out, each one once and none at page 0.
