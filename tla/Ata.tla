--------------------------------- MODULE Ata ---------------------------------
(***************************************************************************)
(* The disk driver of ata.c on top of the scheduler: the ring of read      *)
(* requests, a read that sleeps until the interrupt of the drive, a read   *)
(* that polls, and the interrupt handler.  It makes concrete what module   *)
(* Scheduler leaves open, who sleeps and who is woken when.                *)
(*                                                                         *)
(* ATARead runs inside a system call with interrupts off, so its code up   *)
(* to sleep() is one step and so is its code behind it; only the drive and *)
(* the timer move on meanwhile.  A sector is its address, a size is a      *)
(* number of bytes, and a buffer the sequence of sectors read into it.     *)
(* Buffers lie in memory all processes share, as those of OPEN and EXEC do *)
(* (the kernel's stack and heap); that the address a program passes to READ*)
(* is one of its own address space is left out.                            *)
(***************************************************************************)
EXTENDS Scheduler

CONSTANTS ATA_REQUEST_QUEUE_CAPACITY,
          Lbas,       \* sectors the programs ask for
          Sizes,      \* sizes they ask for, in bytes
          PollModes,  \* the values of enablePoll in use: {FALSE}, {TRUE} or both
          DiskErrors  \* may the drive report an error?

ASSUME AtaAssumption ==
  /\ ATA_REQUEST_QUEUE_CAPACITY \in Nat \ {0}
  /\ Lbas \subseteq Nat
  /\ Sizes \subseteq Nat
  /\ PollModes \subseteq BOOLEAN
  /\ DiskErrors \in BOOLEAN

VARIABLES HeadIndex, Size, queueBody, \* ATArequestQueue
          drive,   \* the drive: its status and the sectors it still has to give
          intrq,   \* the drive's interrupt request, as a level
          call,    \* each process's last call of ATARead, and what it returned
          buffer   \* what its buffer holds

ataVars == <<HeadIndex, Size, queueBody, drive, intrq, call, buffer>>
vars    == <<schedVars, ataVars>>

ATALine == Line(ATA_INTERRUPT_NUM)

Indices   == 0 .. ATA_REQUEST_QUEUE_CAPACITY - 1
Zero      == -1 \* what the data port gives while the drive has no data
Torn      == -2 \* words of a sector whose first words an earlier read has taken

\* An entry of the ring, and one of the zeroed array that was never written.
Requests  == [lba : Lbas, SizeOfBytes : Sizes, process : Procs]
Unwritten == [lba |-> 0, SizeOfBytes |-> 0, process |-> 0]

\* "returned" is -1 for an error, and before the first call.
Calls  == [lba : Lbas \cup {0}, SizeOfBytes : Sizes \cup {0}, reading : BOOLEAN,
           returned : Sizes \cup {-1, 0}]
NoCall == [lba |-> 0, SizeOfBytes |-> 0, reading |-> FALSE, returned |-> -1]

Reading(p) == call[p].reading

-----------------------------------------------------------------------------
(***************************************************************************)
(* The request ring                                                        *)
(***************************************************************************)

\* Mutant: the end of the array is not wrapped around.
PushIndexNoWrap == IF HeadIndex + Size > ATA_REQUEST_QUEUE_CAPACITY - 1
                   THEN ATA_REQUEST_QUEUE_CAPACITY - 1 ELSE HeadIndex + Size

PushIndex == (HeadIndex + Size) % ATA_REQUEST_QUEUE_CAPACITY

\* Mutant: one slot too many is filled.
FullTooLate == Size = ATA_REQUEST_QUEUE_CAPACITY + 1

Full == Size = ATA_REQUEST_QUEUE_CAPACITY

ATARequestQueuePush(request) ==
  /\ Size' = Size + 1
  /\ queueBody' = [queueBody EXCEPT ![PushIndex] = request]
  /\ UNCHANGED HeadIndex

ATARequestQueueFront == queueBody[HeadIndex]

\* Mutant: the head is left where it is.
PopKeepsHead ==
  /\ HeadIndex' = HeadIndex
  /\ Size' = IF Size = 0 THEN 0 ELSE Size - 1
  /\ UNCHANGED queueBody

ATARequestQueuePop ==
  /\ HeadIndex' = IF Size = 0 THEN HeadIndex
                  ELSE (HeadIndex + 1) % ATA_REQUEST_QUEUE_CAPACITY
  /\ Size' = IF Size = 0 THEN 0 ELSE Size - 1
  /\ UNCHANGED queueBody

\* The slots in use, oldest first.
QueuedIndices == {(HeadIndex + i) % ATA_REQUEST_QUEUE_CAPACITY : i \in 0 .. Size - 1}

-----------------------------------------------------------------------------
(***************************************************************************)
(* The drive, in PIO mode.  "busy": BSY; "drq": a sector can be read from  *)
(* the data port, "taken" of its words have been; "err": the last command  *)
(* failed.                                                                 *)
(***************************************************************************)
NoCommand == [status |-> "idle", lba |-> 0, left |-> 0, taken |-> 0]

\* Mutant: a size that is a multiple of the sector size gets one sector more.
sectorCountOneMore(bytes) == bytes \div 512 + 1

\* Sectors of a request, and what the drive makes of the byte in its sector
\* count register: 0 stands for 256.
sectorCount(bytes) == bytes \div 512 + (IF bytes % 512 = 0 THEN 0 ELSE 1)
CountRegister(n)   == IF n % 256 = 0 THEN 256 ELSE n % 256

\* The words ATARead takes from the data port, and those of one sector.
words(bytes)   == (bytes + 1) \div 2
WordsPerSector == 256

\* The drive d after the command register is written: a command is not taken
\* while another one is in progress, or has words left.
ATASendRequest(d, request) ==
  IF d.status \in {"busy", "drq"} THEN d
  ELSE [status |-> "busy", lba |-> request.lba,
        left |-> CountRegister(sectorCount(request.SizeOfBytes)), taken |-> 0]

\* The sectors w words come from, counted from the one that is ready.
Touched(d, w) == (d.taken + w + WordsPerSector - 1) \div WordsPerSector

\* How many of them can be read without waiting: the one that is ready, and
\* those the drive makes ready in time.
InTime(d, w) == IF d.status = "drq" /\ w > 0
                THEN {k \in 1 .. Touched(d, w) : k <= d.left} ELSE {0}

\* The drive d once w words have been asked of its data port, k sectors in time.
AfterReading(d, w, k) ==
  LET end  == IF d.taken + w < WordsPerSector * k THEN d.taken + w ELSE WordsPerSector * k
      done == end \div WordsPerSector
  IN  CASE k = 0 -> d
        [] k > 0 /\ end % WordsPerSector # 0 ->
             [status |-> "drq", lba |-> d.lba + done, left |-> d.left - done,
              taken |-> end % WordsPerSector]
        [] k > 0 /\ end % WordsPerSector = 0 /\ done < d.left ->
             [status |-> "busy", lba |-> d.lba + done, left |-> d.left - done, taken |-> 0]
        [] OTHER -> NoCommand

\* The n sectors that end up in the buffer.
Data(d, n, k) ==
  [i \in 1 .. n |-> IF i > k THEN Zero ELSE IF d.taken # 0 THEN Torn ELSE d.lba + i - 1]

\* The drive is done with a sector, or fails, and requests an interrupt; the
\* controllers latch it if the level rises.
Raise ==
  /\ intrq' = TRUE
  /\ irr' = IF intrq THEN irr ELSE irr \cup {ATALine}

DriveAnswers ==
  /\ drive.status = "busy"
  /\ \/ drive' = [drive EXCEPT !.status = "drq"]
     \/ DiskErrors /\ drive' = [drive EXCEPT !.status = "err"]
  /\ Raise
  /\ UNCHANGED <<processList, pstate, pid, parent, currentProcess, resume, cpu,
                 hpetEnabled, isr, HeadIndex, Size, queueBody, call, buffer>>

-----------------------------------------------------------------------------
(***************************************************************************)
(* ATARead                                                                 *)
(***************************************************************************)

\* A call that returns before anything is queued.
ReadFull(lba, size) ==
  /\ Full
  /\ call' = [call EXCEPT ![currentProcess] =
                [lba |-> lba, SizeOfBytes |-> size, reading |-> FALSE, returned |-> -1]]
  /\ SyscallReturns
  /\ UNCHANGED <<processList, pstate, pid, parent, currentProcess, resume, cpu,
                 hpetEnabled, irr, HeadIndex, Size, queueBody, drive, intrq, buffer>>

\* The request goes into the ring, and to the drive if it is the only one.
Enqueue(lba, size) ==
  LET request == [lba |-> lba, SizeOfBytes |-> size, process |-> currentProcess]
  IN  /\ ~Full
      /\ ATARequestQueuePush(request)
      /\ IF Size = 0
         THEN drive' = ATASendRequest(drive, request) /\ intrq' = FALSE
         ELSE UNCHANGED <<drive, intrq>>
      /\ call' = [call EXCEPT ![currentProcess] =
                    [lba |-> lba, SizeOfBytes |-> size, reading |-> TRUE, returned |-> -1]]
      /\ buffer' = [buffer EXCEPT ![currentProcess] = <<>>]

ATARead(lba, size, enablePoll) ==
  /\ cpu = "task"
  /\ currentProcess \notin Busy
  /\ enablePoll \in PollModes
  /\ \/ ReadFull(lba, size)
     \/ /\ ~enablePoll
        /\ Enqueue(lba, size)
        /\ Schedule([pstate EXCEPT ![currentProcess] = "SLEEP"], "sleep")
        /\ UNCHANGED <<irr, isr>>
     \/ /\ enablePoll
        /\ Enqueue(lba, size)
        /\ cpu' = "ATAPollingUntilReady"
        /\ UNCHANGED <<processList, pstate, pid, parent, currentProcess, resume,
                       hpetEnabled, irr, isr>>

Return(value) ==
  call' = [call EXCEPT ![currentProcess].reading = FALSE,
                       ![currentProcess].returned = value]

(***************************************************************************)
(* The code of ATARead behind its wait: the status is read (which takes    *)
(* back the drive's interrupt request), the data goes to the buffer of the *)
(* request at the head, whoever made it, the request is popped and the next*)
(* one sent.  After an error nothing of this happens.                      *)
(***************************************************************************)
FinishWithError ==
  /\ drive.status = "err"
  /\ Return(-1)
  /\ intrq' = FALSE
  /\ UNCHANGED <<irr, HeadIndex, Size, queueBody, drive, buffer>>

\* Mutant: the request behind the one that was served is forgotten.
MoreToSendOffByOne == Size' > 1

MoreToSend == Size' >= 1

FinishWithData ==
  LET request == ATARequestQueueFront
      n       == sectorCount(request.SizeOfBytes)
      w       == words(request.SizeOfBytes)
      next    == queueBody[HeadIndex']
  IN  /\ drive.status # "err"
      /\ ATARequestQueuePop
      /\ \E k \in InTime(drive, w) :
           LET after == AfterReading(drive, w, k)
           IN  /\ buffer' = [buffer EXCEPT ![request.process] = Data(drive, n, k)]
               /\ irr' = IF k > 1 THEN irr \cup {ATALine} ELSE irr
               /\ IF MoreToSend
                  THEN drive' = ATASendRequest(after, next) /\ intrq' = FALSE
                  ELSE drive' = after /\ intrq' = (k > 1)
      /\ Return(request.SizeOfBytes)

Finish == FinishWithError \/ FinishWithData

\* The process that slept in ATARead is switched to again.
ATAReadWoken ==
  /\ cpu = "resumed"
  /\ resume[currentProcess] = "sleep"
  /\ isr' = ServiceAfter("sleep")
  /\ resume' = [resume EXCEPT ![currentProcess] = "none"]

\* The loop of ATAPollingUntilReady sees data or an error.
ATAPollingUntilReady ==
  /\ cpu = "ATAPollingUntilReady"
  /\ drive.status \in {"drq", "err"}
  /\ SyscallReturns
  /\ UNCHANGED resume

ATAReadReturns ==
  /\ ATAReadWoken \/ ATAPollingUntilReady
  /\ Finish
  /\ cpu' = "task"
  /\ UNCHANGED <<processList, pstate, pid, parent, currentProcess, hpetEnabled>>

\* Mutant: the handler wakes the process of the newest request.
WakesNewest == queueBody[(HeadIndex + Size - 1) % ATA_REQUEST_QUEUE_CAPACITY]

Woken == ATARequestQueueFront

\* The handler looks at the head of the ring, which may be a slot whose request
\* is gone or that was never used; its process is made RUNNING all the same.
ATAHandler ==
  /\ Acknowledge(ATALine)
  /\ pstate' = [p \in Procs |-> IF p = Woken.process THEN "RUNNING" ELSE pstate[p]]
  /\ isr' = SendEndOfInterrupt(InServiceWith(ATALine), ATA_INTERRUPT_NUM)
  /\ UNCHANGED <<processList, pid, parent, currentProcess, resume, cpu, hpetEnabled,
                 ataVars>>

\* Any other process that is switched to: Resume of module Scheduler.
ResumeElsewhere == resume[currentProcess] # "sleep" /\ Resume

-----------------------------------------------------------------------------
AtaInit ==
  /\ Init
  /\ HeadIndex = 0 /\ Size = 0
  /\ queueBody = [i \in Indices |-> Unwritten]
  /\ drive = NoCommand
  /\ intrq = FALSE
  /\ call = [p \in Procs |-> NoCall]
  /\ buffer = [p \in Procs |-> <<>>]

AtaNext ==
  \/ /\ \/ Tick
        \/ KeyPress
        \/ HPETHandler
        \/ doKBCInterrupt
        \/ ResumeElsewhere
        \/ \E child \in Procs : sysFork(child) \/ KernelThread(child)
        \/ SchedulerStart
        \/ sysExit
     /\ UNCHANGED ataVars
  \/ DriveAnswers
  \/ ATAHandler
  \/ \E lba \in Lbas, size \in Sizes, enablePoll \in BOOLEAN : ATARead(lba, size, enablePoll)
  \/ ATAReadReturns

AtaSpec == AtaInit /\ [][AtaNext]_vars

\* As in Scheduler, and a drive that has taken a command answers it.
AtaFairness ==
  /\ WF_vars(SchedulerStart /\ UNCHANGED ataVars)
  /\ WF_vars(Tick /\ UNCHANGED ataVars)
  /\ WF_vars(HPETHandler /\ UNCHANGED ataVars)
  /\ WF_vars(ResumeElsewhere /\ UNCHANGED ataVars)
  /\ WF_vars(ATAReadReturns)
  /\ WF_vars(DriveAnswers)
  /\ SF_vars(ATAHandler)

(***************************************************************************)
(* The timer and the keyboard leave time between their interrupts (5 ms,   *)
(* against the length of a handler): the line of the drive, of a lower     *)
(* priority, is presented again and again while it is latched.             *)
(***************************************************************************)
RoomBetweenInterrupts == []<>(cpu = "task" /\ irr \cap {0, 1} = {})

FairAtaSpec == AtaSpec /\ AtaFairness /\ RoomBetweenInterrupts

-----------------------------------------------------------------------------
(***************************************************************************)
(* Properties                                                              *)
(***************************************************************************)

\* The scheduler's part of the state as module Scheduler sees it: it knows no
\* line of the drive, and a process that polls is in its own code.
Sched ==
  INSTANCE Scheduler WITH
    irr <- irr \ {ATALine},
    cpu <- IF cpu = "ATAPollingUntilReady" THEN "task" ELSE cpu

AtaTypeOK ==
  /\ Sched!TypeOK
  /\ HeadIndex \in Indices
  /\ Size \in 0 .. ATA_REQUEST_QUEUE_CAPACITY
  /\ queueBody \in [Indices -> Requests \cup {Unwritten}]
  /\ drive \in [status : {"idle", "busy", "drq", "err"}, lba : Nat, left : 0 .. 256,
                taken : 0 .. WordsPerSector - 1]
  /\ intrq \in BOOLEAN
  /\ call \in [Procs -> Calls]
  /\ buffer \in [Procs -> Seq(Nat \cup {Zero, Torn})]

\* The sectors a read of "size" bytes at lba asks for.
Sectors(lba, size) == [i \in 1 .. sectorCount(size) |-> lba + i - 1]

\* A read that reports success has filled the caller's own buffer with the
\* sectors the caller asked for, whoever else reads meanwhile (ATARead takes
\* the buffer and the size from the head of the ring, not from its caller).
ReadDeliversItsData ==
  \A p \in Procs :
    ~Reading(p) /\ call[p].returned # -1 =>
      /\ call[p].returned = call[p].SizeOfBytes
      /\ buffer[p] = Sectors(call[p].lba, call[p].SizeOfBytes)

\* The ring holds one request of each process that is inside ATARead, and no
\* other: none is lost, left behind or overwritten when the ring wraps.
RingHoldsTheReaders ==
  /\ \A p \in Procs : Reading(p) => \E i \in QueuedIndices : queueBody[i].process = p
  /\ \A i \in QueuedIndices : Reading(queueBody[i].process)
  /\ \A i, j \in QueuedIndices : queueBody[i].process = queueBody[j].process => i = j

\* No wakeup is lost: while the process whose request is at the head sleeps,
\* the drive is working on that very request, or its interrupt is latched.
SleeperWillBeWoken ==
  Size > 0 /\ pstate[ATARequestQueueFront.process] = "SLEEP" =>
    /\ drive.status = "busy" \/ ATALine \in irr
    /\ drive.lba = ATARequestQueueFront.lba

HandlerRuns == ATALine \in irr /\ ATALine \notin irr'
HeadIsDone  ==
  /\ Size > 0
  /\ drive = [status |-> "drq", lba |-> ATARequestQueueFront.lba, left |-> 1, taken |-> 0]
  /\ pstate[ATARequestQueueFront.process] = "SLEEP"

\* ATAHandler is the "interrupt handler at the end of a read or write"
\* (ata.c:78): when it runs, the request at the head is the one that ended,
\* all of its data is there, and its process is asleep.
InterruptMeansHeadIsDone == [][HandlerRuns => HeadIsDone]_vars

\* Every read returns to its caller.
EveryReadReturns == \A p \in Procs : Reading(p) ~> ~Reading(p)

\* "Requests are issued according to the contents of the queue" (ata.c:203):
\* a ring that holds a request does not stay without a command at the drive.
QueueIsServed == Size > 0 ~> (Size = 0 \/ drive.status = "busy")

\* The driver uses the scheduler as module Scheduler allows: only the current
\* process falls asleep, only sleepers are woken, and each ATARead leaves the
\* interrupt controllers as sleep() promises.
ImplementsScheduler == Sched!Spec
=============================================================================
