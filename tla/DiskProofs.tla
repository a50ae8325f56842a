------------------------------ MODULE DiskProofs ------------------------------
(***************************************************************************)
(* The disk driver of Ata and the file system of Files on top of it.       *)
(*                                                                         *)
(* Of the driver: its types for every choice of the constants, the request *)
(* ring when reads either all sleep or all poll, the data and the wakeups  *)
(* of reads of one sector, and its use of the scheduler.                   *)
(*                                                                         *)
(* Of the file system: its types, its use of the driver and the scheduler, *)
(* where the parts of a disk lie and what a search of the root directory   *)
(* finds, and from these that OPEN and READ, which sleep, and EXEC, which  *)
(* polls, get the file their name means.                                   *)
(***************************************************************************)
EXTENDS Files, ArithmeticProofs, FiniteSetTheorems, TLAPS

\* The theorems about Scheduler, for the part of the state Ata maps to it.
SP ==
  INSTANCE SchedulerProofs WITH
    irr <- irr \ {ATALine},
    cpu <- IF cpu = "ATAPollingUntilReady" THEN "task" ELSE cpu

-----------------------------------------------------------------------------
(***************************************************************************)
(* Arithmetic                                                              *)
(***************************************************************************)
Capacity == ATA_REQUEST_QUEUE_CAPACITY

LEMMA CapacityType == Capacity \in Nat \ {0}
BY AtaAssumption DEF Capacity

LEMMA ModRange ==
  ASSUME NEW c \in Nat \ {0}, NEW x \in Nat
  PROVE  x % c \in 0 .. c - 1
OBVIOUS

\* A sum of two indices runs past the end of the ring at most once.
LEMMA ModSum ==
  ASSUME NEW c \in Nat \ {0}, NEW x \in 0 .. c - 1, NEW y \in 0 .. c - 1
  PROVE  (x + y) % c = IF x + y < c THEN x + y ELSE x + y - c
OBVIOUS

LEMMA Line14 == ATALine = 14
BY DEF ATALine, Line, ATA_INTERRUPT_NUM, PIC_MASTER_INTERRUPT_NUM

-----------------------------------------------------------------------------
(***************************************************************************)
(* Types.  What AtaTypeOK says, without the instance of Scheduler; and that*)
(* the current process is in the ring, as ListAdd needs it to be.          *)
(***************************************************************************)
Polling == cpu = "ATAPollingUntilReady"

Drives == [status : {"idle", "busy", "drq", "err"}, lba : Nat, left : 0 .. 256,
           taken : 0 .. WordsPerSector - 1]

SchedulerTypes ==
  /\ irr \subseteq Lines /\ isr \subseteq Lines
  /\ processList \in Seq(Procs)
  /\ pstate \in [Procs -> States]
  /\ pid \in [Procs -> Nat]
  /\ parent \in [Procs -> Procs \cup {0}]
  /\ currentProcess \in Procs
  /\ resume \in [Procs -> Points]
  /\ cpu \in CpuModes \cup {"ATAPollingUntilReady"}
  /\ hpetEnabled \in BOOLEAN

DriverTypes ==
  /\ HeadIndex \in Indices
  /\ Size \in 0 .. Capacity
  /\ queueBody \in [Indices -> Requests \cup {Unwritten}]
  /\ drive \in Drives
  /\ intrq \in BOOLEAN
  /\ call \in [Procs -> Calls]
  /\ buffer \in [Procs -> Seq(Nat \cup {Zero, Torn})]

CurrentIsInRing == \E i \in DOMAIN processList : processList[i] = currentProcess

Types == SchedulerTypes /\ DriverTypes /\ CurrentIsInRing

LEMMA TypesAreTypeOK == SchedulerTypes /\ DriverTypes <=> AtaTypeOK
<1>1. irr \subseteq Lines <=> irr \ {ATALine} \subseteq Lines
  BY Line14 DEF Lines
<1>2. cpu \in CpuModes \cup {"ATAPollingUntilReady"}
        <=> (IF cpu = "ATAPollingUntilReady" THEN "task" ELSE cpu) \in CpuModes
  BY DEF CpuModes
<1>3. SchedulerTypes <=> Sched!TypeOK
  BY <1>1, <1>2
  DEF SchedulerTypes, Sched!TypeOK, Sched!PicTypeOK, Sched!Lines, Sched!States, Sched!Points,
      Sched!Resumable, Sched!CpuModes, Lines, States, Points, Resumable, CpuModes
<1> QED
  BY <1>3 DEF AtaTypeOK, DriverTypes, Drives, Capacity

\* Schedule passes on to a process of the ring, or to nobody.
LEMMA ScheduleTypes ==
  ASSUME Types, NEW st \in [Procs -> States], NEW point \in Points, Schedule(st, point),
         irr' \subseteq Lines, isr' \subseteq Lines
  PROVE  SchedulerTypes' /\ CurrentIsInRing'
<1>1. currentProcess' \in Procs /\ CurrentIsInRing'
  BY DEF Types, SchedulerTypes, CurrentIsInRing, Schedule, FindNextTask
<1> QED
  BY <1>1 DEF Types, SchedulerTypes, Schedule, CpuModes

\* A list with an element more behind one of its own.
LEMMA ListAddKeeps ==
  ASSUME NEW s \in Seq(Procs), NEW added \in Procs, NEW prev \in Procs,
         \E i \in DOMAIN s : s[i] = prev
  PROVE  /\ ListAdd(s, added, prev) \in Seq(Procs)
         /\ \E i \in DOMAIN ListAdd(s, added, prev) : ListAdd(s, added, prev)[i] = prev
<1> DEFINE k == Position(s, prev)
<1>1. k \in 1 .. Len(s) /\ s[k] = prev
  BY DEF Position
<1>2. \A i \in 1 .. Len(s) + 1 : ListAdd(s, added, prev)[i] \in Procs
  BY <1>1 DEF ListAdd
<1>3. ListAdd(s, added, prev) \in [1 .. Len(s) + 1 -> Procs]
  BY <1>2 DEF ListAdd
<1>4. ListAdd(s, added, prev)[k] = prev /\ k \in DOMAIN ListAdd(s, added, prev)
  BY <1>1 DEF ListAdd
<1> QED
  BY <1>3, <1>4

LEMMA ForkTypes ==
  ASSUME Types, NEW child \in Procs, DoFork(child), isr' \subseteq Lines,
         UNCHANGED <<currentProcess, cpu, hpetEnabled, irr>>
  PROVE  SchedulerTypes' /\ CurrentIsInRing'
<1>1. processList' \in Seq(Procs) /\ CurrentIsInRing'
  BY ListAddKeeps DEF Types, SchedulerTypes, CurrentIsInRing, DoFork, CopyProcess
<1>2. pid' \in [Procs -> Nat] /\ pstate' \in [Procs -> States]
  BY DEF Types, SchedulerTypes, DoFork, CopyProcess, NewProcessId
<1> QED
  BY <1>1, <1>2 DEF Types, SchedulerTypes, DoFork, CopyProcess, Points, Resumable

LEMMA SizesAreNumbers ==
  ASSUME NEW bytes \in Nat
  PROVE  sectorCount(bytes) \in Nat /\ words(bytes) \in Nat
BY DEF sectorCount, words

LEMMA RequestFields ==
  ASSUME NEW request \in Requests \cup {Unwritten}
  PROVE  /\ request.lba \in Nat /\ request.lba \in Lbas \cup {0}
         /\ request.SizeOfBytes \in Nat /\ request.SizeOfBytes \in Sizes \cup {0}
         /\ request.process \in Procs \cup {0}
<1>1. CASE request \in Requests
  BY <1>1, AtaAssumption DEF Requests
<1>2. CASE request = Unwritten
  BY <1>2 DEF Unwritten
<1> QED
  BY <1>1, <1>2

LEMMA CountType ==
  ASSUME NEW n \in Nat
  PROVE  CountRegister(n) \in 1 .. 256
BY DEF CountRegister

\* What the drive becomes when a command is sent to it.
LEMMA SendTypes ==
  ASSUME NEW d \in Drives, NEW request \in Requests \cup {Unwritten}
  PROVE  ATASendRequest(d, request) \in Drives
<1>1. request.lba \in Nat /\ request.SizeOfBytes \in Nat
  BY RequestFields
<1>2. CountRegister(sectorCount(request.SizeOfBytes)) \in 1 .. 256
  BY <1>1, SizesAreNumbers, CountType
<1> QED
  BY <1>1, <1>2 DEF ATASendRequest, Drives, WordsPerSector

\* And when w words have been read from it.
LEMMA ReadTypes ==
  ASSUME NEW d \in Drives, NEW w \in Nat, NEW k \in InTime(d, w)
  PROVE  k \in Nat /\ AfterReading(d, w, k) \in Drives
<1> DEFINE end  == IF d.taken + w < WordsPerSector * k THEN d.taken + w
                   ELSE WordsPerSector * k
           done == end \div WordsPerSector
<1>1. d.lba \in Nat /\ d.left \in 0 .. 256 /\ d.taken \in 0 .. 255
  BY DEF Drives, WordsPerSector
<1>2. CASE k = 0
  BY <1>2 DEF AfterReading
<1>3. CASE k # 0
  <2>1. k \in 1 .. d.left
    BY <1>1, <1>3 DEF InTime, Touched, WordsPerSector
  <2>2. end \in Nat /\ end <= 256 * k
    BY <1>1, <2>1 DEF WordsPerSector
  <2>3. done \in Nat /\ done <= k /\ end % 256 \in 0 .. 255
    BY <2>1, <2>2 DEF WordsPerSector
  <2>4. AfterReading(d, w, k) \in
          {[status |-> "drq", lba |-> d.lba + done, left |-> d.left - done,
            taken |-> end % 256],
           [status |-> "busy", lba |-> d.lba + done, left |-> d.left - done, taken |-> 0],
           NoCommand}
    BY <2>1, <2>3 DEF AfterReading, WordsPerSector
  <2> HIDE DEF end, done
  <2>5. d.lba + done \in Nat /\ d.left - done \in 0 .. 256
    <3>1. done \in Nat /\ done <= d.left
      BY <1>1, <2>1, <2>3
    <3>2. \A a \in Nat, n \in 0 .. 256, i \in Nat :
            i <= n => a + i \in Nat /\ n - i \in 0 .. 256
      OBVIOUS
    <3> QED
      BY Zenon, <1>1, <3>1, <3>2
  <2>6. AfterReading(d, w, k) \in Drives
    BY <2>3, <2>4, <2>5 DEF Drives, NoCommand, WordsPerSector
  <2> QED
    BY <1>1, <2>1, <2>6
<1> QED
  BY <1>2, <1>3

LEMMA DataTypes ==
  ASSUME NEW d \in Drives, NEW n \in Nat, NEW k \in Nat
  PROVE  Data(d, n, k) \in Seq(Nat \cup {Zero, Torn})
<1>1. \A i \in 1 .. n : Data(d, n, k)[i] \in Nat \cup {Zero, Torn}
  BY DEF Data, Drives
<1>2. Data(d, n, k) \in [1 .. n -> Nat \cup {Zero, Torn}]
  BY <1>1 DEF Data
<1> QED
  BY <1>2

-----------------------------------------------------------------------------
(***************************************************************************)
(* Every step keeps the types.                                             *)
(***************************************************************************)
LEMMA InterruptTypes ==
  ASSUME Types, NEW l \in Lines, NEW n
  PROVE  /\ InServiceWith(l) \subseteq Lines
         /\ SendEndOfInterrupt(InServiceWith(l), n) \subseteq Lines
         /\ SendEndOfInterrupt(isr, n) \subseteq Lines
<1>1. isr \subseteq Lines /\ MasterLine(l) \in Lines
  BY DEF Types, SchedulerTypes, MasterLine, Lines, Cascade
<1> QED
  BY <1>1 DEF InServiceWith, SendEndOfInterrupt

\* The steps of Scheduler that Ata takes over.
LEMMA SchedulerStepTypes ==
  ASSUME Types,
         \/ Tick \/ KeyPress \/ HPETHandler \/ doKBCInterrupt \/ ResumeElsewhere
         \/ SchedulerStart \/ sysExit
         \/ \E child \in Procs : sysFork(child) \/ KernelThread(child)
  PROVE  SchedulerTypes' /\ CurrentIsInRing'
<1> USE DEF Types
<1>1. CASE Tick \/ KeyPress
  <2>1. 0 \in Lines /\ 1 \in Lines
    BY DEF Lines
  <2>2. irr' \subseteq Lines
    BY <1>1, <2>1 DEF Tick, KeyPress, SchedulerTypes
  <2> QED
    BY <1>1, <2>2 DEF Tick, KeyPress, SchedulerTypes, CurrentIsInRing
<1>2. CASE HPETHandler
  <2>1. irr' \subseteq Lines /\ isr' \subseteq Lines
    <3>1. 0 \in Lines
      BY DEF Lines
    <3> QED
      BY <1>2, <3>1 DEF HPETHandler, Acknowledge, SchedulerTypes, InServiceWith, MasterLine
  <2>2. Schedule(pstate, "HPETHandler") /\ "HPETHandler" \in Points
    BY <1>2 DEF HPETHandler, Points, Resumable
  <2> QED
    BY <2>1, <2>2, ScheduleTypes DEF SchedulerTypes
<1>3. CASE doKBCInterrupt
  <2>1. isr' \subseteq Lines /\ irr' \subseteq Lines
    <3>1. 1 \in Lines
      BY DEF Lines
    <3> QED
      BY <1>3, <3>1, InterruptTypes DEF doKBCInterrupt, Acknowledge, SchedulerTypes
  <2> QED
    BY <1>3, <2>1 DEF doKBCInterrupt, SchedulerTypes, CurrentIsInRing
<1>4. CASE ResumeElsewhere
  <2>1. isr' \subseteq Lines
    BY <1>4 DEF ResumeElsewhere, Resume, ServiceAfter, SendEndOfInterrupt, SchedulerTypes
  <2> QED
    BY <1>4, <2>1 DEF ResumeElsewhere, Resume, SchedulerTypes, CurrentIsInRing, CpuModes, Points
<1>5. CASE SchedulerStart
  BY <1>5 DEF SchedulerStart, HPETStartPeriodicTimer, SchedulerTypes, CurrentIsInRing
<1>6. CASE sysExit
  <2>1. [pstate EXCEPT ![currentProcess] = "ZOMBIE"] \in [Procs -> States]
        /\ "sysExit" \in Points
    BY DEF SchedulerTypes, States, Points
  <2>2. irr' \subseteq Lines /\ isr' \subseteq Lines
    BY <1>6 DEF sysExit, SchedulerTypes
  <2> QED
    BY <1>6, <2>1, <2>2, ScheduleTypes DEF sysExit, ExitState
<1>7. ASSUME NEW child \in Procs, sysFork(child) \/ KernelThread(child)
      PROVE  SchedulerTypes' /\ CurrentIsInRing'
  <2>1. isr' \subseteq Lines
    BY <1>7 DEF sysFork, KernelThread, SyscallReturns, SendEndOfInterrupt, SchedulerTypes
  <2> QED
    BY <1>7, <2>1, ForkTypes DEF sysFork, KernelThread
<1> QED
  BY <1>1, <1>2, <1>3, <1>4, <1>5, <1>6, <1>7

LEMMA SameScheduler ==
  ASSUME Types,
         UNCHANGED <<processList, pstate, pid, parent, currentProcess, hpetEnabled>>,
         irr' \subseteq Lines, isr' \subseteq Lines, resume' \in [Procs -> Points],
         cpu' \in CpuModes \cup {"ATAPollingUntilReady"}
  PROVE  SchedulerTypes' /\ CurrentIsInRing'
BY DEF Types, SchedulerTypes, CurrentIsInRing

LEMMA DriveAnswersTypes ==
  ASSUME Types, DriveAnswers
  PROVE  Types'
<1>1. irr' \subseteq Lines /\ isr' \subseteq Lines
  <2>1. 14 \in Lines
    BY DEF Lines
  <2> QED
    BY <2>1, Line14 DEF Types, SchedulerTypes, DriveAnswers, Raise
<1>2. SchedulerTypes' /\ CurrentIsInRing'
  BY <1>1, SameScheduler DEF Types, SchedulerTypes, DriveAnswers
<1>3. drive' \in Drives
  <2>1. \A s \in {"drq", "err"} : [drive EXCEPT !.status = s] \in Drives
    BY DEF Types, DriverTypes, Drives
  <2> QED
    BY <2>1 DEF DriveAnswers
<1> QED
  BY <1>2, <1>3 DEF Types, DriverTypes, DriveAnswers, Raise

LEMMA HandlerTypes ==
  ASSUME Types, ATAHandler
  PROVE  Types'
<1>1. irr' \subseteq Lines /\ isr' \subseteq Lines
  <2>1. 14 \in Lines
    BY DEF Lines
  <2> QED
    BY <2>1, Line14, InterruptTypes DEF Types, SchedulerTypes, ATAHandler, Acknowledge
<1>2. pstate' \in [Procs -> States]
  BY DEF Types, SchedulerTypes, ATAHandler, States
<1> QED
  BY <1>1, <1>2
  DEF Types, SchedulerTypes, DriverTypes, CurrentIsInRing, ATAHandler, ataVars

LEMMA EnqueueTypes ==
  ASSUME Types, NEW lba \in Lbas, NEW size \in Sizes, Enqueue(lba, size)
  PROVE  DriverTypes'
<1> DEFINE request == [lba |-> lba, SizeOfBytes |-> size, process |-> currentProcess]
<1>1. request \in Requests
  BY DEF Types, SchedulerTypes, Requests
<1>2. HeadIndex' \in Indices /\ Size' \in 0 .. Capacity
  BY CapacityType DEF Enqueue, ATARequestQueuePush, Types, DriverTypes, Full, Capacity
<1>3. queueBody' \in [Indices -> Requests \cup {Unwritten}]
  BY <1>1 DEF Enqueue, ATARequestQueuePush, Types, DriverTypes
<1>4. drive' \in Drives /\ intrq' \in BOOLEAN
  BY <1>1, SendTypes DEF Enqueue, Types, DriverTypes
<1>5. call' \in [Procs -> Calls]
  <2>1. [lba |-> lba, SizeOfBytes |-> size, reading |-> TRUE, returned |-> -1] \in Calls
    BY DEF Calls
  <2> QED
    BY <2>1 DEF Enqueue, Types, DriverTypes
<1>6. buffer' \in [Procs -> Seq(Nat \cup {Zero, Torn})]
  <2>1. <<>> \in Seq(Nat \cup {Zero, Torn})
    OBVIOUS
  <2> QED
    BY <2>1 DEF Enqueue, Types, DriverTypes
<1> QED
  BY <1>2, <1>3, <1>4, <1>5, <1>6 DEF DriverTypes

LEMMA ATAReadTypes ==
  ASSUME Types, NEW lba \in Lbas, NEW size \in Sizes, NEW enablePoll \in BOOLEAN,
         ATARead(lba, size, enablePoll)
  PROVE  Types'
<1>1. CASE ReadFull(lba, size)
  <2>1. [lba |-> lba, SizeOfBytes |-> size, reading |-> FALSE, returned |-> -1] \in Calls
    BY DEF Calls
  <2>2. call' \in [Procs -> Calls]
    BY <1>1, <2>1 DEF ReadFull, Types, DriverTypes
  <2>3. isr' \subseteq Lines
    BY <1>1 DEF ReadFull, SyscallReturns, SendEndOfInterrupt, Types, SchedulerTypes
  <2>4. SchedulerTypes' /\ CurrentIsInRing'
    BY <1>1, <2>3, SameScheduler DEF ReadFull, Types, SchedulerTypes
  <2> QED
    BY <1>1, <2>2, <2>4 DEF ReadFull, Types, DriverTypes
<1>2. CASE /\ Enqueue(lba, size)
           /\ Schedule([pstate EXCEPT ![currentProcess] = "SLEEP"], "sleep")
           /\ UNCHANGED <<irr, isr>>
  <2>1. [pstate EXCEPT ![currentProcess] = "SLEEP"] \in [Procs -> States]
        /\ "sleep" \in Points
    BY DEF Types, SchedulerTypes, States, Points, Resumable
  <2>2. irr' \subseteq Lines /\ isr' \subseteq Lines
    BY <1>2 DEF Types, SchedulerTypes
  <2>3. SchedulerTypes' /\ CurrentIsInRing'
    BY <1>2, <2>1, <2>2, ScheduleTypes
  <2> QED
    BY <1>2, <2>3, EnqueueTypes DEF Types
<1>3. CASE /\ Enqueue(lba, size)
           /\ cpu' = "ATAPollingUntilReady"
           /\ UNCHANGED <<processList, pstate, pid, parent, currentProcess, resume,
                          hpetEnabled, irr, isr>>
  <2>1. SchedulerTypes' /\ CurrentIsInRing'
    BY <1>3, SameScheduler DEF Types, SchedulerTypes
  <2> QED
    BY <1>3, <2>1, EnqueueTypes DEF Types
<1> QED
  BY <1>1, <1>2, <1>3 DEF ATARead

LEMMA PopTypes ==
  ASSUME Types, ATARequestQueuePop
  PROVE  HeadIndex' \in Indices /\ Size' \in 0 .. Capacity
<1>1. CASE Size = 0
  BY <1>1 DEF ATARequestQueuePop, Types, DriverTypes
<1>2. CASE Size # 0
  <2>1. HeadIndex + 1 \in Nat
    BY DEF Types, DriverTypes, Indices
  <2>2. HeadIndex' \in Indices
    BY <1>2, <2>1, CapacityType, ModRange DEF ATARequestQueuePop, Indices, Capacity
  <2> QED
    BY <1>2, <2>2, CapacityType DEF ATARequestQueuePop, Types, DriverTypes
<1> QED
  BY <1>1, <1>2

LEMMA ReturnTypes ==
  ASSUME Types, NEW value \in Sizes \cup {-1, 0}, Return(value)
  PROVE  call' \in [Procs -> Calls]
<1>1. call[currentProcess] \in Calls
  BY DEF Types, SchedulerTypes, DriverTypes
<1>2. [call[currentProcess] EXCEPT !.reading = FALSE, !.returned = value] \in Calls
  BY <1>1 DEF Calls
<1>3. call' = [call EXCEPT ![currentProcess] =
                [call[currentProcess] EXCEPT !.reading = FALSE, !.returned = value]]
  BY <1>1 DEF Return, Types, SchedulerTypes, DriverTypes, Calls
<1> QED
  BY <1>2, <1>3 DEF Types, DriverTypes

LEMMA FinishTypes ==
  ASSUME Types, Finish
  PROVE  irr' \subseteq Lines /\ DriverTypes'
<1>1. CASE FinishWithError
  <2>1. call' \in [Procs -> Calls]
    BY <1>1, ReturnTypes DEF FinishWithError
  <2> QED
    BY <1>1, <2>1 DEF FinishWithError, Types, SchedulerTypes, DriverTypes
<1>2. CASE FinishWithData
  <2> DEFINE request == ATARequestQueueFront
             w       == words(request.SizeOfBytes)
             n       == sectorCount(request.SizeOfBytes)
             next    == queueBody[HeadIndex']
  <2>1. HeadIndex' \in Indices /\ Size' \in 0 .. Capacity /\ queueBody' = queueBody
    BY <1>2, PopTypes DEF FinishWithData, ATARequestQueuePop
  <2>2. request \in Requests \cup {Unwritten} /\ next \in Requests \cup {Unwritten}
    BY <2>1 DEF Types, DriverTypes, ATARequestQueueFront
  <2>3. w \in Nat /\ n \in Nat /\ request.SizeOfBytes \in Sizes \cup {-1, 0}
    BY <2>2, RequestFields, SizesAreNumbers
  <2>4. Return(request.SizeOfBytes)
    BY <1>2 DEF FinishWithData
  <2>5. call' \in [Procs -> Calls]
    BY <2>3, <2>4, ReturnTypes
  <2>6. PICK k \in InTime(drive, w) :
          /\ buffer' = [buffer EXCEPT ![request.process] = Data(drive, n, k)]
          /\ irr' = IF k > 1 THEN irr \cup {ATALine} ELSE irr
          /\ IF MoreToSend
             THEN drive' = ATASendRequest(AfterReading(drive, w, k), next) /\ intrq' = FALSE
             ELSE drive' = AfterReading(drive, w, k) /\ intrq' = (k > 1)
    BY <1>2 DEF FinishWithData
  <2>7. drive \in Drives
    BY DEF Types, DriverTypes
  <2> HIDE DEF request, w, n, next
  <2>8. k \in Nat /\ AfterReading(drive, w, k) \in Drives
    <3>1. k \in InTime(drive, w)
      BY <2>6
    <3> QED
      BY <2>3, <2>7, <3>1, ReadTypes
  <2>9. drive' \in Drives
    <3>1. ATASendRequest(AfterReading(drive, w, k), next) \in Drives
      BY <2>2, <2>8, SendTypes
    <3> QED
      BY <2>6, <2>8, <3>1
  <2>12. intrq' \in BOOLEAN
    <3>1. (k > 1) \in BOOLEAN
      BY <2>8
    <3> QED
      BY <2>6, <3>1, Zenon
  <2>10. buffer' \in [Procs -> Seq(Nat \cup {Zero, Torn})]
    <3>1. Data(drive, n, k) \in Seq(Nat \cup {Zero, Torn})
      BY <2>3, <2>7, <2>8, DataTypes
    <3> QED
      BY <2>6, <3>1 DEF Types, DriverTypes
  <2>11. irr' \subseteq Lines
    <3>1. 14 \in Lines
      BY DEF Lines
    <3> QED
      BY <2>6, <3>1, Line14 DEF Types, SchedulerTypes
  <2> QED
    BY <2>1, <2>5, <2>9, <2>12, <2>10, <2>11 DEF Types, DriverTypes
<1> QED
  BY <1>1, <1>2 DEF Finish

LEMMA ReturnsTypes ==
  ASSUME Types, ATAReadReturns
  PROVE  Types'
<1>1. isr' \subseteq Lines /\ resume' \in [Procs -> Points]
  BY DEF ATAReadReturns, ATAReadWoken, ATAPollingUntilReady, ServiceAfter, SyscallReturns,
         SendEndOfInterrupt, Types, SchedulerTypes, Points
<1>2. irr' \subseteq Lines /\ DriverTypes'
  BY FinishTypes DEF ATAReadReturns
<1>3. SchedulerTypes' /\ CurrentIsInRing'
  BY <1>1, <1>2, SameScheduler DEF ATAReadReturns, CpuModes
<1> QED
  BY <1>2, <1>3 DEF Types

LEMMA StepKeepsTypes ==
  ASSUME Types, [AtaNext]_vars
  PROVE  Types'
<1>1. ASSUME \/ Tick \/ KeyPress \/ HPETHandler \/ doKBCInterrupt \/ ResumeElsewhere
             \/ SchedulerStart \/ sysExit
             \/ \E child \in Procs : sysFork(child) \/ KernelThread(child),
             UNCHANGED ataVars
      PROVE  Types'
  <2>1. SchedulerTypes' /\ CurrentIsInRing'
    BY <1>1, SchedulerStepTypes
  <2> QED
    BY <1>1, <2>1 DEF Types, DriverTypes, ataVars
<1>2. CASE UNCHANGED vars
  BY <1>2 DEF Types, SchedulerTypes, DriverTypes, CurrentIsInRing, vars, schedVars, ataVars
<1> QED
  BY <1>1, <1>2, DriveAnswersTypes, HandlerTypes, ATAReadTypes, ReturnsTypes DEF AtaNext

LEMMA InitTypes == AtaInit => Types
<1> SUFFICES ASSUME AtaInit
             PROVE  Types
  OBVIOUS
<1>1. NoCall \in Calls
  BY DEF NoCall, Calls
<1>2. NoCommand \in Drives
  BY DEF NoCommand, Drives, WordsPerSector
<1>3. 0 \in Indices /\ 0 \in 0 .. Capacity
  BY CapacityType DEF Indices, Capacity
<1>4. DriverTypes
  <2>1. <<>> \in Seq(Nat \cup {Zero, Torn})
    OBVIOUS
  <2>2. call \in [Procs -> Calls] /\ buffer \in [Procs -> Seq(Nat \cup {Zero, Torn})]
    BY <1>1, <2>1 DEF AtaInit
  <2>3. queueBody \in [Indices -> Requests \cup {Unwritten}]
    BY DEF AtaInit
  <2> QED
    BY <1>2, <1>3, <2>2, <2>3 DEF AtaInit, DriverTypes
<1>5. SchedulerTypes /\ CurrentIsInRing
  <2>1. processList \in Seq(Procs) /\ CurrentIsInRing
    <3>1. processList = <<InitProc>> /\ currentProcess = InitProc
      BY DEF AtaInit, Init
    <3>2. 1 \in DOMAIN <<InitProc>> /\ <<InitProc>>[1] = InitProc
      OBVIOUS
    <3> QED
      BY <3>1, <3>2, ProcsAssumption DEF CurrentIsInRing
  <2> QED
    BY <2>1, ProcsAssumption DEF AtaInit, Init, SchedulerTypes, States, Points, CpuModes
<1> QED
  BY <1>4, <1>5 DEF Types

LEMMA TypesInvariant == AtaSpec => []Types
BY InitTypes, StepKeepsTypes, PTL DEF AtaSpec

\* Every variable of the driver and of the scheduler under it stays in its type,
\* whatever the size of the ring, the sizes read, the errors of the drive and
\* the mask of the controllers.
THEOREM AtaTypeCorrect == AtaSpec => []AtaTypeOK
BY TypesInvariant, TypesAreTypeOK, PTL DEF Types

-----------------------------------------------------------------------------
(***************************************************************************)
(* The ring as a list of requests, the oldest first.                       *)
(***************************************************************************)
Entry(i) == queueBody[(HeadIndex + i) % Capacity]
Queue    == 0 .. Size - 1

LEMMA SlotsDiffer ==
  ASSUME Types, NEW i \in 0 .. Capacity - 1, NEW j \in 0 .. Capacity - 1
  PROVE  /\ (HeadIndex + i) % Capacity \in Indices
         /\ (HeadIndex + i) % Capacity = (HeadIndex + j) % Capacity => i = j
<1>1. HeadIndex \in 0 .. Capacity - 1 /\ Indices = 0 .. Capacity - 1
  BY DEF Types, DriverTypes, Indices, Capacity
<1>2. (HeadIndex + i) % Capacity =
        IF HeadIndex + i < Capacity THEN HeadIndex + i ELSE HeadIndex + i - Capacity
  BY <1>1, CapacityType, ModSum
<1>3. (HeadIndex + j) % Capacity =
        IF HeadIndex + j < Capacity THEN HeadIndex + j ELSE HeadIndex + j - Capacity
  BY <1>1, CapacityType, ModSum
<1> QED
  BY <1>1, <1>2, <1>3, CapacityType

LEMMA EntriesHaveTypes ==
  ASSUME Types, NEW i \in Queue
  PROVE  i \in 0 .. Capacity - 1 /\ Entry(i) \in Requests \cup {Unwritten}
<1>1. i \in 0 .. Capacity - 1
  BY CapacityType DEF Types, DriverTypes, Queue
<1> QED
  BY <1>1, SlotsDiffer DEF Entry, Types, DriverTypes

LEMMA FrontIsTheOldest ==
  ASSUME Types
  PROVE  ATARequestQueueFront = Entry(0)
<1>1. HeadIndex \in 0 .. Capacity - 1
  BY DEF Types, DriverTypes, Indices, Capacity
<1>2. (HeadIndex + 0) % Capacity = HeadIndex
  BY <1>1, CapacityType, ModSum
<1> QED
  BY <1>2 DEF ATARequestQueueFront, Entry

\* A push leaves the queued requests alone and adds one behind them.
LEMMA PushAppends ==
  ASSUME Types, ~Full, NEW request, ATARequestQueuePush(request)
  PROVE  /\ Size' = Size + 1
         /\ Queue' = Queue \cup {Size} /\ Size \notin Queue /\ Size \in Nat
         /\ \A i \in Queue : Entry(i)' = Entry(i)
         /\ \A n \in Nat : n = Size => Entry(n)' = request
         /\ \A i \in Indices : queueBody'[i] = request \/ queueBody'[i] = queueBody[i]
         /\ ATARequestQueueFront' = IF Size = 0 THEN request ELSE ATARequestQueueFront
<1>1. Size \in 0 .. Capacity - 1
  BY CapacityType DEF Types, DriverTypes, Full, Capacity
<1>2. Size' = Size + 1 /\ HeadIndex' = HeadIndex
      /\ queueBody' = [queueBody EXCEPT ![(HeadIndex + Size) % Capacity] = request]
  BY DEF ATARequestQueuePush, PushIndex, Capacity
<1>3. Queue' = Queue \cup {Size} /\ Size \notin Queue
  BY <1>1, <1>2 DEF Queue
<1>4. (HeadIndex + Size) % Capacity \in Indices /\ DOMAIN queueBody = Indices
  BY <1>1, SlotsDiffer DEF Types, DriverTypes
<1>5. ASSUME NEW i \in Queue
      PROVE  Entry(i)' = Entry(i)
  <2>1. i \in 0 .. Capacity - 1 /\ i # Size
    BY <1>3, EntriesHaveTypes
  <2>2. (HeadIndex + i) % Capacity # (HeadIndex + Size) % Capacity
        /\ (HeadIndex + i) % Capacity \in Indices
    BY <1>1, <2>1, SlotsDiffer
  <2> QED
    BY <1>2, <1>4, <2>2 DEF Entry, Capacity
<1>6. ASSUME NEW n \in Nat, n = Size
      PROVE  Entry(n)' = request
  BY <1>2, <1>4, <1>6 DEF Entry, Capacity
<1>7. \A i \in Indices : queueBody'[i] = request \/ queueBody'[i] = queueBody[i]
  BY <1>2, <1>4
<1>8. ATARequestQueueFront' = IF Size = 0 THEN request ELSE ATARequestQueueFront
  <2>1. HeadIndex \in Indices /\ 0 \in 0 .. Capacity - 1
    BY CapacityType DEF Types, DriverTypes
  <2>2. (HeadIndex + 0) % Capacity = HeadIndex
    BY <2>1, CapacityType, ModSum DEF Indices, Capacity
  <2>3. Size # 0 => (HeadIndex + Size) % Capacity # HeadIndex
    BY <1>1, <2>1, <2>2, SlotsDiffer
  <2>4. Size = 0 => (HeadIndex + Size) % Capacity = HeadIndex
    BY <2>2
  <2> QED
    BY <1>2, <1>4, <2>1, <2>3, <2>4 DEF ATARequestQueueFront
<1> QED
  BY <1>1, <1>2, <1>3, <1>5, <1>6, <1>7, <1>8

\* A pop takes the oldest request and moves the others up.
LEMMA PopShifts ==
  ASSUME Types, Size > 0, ATARequestQueuePop
  PROVE  /\ Size' = Size - 1 /\ queueBody' = queueBody
         /\ \A i \in Queue' : i \in Nat /\ i + 1 \in Queue /\ Entry(i)' = Entry(i + 1)
         /\ \A i \in Queue : i = 0 \/ (i - 1 \in Queue' /\ Entry(i - 1)' = Entry(i))
         /\ 0 \in Queue /\ 0 \notin {i + 1 : i \in Queue'}
<1>1. Size \in 1 .. Capacity /\ HeadIndex \in 0 .. Capacity - 1
  BY CapacityType DEF Types, DriverTypes, Indices, Capacity
<1>2. Size' = Size - 1 /\ HeadIndex' = (HeadIndex + 1) % Capacity /\ queueBody' = queueBody
  BY <1>1 DEF ATARequestQueuePop, Capacity
<1>3. HeadIndex' = IF HeadIndex + 1 < Capacity THEN HeadIndex + 1 ELSE 0
  <2>1. CASE Capacity = 1
    BY <1>1, <1>2, <2>1
  <2>2. CASE Capacity # 1
    <3>1. 1 \in 0 .. Capacity - 1
      BY <2>2, CapacityType
    <3>2. (HeadIndex + 1) % Capacity =
            IF HeadIndex + 1 < Capacity THEN HeadIndex + 1 ELSE HeadIndex + 1 - Capacity
      BY <1>1, <3>1, CapacityType, ModSum
    <3> QED
      BY <1>1, <1>2, <3>2, CapacityType
  <2> QED
    BY <2>1, <2>2
<1>4. ASSUME NEW i \in Nat, i + 1 \in Queue
      PROVE  Entry(i)' = Entry(i + 1)
  <2>1. i + 1 < Capacity
    BY <1>1, <1>4, CapacityType DEF Queue
  <2>2. (HeadIndex + (i + 1)) % Capacity =
          IF HeadIndex + (i + 1) < Capacity THEN HeadIndex + (i + 1)
          ELSE HeadIndex + (i + 1) - Capacity
    <3>1. i + 1 \in 0 .. Capacity - 1
      BY <2>1, CapacityType
    <3> QED
      BY <1>1, <3>1, CapacityType, ModSum
  <2>3. (HeadIndex' + i) % Capacity =
          IF HeadIndex' + i < Capacity THEN HeadIndex' + i ELSE HeadIndex' + i - Capacity
    <3>1. i \in 0 .. Capacity - 1 /\ HeadIndex' \in 0 .. Capacity - 1
      BY <1>1, <1>3, <2>1, CapacityType
    <3> QED
      BY <3>1, CapacityType, ModSum
  <2>4. (HeadIndex' + i) % Capacity = (HeadIndex + (i + 1)) % Capacity
    BY <1>1, <1>3, <2>1, <2>2, <2>3, CapacityType
  <2> QED
    BY <1>2, <2>4 DEF Entry, Capacity
<1>5. ASSUME NEW i \in Queue'
      PROVE  i \in Nat /\ i + 1 \in Queue
  BY <1>1, <1>2, <1>5 DEF Queue
<1>6. ASSUME NEW i \in Queue, i # 0
      PROVE  i - 1 \in Nat /\ i - 1 \in Queue' /\ (i - 1) + 1 = i
  BY <1>1, <1>2, <1>6 DEF Queue
<1>7. 0 \in Queue
  BY <1>1 DEF Queue
<1> QED
  BY <1>2, <1>4, <1>5, <1>6, <1>7

-----------------------------------------------------------------------------
(***************************************************************************)
(* The ring and the processes inside ATARead, as long as reads either all  *)
(* sleep or all poll and the drive reports no error.  (With both kinds, or *)
(* after an error, the runs find the ring and the readers out of step.)    *)
(***************************************************************************)
OneKindOfRead == PollModes \subseteq {FALSE} \/ PollModes \subseteq {TRUE}

InATARead(p) == resume[p] = "sleep" \/ (Polling /\ p = currentProcess)

\* The ring holds the requests of the readers, one each.
RingEntries ==
  /\ \A p \in Procs : Reading(p) => \E i \in Queue : Entry(i).process = p
  /\ \A i \in Queue : Entry(i) \in Requests /\ Reading(Entry(i).process)
  /\ \A i, j \in Queue : Entry(i).process = Entry(j).process => i = j

\* A reader waits in ATARead, and only the one at the head has been woken.
Readers ==
  /\ \A p \in Procs : Reading(p) <=> InATARead(p)
  /\ \A p \in Procs : Reading(p) /\ pstate[p] # "SLEEP" => ATARequestQueueFront.process = p
  /\ (\E p \in Procs : resume[p] = "sleep") => FALSE \in PollModes
  /\ Polling => TRUE \in PollModes

\* The process on the processor is RUNNING and not left anywhere, and a process
\* that was never created has asked for nothing.
Switches ==
  /\ cpu \in {"task", "ATAPollingUntilReady"} => resume[currentProcess] = "none"
  /\ cpu # "FindNextTask" => pstate[currentProcess] = "RUNNING"
  /\ \A p \in Procs : pstate[p] = "FREE" =>
       resume[p] = "none" /\ \A i \in Indices : queueBody[i].process # p

RingInv == Types /\ RingEntries /\ Readers /\ Switches /\ drive.status # "err"

LEMMA EntriesStay ==
  ASSUME RingEntries, UNCHANGED <<HeadIndex, Size, queueBody, call>>
  PROVE  RingEntries'
BY DEF RingEntries, Queue, Entry, Reading

LEMMA PushKeepsEntries ==
  ASSUME RingInv, ~Full, ~Reading(currentProcess),
         NEW request \in Requests, request.process = currentProcess,
         ATARequestQueuePush(request),
         \A p \in Procs : Reading(p)' <=> Reading(p) \/ p = currentProcess
  PROVE  RingEntries'
<1>1. /\ Queue' = Queue \cup {Size} /\ Size \notin Queue /\ Size \in Nat
      /\ \A i \in Queue : Entry(i)' = Entry(i)
      /\ \A n \in Nat : n = Size => Entry(n)' = request
  BY PushAppends DEF RingInv
<1>2. currentProcess \in Procs
  BY DEF RingInv, Types, SchedulerTypes
<1>3. \A i \in Queue : Entry(i) \in Requests /\ Entry(i).process \in Procs
                       /\ Entry(i).process # currentProcess
  BY DEF RingInv, RingEntries, Requests
<1>4. PICK n \in Nat : n = Size
  BY <1>1
<1>5. /\ Queue' = Queue \cup {n} /\ Entry(n)' = request
  BY <1>1, <1>4
<1>6. \A p \in Procs : Reading(p)' => \E i \in Queue' : Entry(i)'.process = p
  BY <1>1, <1>5 DEF RingInv, RingEntries
<1>7. \A i \in Queue' : (Entry(i) \in Requests /\ Reading(Entry(i).process))'
  BY <1>1, <1>2, <1>3, <1>5 DEF RingInv, RingEntries
<1>8. \A i, j \in Queue' : Entry(i)'.process = Entry(j)'.process => i = j
  BY <1>1, <1>3, <1>5 DEF RingInv, RingEntries
<1> QED
  BY <1>6, <1>7, <1>8 DEF RingEntries

LEMMA PopKeepsEntries ==
  ASSUME RingInv, Size > 0, Entry(0).process = currentProcess, ATARequestQueuePop,
         \A p \in Procs : Reading(p)' <=> Reading(p) /\ p # currentProcess
  PROVE  RingEntries'
<1>1. /\ \A i \in Queue' : i \in Nat /\ i + 1 \in Queue /\ Entry(i)' = Entry(i + 1)
      /\ \A i \in Queue : i = 0 \/ (i - 1 \in Queue' /\ Entry(i - 1)' = Entry(i))
      /\ 0 \in Queue
  BY PopShifts DEF RingInv
<1>2. \A i \in Queue' : Entry(i + 1).process # currentProcess
  <2>1. \A i \in Queue' : i + 1 # 0
    BY <1>1
  <2> QED
    BY <1>1, <2>1 DEF RingInv, RingEntries
<1>3. \A p \in Procs : Reading(p)' => \E i \in Queue' : Entry(i)'.process = p
  BY <1>1 DEF RingInv, RingEntries
<1>4. \A i \in Queue' : (Entry(i) \in Requests /\ Reading(Entry(i).process))'
  <2>1. \A i \in Queue : Entry(i).process \in Procs
    BY DEF RingInv, RingEntries, Requests
  <2> QED
    BY <1>1, <1>2, <2>1 DEF RingInv, RingEntries
<1>5. \A i, j \in Queue' : Entry(i)'.process = Entry(j)'.process => i = j
  <2> SUFFICES ASSUME NEW i \in Queue', NEW j \in Queue', Entry(i)'.process = Entry(j)'.process
               PROVE  i = j
    OBVIOUS
  <2>1. i + 1 = j + 1
    BY <1>1 DEF RingInv, RingEntries
  <2> QED
    BY <1>1, <2>1
<1> QED
  BY <1>3, <1>4, <1>5 DEF RingEntries

\* Schedule, with a state st that differs from pstate for the caller only.
LEMMA ScheduleSwitches ==
  ASSUME RingInv, cpu = "task", NEW st \in [Procs -> States], st[currentProcess] # "FREE",
         \A p \in Procs : p # currentProcess => st[p] = pstate[p],
         NEW point \in Points, Schedule(st, point),
         \A i \in Indices : queueBody'[i].process \in {queueBody[i].process, currentProcess}
  PROVE  Switches'
<1>1. cpu' \in {"resumed", "FindNextTask"} /\ pstate' = st
      /\ resume' = [resume EXCEPT ![currentProcess] = point]
  BY DEF Schedule
<1>2. cpu' # "FindNextTask" => pstate'[currentProcess'] = "RUNNING"
  BY DEF Schedule, FindNextTask
<1>3. \A p \in Procs : pstate'[p] = "FREE" => p # currentProcess /\ resume'[p] = resume[p]
  BY <1>1 DEF RingInv, Types, SchedulerTypes
<1>4. \A p \in Procs : pstate'[p] = "FREE" =>
        resume'[p] = "none" /\ \A i \in Indices : queueBody'[i].process # p
  BY <1>1, <1>3 DEF RingInv, Switches
<1> QED
  BY <1>1, <1>2, <1>4 DEF Switches

LEMMA ScheduleFromOutside ==
  ASSUME RingInv, cpu = "task", NEW st \in [Procs -> States],
         st[currentProcess] \in {"RUNNING", "ZOMBIE"},
         \A p \in Procs : p # currentProcess => st[p] = pstate[p],
         NEW point \in Points, point # "sleep", Schedule(st, point), UNCHANGED ataVars
  PROVE  RingEntries' /\ Readers' /\ Switches'
<1>1. Switches'
  BY ScheduleSwitches DEF ataVars
<1>2. RingEntries'
  BY EntriesStay DEF RingInv, ataVars
<1>3. \A p \in Procs : InATARead(p)' <=> resume[p] = "sleep"
  <2>1. resume' = [resume EXCEPT ![currentProcess] = point] /\ resume[currentProcess] = "none"
        /\ ~Polling'
    BY DEF Schedule, RingInv, Switches, Polling
  <2> QED
    BY <2>1 DEF InATARead, RingInv, Types, SchedulerTypes
<1>4. \A p \in Procs : Reading(p) <=> resume[p] = "sleep"
  BY DEF RingInv, Readers, InATARead, Polling
<1>5. \A p \in Procs : Reading(p) => p # currentProcess /\ pstate'[p] = pstate[p]
  BY <1>4 DEF Schedule, RingInv, Switches
<1>6. \A p \in Procs : resume'[p] = "sleep" => resume[p] = "sleep"
  BY <1>3 DEF InATARead
<1>7. ~Polling'
  BY DEF Schedule, Polling
<1> QED
  BY <1>1, <1>2, <1>3, <1>4, <1>5, <1>6, <1>7
  DEF RingInv, Readers, Reading, ataVars, ATARequestQueueFront

\* A change of nothing the ring and the readers are about.
LEMMA RingStays ==
  ASSUME RingInv, UNCHANGED <<HeadIndex, Size, queueBody, call, pstate, resume,
                              currentProcess, cpu>>
  PROVE  RingEntries' /\ Readers' /\ Switches'
BY EntriesStay
DEF RingInv, Readers, Switches, Reading, InATARead, Polling, ATARequestQueueFront

LEMMA ForkKeepsRing ==
  ASSUME RingInv, NEW child \in Procs, DoFork(child), cpu = "task",
         UNCHANGED <<currentProcess, cpu, ataVars>>
  PROVE  RingEntries' /\ Readers' /\ Switches'
<1>1. pstate[child] = "FREE" /\ child # currentProcess /\ resume[child] = "none"
  BY DEF DoFork, CopyProcess, RingInv, Switches
<1>2. /\ pstate' = [pstate EXCEPT ![child] = pstate[currentProcess]]
      /\ resume' = [resume EXCEPT ![child] = "return_from_sys_fork"]
  BY DEF DoFork, CopyProcess
<1>3. RingEntries'
  BY EntriesStay DEF RingInv, ataVars
<1>4. \A p \in Procs : resume'[p] = "sleep" <=> resume[p] = "sleep"
  BY <1>1, <1>2 DEF RingInv, Types, SchedulerTypes
<1>5. ~Reading(child) /\ ~Polling
  BY <1>1 DEF RingInv, Readers, InATARead, Polling
<1>6. \A p \in Procs : p # child => pstate'[p] = pstate[p] /\ resume'[p] = resume[p]
  BY <1>2 DEF RingInv, Types, SchedulerTypes
<1>7. pstate'[child] = "RUNNING"
  BY <1>2 DEF RingInv, Switches, Types, SchedulerTypes
<1>8. Readers'
  BY <1>4, <1>5, <1>6
  DEF RingInv, Readers, InATARead, Polling, Reading, ATARequestQueueFront, ataVars
<1>9. Switches'
  BY <1>1, <1>6, <1>7 DEF RingInv, Switches, ataVars, Types, SchedulerTypes
<1> QED
  BY <1>3, <1>8, <1>9

LEMMA SchedulerStepKeepsRing ==
  ASSUME RingInv, UNCHANGED ataVars,
         \/ Tick \/ KeyPress \/ HPETHandler \/ doKBCInterrupt \/ ResumeElsewhere
         \/ SchedulerStart \/ sysExit
         \/ \E child \in Procs : sysFork(child) \/ KernelThread(child)
  PROVE  RingEntries' /\ Readers' /\ Switches'
<1>1. CASE Tick \/ KeyPress \/ doKBCInterrupt \/ SchedulerStart
  BY <1>1, RingStays DEF Tick, KeyPress, doKBCInterrupt, SchedulerStart, ataVars
<1>2. CASE HPETHandler
  <2>1. cpu = "task" /\ Schedule(pstate, "HPETHandler")
    BY <1>2 DEF HPETHandler, Acknowledge
  <2>2. pstate \in [Procs -> States] /\ pstate[currentProcess] = "RUNNING"
        /\ "HPETHandler" \in Points
    BY <2>1 DEF RingInv, Types, SchedulerTypes, Switches, Points, Resumable
  <2> QED
    BY <2>1, <2>2, ScheduleFromOutside
<1>3. CASE ResumeElsewhere
  <2>1. /\ resume' = [resume EXCEPT ![currentProcess] = "none"]
        /\ cpu = "resumed" /\ cpu' = "task" /\ resume[currentProcess] # "sleep"
        /\ UNCHANGED <<pstate, currentProcess>>
    BY <1>3 DEF ResumeElsewhere, Resume
  <2>2. currentProcess \in Procs /\ resume \in [Procs -> Points]
    BY DEF RingInv, Types, SchedulerTypes
  <2>3. RingEntries'
    BY EntriesStay DEF RingInv, ataVars
  <2>4. \A p \in Procs : resume'[p] = "sleep" <=> resume[p] = "sleep"
    BY <2>1, <2>2
  <2>5. Readers'
    BY <2>1, <2>4
    DEF RingInv, Readers, InATARead, Polling, Reading, ATARequestQueueFront, ataVars
  <2>6. Switches'
    BY <2>1, <2>2 DEF RingInv, Switches, ataVars
  <2> QED
    BY <2>3, <2>5, <2>6
<1>4. CASE sysExit
  <2>1. cpu = "task" /\ Schedule([pstate EXCEPT ![currentProcess] = "ZOMBIE"], "sysExit")
    BY <1>4 DEF sysExit, ExitState
  <2>2. [pstate EXCEPT ![currentProcess] = "ZOMBIE"] \in [Procs -> States]
        /\ "sysExit" \in Points /\ currentProcess \in Procs
        /\ pstate \in [Procs -> States]
    BY DEF RingInv, Types, SchedulerTypes, States, Points
  <2> QED
    BY <2>1, <2>2, ScheduleFromOutside
<1>5. ASSUME NEW child \in Procs, sysFork(child) \/ KernelThread(child)
      PROVE  RingEntries' /\ Readers' /\ Switches'
  BY <1>5, ForkKeepsRing DEF sysFork, KernelThread
<1> QED
  BY <1>1, <1>2, <1>3, <1>4, <1>5

LEMMA HandlerKeepsRing ==
  ASSUME RingInv, ATAHandler
  PROVE  RingEntries' /\ Readers' /\ Switches'
<1>1. /\ UNCHANGED <<HeadIndex, Size, queueBody, call, resume, currentProcess, cpu>>
      /\ pstate' = [p \in Procs |-> IF p = ATARequestQueueFront.process THEN "RUNNING"
                                    ELSE pstate[p]]
  BY DEF ATAHandler, ataVars, Woken
<1>2. RingEntries'
  BY <1>1, EntriesStay DEF RingInv
<1>3. Readers'
  BY <1>1 DEF RingInv, Readers, Reading, InATARead, Polling, ATARequestQueueFront
<1>4. Switches'
  BY <1>1 DEF RingInv, Switches, Types, SchedulerTypes
<1> QED
  BY <1>2, <1>3, <1>4

LEMMA SendStatus ==
  ASSUME NEW d \in Drives, d.status # "err", NEW request
  PROVE  ATASendRequest(d, request).status # "err"
BY DEF ATASendRequest

LEMMA CallerIsOutside ==
  ASSUME RingInv, cpu = "task"
  PROVE  ~Reading(currentProcess) /\ ~Polling /\ resume[currentProcess] = "none"
         /\ currentProcess \in Procs /\ pstate[currentProcess] = "RUNNING"
BY DEF RingInv, Readers, Switches, InATARead, Polling, Types, SchedulerTypes

LEMMA EnqueueKeepsRing ==
  ASSUME RingInv, cpu = "task", NEW lba \in Lbas, NEW size \in Sizes, Enqueue(lba, size)
  PROVE  /\ RingEntries' /\ drive'.status # "err"
         /\ \A p \in Procs : Reading(p)' <=> Reading(p) \/ p = currentProcess
         /\ \A i \in Indices : queueBody'[i].process \in {queueBody[i].process, currentProcess}
         /\ \A p \in Procs : Size # 0 /\ ATARequestQueueFront.process = p
                            => ATARequestQueueFront'.process = p
         /\ Size = 0 => ATARequestQueueFront'.process = currentProcess
<1> DEFINE request == [lba |-> lba, SizeOfBytes |-> size, process |-> currentProcess]
<1>1. request \in Requests /\ request.process = currentProcess
  BY DEF Requests, RingInv, Types, SchedulerTypes
<1>2. ~Full /\ ATARequestQueuePush(request)
  BY DEF Enqueue
<1>3. \A p \in Procs : Reading(p)' <=> Reading(p) \/ p = currentProcess
  <2>1. call' = [call EXCEPT ![currentProcess] =
                   [lba |-> lba, SizeOfBytes |-> size, reading |-> TRUE, returned |-> -1]]
    BY DEF Enqueue
  <2> QED
    BY <2>1 DEF Reading, RingInv, Types, DriverTypes
<1>4. drive'.status # "err"
  BY SendStatus DEF Enqueue, RingInv, Types, DriverTypes
<1> HIDE DEF request
<1>5. /\ \A i \in Indices : queueBody'[i] = request \/ queueBody'[i] = queueBody[i]
      /\ ATARequestQueueFront' = IF Size = 0 THEN request ELSE ATARequestQueueFront
  BY <1>1, <1>2, PushAppends DEF RingInv
<1>6. RingEntries'
  BY <1>1, <1>2, <1>3, CallerIsOutside, PushKeepsEntries
<1> QED
  BY <1>1, <1>3, <1>4, <1>5, <1>6

LEMMA EmptyRing ==
  ASSUME RingInv, Size = 0
  PROVE  \A p \in Procs : ~Reading(p)
<1>1. Queue = {}
  BY DEF Queue
<1> QED
  BY <1>1 DEF RingInv, RingEntries

\* With reads that poll nobody sleeps in one.
LEMMA PollersAreAlone ==
  ASSUME RingInv, OneKindOfRead, TRUE \in PollModes, cpu = "task"
  PROVE  Size = 0 /\ \A p \in Procs : resume[p] # "sleep" /\ ~Reading(p)
<1>1. FALSE \notin PollModes
  BY Zenon DEF OneKindOfRead
<1>2. \A p \in Procs : resume[p] # "sleep" /\ ~Reading(p)
  BY <1>1 DEF RingInv, Readers, InATARead, Polling
<1>3. Queue = {}
  BY <1>2 DEF RingInv, RingEntries, Requests
<1>4. Size = 0
  <2>1. Size \in Nat
    BY CapacityType DEF RingInv, Types, DriverTypes
  <2>2. Size # 0 => 0 \in Queue
    BY <2>1 DEF Queue
  <2> QED
    BY <1>3, <2>2
<1> QED
  BY <1>2, <1>4

LEMMA ATAReadKeepsRing ==
  ASSUME RingInv, OneKindOfRead, NEW lba \in Lbas, NEW size \in Sizes,
         NEW enablePoll \in BOOLEAN, ATARead(lba, size, enablePoll)
  PROVE  RingEntries' /\ Readers' /\ Switches' /\ drive'.status # "err"
<1>1. cpu = "task" /\ enablePoll \in PollModes
  BY DEF ATARead
<1>2. ~Reading(currentProcess) /\ ~Polling /\ resume[currentProcess] = "none"
      /\ currentProcess \in Procs /\ pstate[currentProcess] = "RUNNING"
  BY <1>1, CallerIsOutside
<1>3. CASE ReadFull(lba, size)
  <2>1. /\ call' = [call EXCEPT ![currentProcess] =
              [lba |-> lba, SizeOfBytes |-> size, reading |-> FALSE, returned |-> -1]]
        /\ UNCHANGED <<HeadIndex, Size, queueBody, pstate, resume, currentProcess, cpu, drive>>
    BY <1>3 DEF ReadFull
  <2>2. \A p \in Procs : call'[p].reading <=> call[p].reading
    BY <1>2, <2>1 DEF Reading, RingInv, Types, DriverTypes
  <2>3. \A i \in Queue : Entry(i) \in Requests => Entry(i).process \in Procs
    BY DEF Requests
  <2>4. RingEntries'
    BY <2>1, <2>2, <2>3 DEF RingInv, RingEntries, Queue, Entry, Reading
  <2> QED
    BY <2>1, <2>2, <2>4
    DEF RingInv, Readers, Switches, Reading, InATARead, Polling, ATARequestQueueFront
<1>4. CASE /\ ~enablePoll
           /\ Enqueue(lba, size)
           /\ Schedule([pstate EXCEPT ![currentProcess] = "SLEEP"], "sleep")
  <2>1. /\ RingEntries' /\ drive'.status # "err"
        /\ \A p \in Procs : Reading(p)' <=> Reading(p) \/ p = currentProcess
        /\ \A i \in Indices : queueBody'[i].process \in {queueBody[i].process, currentProcess}
        /\ \A p \in Procs : Size # 0 /\ ATARequestQueueFront.process = p
                           => ATARequestQueueFront'.process = p
    BY <1>1, <1>4, EnqueueKeepsRing
  <2>2. [pstate EXCEPT ![currentProcess] = "SLEEP"] \in [Procs -> States]
        /\ "sleep" \in Points /\ pstate \in [Procs -> States]
    BY DEF RingInv, Types, SchedulerTypes, States, Points, Resumable
  <2>3. Switches'
    <3> DEFINE st == [pstate EXCEPT ![currentProcess] = "SLEEP"]
    <3>1. st[currentProcess] # "FREE" /\ \A p \in Procs : p # currentProcess => st[p] = pstate[p]
      BY <1>2, <2>2
    <3>2. st \in [Procs -> States] /\ Schedule(st, "sleep")
      BY <1>4, <2>2
    <3> HIDE DEF st
    <3> QED
      BY <1>1, <2>1, <2>2, <3>1, <3>2, ScheduleSwitches
  <2>4. /\ resume' = [resume EXCEPT ![currentProcess] = "sleep"] /\ ~Polling'
        /\ pstate' = [pstate EXCEPT ![currentProcess] = "SLEEP"]
    BY <1>4 DEF Schedule, Polling
  <2>5. \A p \in Procs : resume'[p] = "sleep" <=> resume[p] = "sleep" \/ p = currentProcess
    BY <1>2, <2>4 DEF RingInv, Types, SchedulerTypes
  <2>6. \A p \in Procs : Reading(p)' <=> InATARead(p)'
    BY <1>2, <2>1, <2>4, <2>5 DEF RingInv, Readers, InATARead
  <2>7. ASSUME NEW p \in Procs, Reading(p)', pstate'[p] # "SLEEP"
        PROVE  ATARequestQueueFront'.process = p
    <3>1. p # currentProcess /\ Reading(p) /\ pstate[p] # "SLEEP"
      BY <1>2, <2>1, <2>2, <2>4, <2>7
    <3>2. Size # 0
      BY <3>1, EmptyRing
    <3> QED
      BY <2>1, <3>1, <3>2 DEF RingInv, Readers
  <2>8. Readers'
    BY <1>1, <1>4, <2>4, <2>6, <2>7 DEF Readers
  <2> QED
    BY <2>1, <2>3, <2>8
<1>5. CASE /\ enablePoll
           /\ Enqueue(lba, size)
           /\ cpu' = "ATAPollingUntilReady"
           /\ UNCHANGED <<pstate, currentProcess, resume>>
  <2>1. Size = 0 /\ (\A p \in Procs : resume[p] # "sleep" /\ ~Reading(p)) /\ TRUE \in PollModes
    BY <1>1, <1>5, PollersAreAlone
  <2>2. /\ RingEntries' /\ drive'.status # "err"
        /\ \A p \in Procs : Reading(p)' <=> Reading(p) \/ p = currentProcess
        /\ \A i \in Indices : queueBody'[i].process \in {queueBody[i].process, currentProcess}
        /\ ATARequestQueueFront'.process = currentProcess
    BY <1>1, <1>5, <2>1, EnqueueKeepsRing
  <2>3. Readers'
    BY <1>5, <2>1, <2>2 DEF Readers, InATARead, Polling
  <2>4. Switches'
    BY <1>1, <1>2, <1>5, <2>2 DEF RingInv, Switches
  <2> QED
    BY <2>2, <2>3, <2>4
<1> QED
  BY <1>3, <1>4, <1>5 DEF ATARead

LEMMA AfterReadingStatus ==
  ASSUME NEW d \in Drives, d.status # "err", NEW w \in Nat, NEW k \in Nat
  PROVE  AfterReading(d, w, k).status # "err"
<1>1. CASE k = 0
  BY <1>1 DEF AfterReading
<1>2. CASE k # 0
  BY <1>2 DEF AfterReading, NoCommand
<1> QED
  BY <1>1, <1>2

LEMMA ReturnsKeepRing ==
  ASSUME RingInv, ATAReadReturns
  PROVE  RingEntries' /\ Readers' /\ Switches' /\ drive'.status # "err"
<1>1. FinishWithData
  BY DEF ATAReadReturns, Finish, FinishWithError, RingInv
<1>2. currentProcess \in Procs /\ resume \in [Procs -> Points] /\ call \in [Procs -> Calls]
  BY DEF RingInv, Types, SchedulerTypes, DriverTypes
<1>3. InATARead(currentProcess) /\ pstate[currentProcess] = "RUNNING"
  BY DEF ATAReadReturns, ATAReadWoken, ATAPollingUntilReady, InATARead, Polling, RingInv,
         Switches
<1>4. Reading(currentProcess) /\ ATARequestQueueFront.process = currentProcess
  BY <1>2, <1>3 DEF RingInv, Readers
<1>5. Size > 0
  <2>1. Size # 0
    BY <1>2, <1>4, EmptyRing
  <2> QED
    BY <2>1, CapacityType DEF RingInv, Types, DriverTypes
<1>6. ATARequestQueuePop /\ Entry(0).process = currentProcess /\ queueBody' = queueBody
  BY <1>1, <1>4, FrontIsTheOldest DEF FinishWithData, RingInv, ATARequestQueuePop
<1>7. \A p \in Procs : Reading(p)' <=> Reading(p) /\ p # currentProcess
  <2>1. PICK value : Return(value)
    BY <1>1 DEF FinishWithData
  <2> QED
    BY <1>2, <2>1 DEF Return, Reading, Calls
<1>8. RingEntries'
  BY <1>5, <1>6, <1>7, PopKeepsEntries
<1>9. /\ cpu' = "task" /\ UNCHANGED <<pstate, currentProcess>>
      /\ resume' = [resume EXCEPT ![currentProcess] = "none"]
  <2>1. CASE ATAReadWoken
    BY <2>1 DEF ATAReadReturns, ATAReadWoken
  <2>2. CASE ATAPollingUntilReady
    <3>1. resume[currentProcess] = "none"
      BY <2>2 DEF ATAPollingUntilReady, RingInv, Switches
    <3> QED
      BY <1>2, <2>2, <3>1 DEF ATAReadReturns, ATAPollingUntilReady
  <2> QED
    BY <2>1, <2>2 DEF ATAReadReturns
<1>10. \A p \in Procs : resume'[p] = "sleep" <=> resume[p] = "sleep" /\ p # currentProcess
  BY <1>2, <1>9
<1>11. \A p \in Procs : InATARead(p)' <=> InATARead(p) /\ p # currentProcess
  BY <1>9, <1>10 DEF InATARead, Polling
<1>12. Readers'
  BY <1>4, <1>7, <1>9, <1>10, <1>11 DEF RingInv, Readers, Polling
<1>13. Switches'
  BY <1>2, <1>3, <1>6, <1>9 DEF RingInv, Switches
<1>14. drive'.status # "err"
  <2> DEFINE w == words(ATARequestQueueFront.SizeOfBytes)
  <2>1. PICK k \in InTime(drive, w) :
          IF MoreToSend
          THEN drive' = ATASendRequest(AfterReading(drive, w, k), queueBody[HeadIndex'])
          ELSE drive' = AfterReading(drive, w, k)
    BY <1>1 DEF FinishWithData
  <2>2. w \in Nat /\ drive \in Drives /\ k \in InTime(drive, w)
    BY <2>1, RequestFields, SizesAreNumbers DEF RingInv, Types, DriverTypes, ATARequestQueueFront
  <2> HIDE DEF w
  <2>3. k \in Nat /\ AfterReading(drive, w, k) \in Drives
    BY <2>2, ReadTypes
  <2>4. AfterReading(drive, w, k).status # "err"
    BY <2>2, <2>3, AfterReadingStatus DEF RingInv
  <2> QED
    BY <2>1, <2>3, <2>4, SendStatus
<1> QED
  BY <1>8, <1>12, <1>13, <1>14

LEMMA StepKeepsRing ==
  ASSUME RingInv, OneKindOfRead, ~DiskErrors, [AtaNext]_vars
  PROVE  RingInv'
<1>1. Types'
  BY StepKeepsTypes DEF RingInv
<1>2. ASSUME \/ Tick \/ KeyPress \/ HPETHandler \/ doKBCInterrupt \/ ResumeElsewhere
             \/ SchedulerStart \/ sysExit
             \/ \E child \in Procs : sysFork(child) \/ KernelThread(child),
             UNCHANGED ataVars
      PROVE  RingInv'
  BY <1>1, <1>2, SchedulerStepKeepsRing DEF RingInv, ataVars
<1>3. CASE DriveAnswers
  <2>1. drive'.status # "err"
    BY <1>3 DEF DriveAnswers, RingInv, Types, DriverTypes, Drives
  <2> QED
    BY <1>1, <1>3, <2>1, RingStays DEF DriveAnswers, RingInv
<1>4. CASE ATAHandler
  BY <1>1, <1>4, HandlerKeepsRing DEF RingInv, ATAHandler, ataVars
<1>5. ASSUME NEW lba \in Lbas, NEW size \in Sizes, NEW enablePoll \in BOOLEAN,
             ATARead(lba, size, enablePoll)
      PROVE  RingInv'
  BY <1>1, <1>5, ATAReadKeepsRing DEF RingInv
<1>6. CASE ATAReadReturns
  BY <1>1, <1>6, ReturnsKeepRing DEF RingInv
<1>7. CASE UNCHANGED vars
  <2>1. UNCHANGED <<HeadIndex, Size, queueBody, call, pstate, resume, currentProcess, cpu, drive>>
    BY <1>7 DEF vars, schedVars, ataVars
  <2> QED
    BY <1>1, <2>1, RingStays DEF RingInv
<1> QED
  BY <1>2, <1>3, <1>4, <1>5, <1>6, <1>7 DEF AtaNext

LEMMA InitRing == AtaInit => RingInv
<1> SUFFICES ASSUME AtaInit
             PROVE  RingInv
  OBVIOUS
<1>1. Types
  BY InitTypes
<1>2. \A p \in Procs : ~Reading(p) /\ resume[p] = "none"
  BY DEF AtaInit, Init, Reading, NoCall
<1>3. RingEntries
  <2>1. Queue = {}
    BY DEF AtaInit, Queue
  <2> QED
    BY <1>2, <2>1 DEF RingEntries
<1>4. Readers
  BY <1>2 DEF AtaInit, Init, Readers, InATARead, Polling
<1>5. Switches
  BY <1>2, ProcsAssumption DEF AtaInit, Init, Switches, Unwritten
<1> QED
  BY <1>1, <1>3, <1>4, <1>5 DEF RingInv, AtaInit, NoCommand

LEMMA RingInvariant == OneKindOfRead /\ ~DiskErrors => (AtaSpec => []RingInv)
<1> SUFFICES ASSUME OneKindOfRead, ~DiskErrors
             PROVE  AtaSpec => []RingInv
  OBVIOUS
<1>1. RingInv /\ [AtaNext]_vars => RingInv'
  BY StepKeepsRing
<1> QED
  BY <1>1, InitRing, PTL DEF AtaSpec

LEMMA RingInvHolds == RingInv => RingHoldsTheReaders
<1> SUFFICES ASSUME RingInv
             PROVE  RingHoldsTheReaders
  OBVIOUS
<1>1. QueuedIndices = {(HeadIndex + i) % Capacity : i \in Queue}
  BY DEF QueuedIndices, Queue, Capacity
<1>2. \A x \in QueuedIndices : \E i \in Queue : queueBody[x] = Entry(i) /\ x = (HeadIndex + i) % Capacity
  BY <1>1 DEF Entry
<1>3. \A i \in Queue : (HeadIndex + i) % Capacity \in QueuedIndices
  BY <1>1
<1> QED
  BY <1>2, <1>3 DEF RingHoldsTheReaders, RingInv, RingEntries, Entry

\* Reads that all sleep, or that all poll, keep the ring and the processes
\* inside ATARead in step, however many sectors they ask for, however small
\* the ring is and whatever the mask of the controllers, as long as the drive
\* reports no error: no request is lost, left behind or overwritten.
THEOREM RingIsExact ==
  OneKindOfRead /\ ~DiskErrors => (AtaSpec => []RingHoldsTheReaders)
BY RingInvariant, RingInvHolds, PTL

-----------------------------------------------------------------------------
(***************************************************************************)
(* Reads that take one sector to its last word.  (A shorter one leaves     *)
(* words at the drive, which then does not take the next command; a longer *)
(* one does not wait for its second sector.)                               *)
(***************************************************************************)
WholeSectors == \A bytes \in Sizes : sectorCount(bytes) = 1 /\ words(bytes) = WordsPerSector

HeadCommand(status) ==
  [status |-> status, lba |-> ATARequestQueueFront.lba, left |-> 1, taken |-> 0]

\* The drive works on the request at the head, and rests when there is none.
DriveServesHead ==
  /\ Size = 0 => drive = NoCommand
  /\ Size # 0 => drive \in {HeadCommand("busy"), HeadCommand("drq")}

\* Only a reader whose data is there is awake.
AwakeHaveData ==
  \A p \in Procs : Reading(p) /\ pstate[p] # "SLEEP" /\ ~Polling => drive.status = "drq"

\* The interrupt is latched exactly while the sleeper at the head has its data.
LatchedForHead ==
  PollModes \subseteq {FALSE} =>
    (ATALine \in irr <=> Size # 0 /\ drive.status = "drq"
                        /\ pstate[ATARequestQueueFront.process] = "SLEEP")

\* A queued request is what its process called for.
RequestsMatchCalls ==
  \A i \in Queue : /\ call[Entry(i).process].lba = Entry(i).lba
                   /\ call[Entry(i).process].SizeOfBytes = Entry(i).SizeOfBytes

DataInv ==
  /\ RingInv
  /\ DriveServesHead
  /\ drive.status = "busy" => ~intrq
  /\ AwakeHaveData
  /\ LatchedForHead
  /\ RequestsMatchCalls
  /\ ReadDeliversItsData

LEMMA HeadIsReading ==
  ASSUME RingInv, Size # 0
  PROVE  /\ 0 \in Queue /\ ATARequestQueueFront = Entry(0)
         /\ ATARequestQueueFront \in Requests
         /\ ATARequestQueueFront.process \in Procs
         /\ ATARequestQueueFront.lba \in Nat /\ ATARequestQueueFront.SizeOfBytes \in Sizes
         /\ Reading(ATARequestQueueFront.process)
<1>1. Size \in Nat
  BY CapacityType DEF RingInv, Types, DriverTypes
<1>2. 0 \in Queue
  BY <1>1 DEF Queue
<1>3. ATARequestQueueFront = Entry(0)
  BY FrontIsTheOldest DEF RingInv
<1>4. ATARequestQueueFront \in Requests /\ Reading(ATARequestQueueFront.process)
  BY <1>2, <1>3 DEF RingInv, RingEntries
<1> QED
  BY <1>2, <1>3, <1>4, AtaAssumption DEF Requests

\* What the scheduler does between the steps of the driver concerns no reader.
LEMMA OthersLeaveReadersAlone ==
  ASSUME RingInv,
         \/ Tick \/ KeyPress \/ HPETHandler \/ doKBCInterrupt \/ ResumeElsewhere
         \/ SchedulerStart \/ sysExit
         \/ \E child \in Procs : sysFork(child) \/ KernelThread(child)
  PROVE  /\ \A p \in Procs : Reading(p) => pstate'[p] = pstate[p]
         /\ ATALine \in irr' <=> ATALine \in irr
         /\ Polling' <=> Polling
<1>1. pstate \in [Procs -> States]
  BY DEF RingInv, Types, SchedulerTypes
<1>2. CASE Tick \/ KeyPress
  BY <1>2, Line14 DEF Tick, KeyPress, Polling
<1>3. CASE HPETHandler
  BY <1>3, Line14 DEF HPETHandler, Acknowledge, Schedule, Polling
<1>4. CASE doKBCInterrupt
  BY <1>4, Line14 DEF doKBCInterrupt, Acknowledge, Polling
<1>5. CASE ResumeElsewhere
  BY <1>5 DEF ResumeElsewhere, Resume, Polling
<1>6. CASE SchedulerStart
  BY <1>6 DEF SchedulerStart, Polling
<1>7. CASE sysExit
  <2>1. cpu = "task" /\ pstate' = [pstate EXCEPT ![currentProcess] = ExitState] /\ irr' = irr
        /\ cpu' \in {"resumed", "FindNextTask"}
    BY <1>7 DEF sysExit, Schedule
  <2>2. ~Reading(currentProcess)
    BY <2>1, CallerIsOutside
  <2> QED
    BY <1>1, <2>1, <2>2 DEF Polling
<1>8. ASSUME NEW child \in Procs, sysFork(child) \/ KernelThread(child)
      PROVE  /\ \A p \in Procs : Reading(p) => pstate'[p] = pstate[p]
             /\ UNCHANGED <<irr, cpu>>
  <2>1. /\ pstate[child] = "FREE" /\ UNCHANGED <<irr, cpu>> /\ cpu = "task"
        /\ pstate' = [pstate EXCEPT ![child] = pstate[currentProcess]]
    BY <1>8 DEF sysFork, KernelThread, DoFork, CopyProcess
  <2>2. ~Reading(child)
    BY <2>1 DEF RingInv, Readers, Switches, InATARead, Polling
  <2> QED
    BY <1>1, <2>1, <2>2
<1> QED
  BY <1>2, <1>3, <1>4, <1>5, <1>6, <1>7, <1>8 DEF Polling

\* The parts of DataInv that speak of the driver's variables only.
LEMMA DriverUntouched ==
  ASSUME DataInv, UNCHANGED <<HeadIndex, Size, queueBody, drive, intrq, call, buffer>>
  PROVE  /\ DriveServesHead' /\ RequestsMatchCalls' /\ ReadDeliversItsData'
         /\ drive'.status = "busy" => ~intrq'
BY DEF DataInv, DriveServesHead, HeadCommand, ATARequestQueueFront, RequestsMatchCalls, Queue,
       Entry, ReadDeliversItsData, Reading

LEMMA SchedulerStepKeepsData ==
  ASSUME DataInv, RingInv', UNCHANGED ataVars,
         \/ Tick \/ KeyPress \/ HPETHandler \/ doKBCInterrupt \/ ResumeElsewhere
         \/ SchedulerStart \/ sysExit
         \/ \E child \in Procs : sysFork(child) \/ KernelThread(child)
  PROVE  DataInv'
<1>1. /\ \A p \in Procs : Reading(p) => pstate'[p] = pstate[p]
      /\ ATALine \in irr' <=> ATALine \in irr
      /\ Polling' <=> Polling
  BY OthersLeaveReadersAlone DEF DataInv
<1>2. AwakeHaveData'
  BY <1>1 DEF DataInv, AwakeHaveData, Reading, ataVars
<1>3. LatchedForHead'
  <2>1. Size # 0 => pstate'[ATARequestQueueFront.process] = pstate[ATARequestQueueFront.process]
    BY <1>1, HeadIsReading DEF DataInv
  <2>2. ATARequestQueueFront' = ATARequestQueueFront /\ UNCHANGED <<Size, drive>>
    BY DEF ataVars, ATARequestQueueFront
  <2>3. ATALine' = ATALine
    BY DEF ATALine
  <2> QED
    BY <1>1, <2>1, <2>2, <2>3 DEF DataInv, LatchedForHead
<1> QED
  BY <1>2, <1>3, DriverUntouched DEF DataInv, ataVars

\* With reads that sleep, a busy drive works for a sleeper.
LEMMA BusyMeansAsleep ==
  ASSUME DataInv, drive.status = "busy"
  PROVE  Size # 0 /\ (PollModes \subseteq {FALSE} =>
                        pstate[ATARequestQueueFront.process] = "SLEEP")
<1>1. Size # 0
  BY DEF DataInv, DriveServesHead, NoCommand
<1>2. ATARequestQueueFront.process \in Procs /\ Reading(ATARequestQueueFront.process)
  BY <1>1, HeadIsReading DEF DataInv
<1>3. PollModes \subseteq {FALSE} => ~Polling
  BY DEF DataInv, RingInv, Readers
<1> QED
  BY <1>1, <1>2, <1>3 DEF DataInv, AwakeHaveData

LEMMA DriveAnswersKeepsData ==
  ASSUME DataInv, RingInv', ~DiskErrors, DriveAnswers
  PROVE  DataInv'
<1>1. /\ drive.status = "busy" /\ drive' = [drive EXCEPT !.status = "drq"]
      /\ irr' = irr \cup {ATALine}
      /\ UNCHANGED <<pstate, currentProcess, cpu, HeadIndex, Size, queueBody, call, buffer>>
  BY DEF DriveAnswers, Raise, DataInv
<1>2. Size # 0 /\ (PollModes \subseteq {FALSE} => pstate[ATARequestQueueFront.process] = "SLEEP")
  BY <1>1, BusyMeansAsleep
<1>3. drive' = HeadCommand("drq") /\ drive'.status = "drq"
  BY <1>1, <1>2 DEF DataInv, DriveServesHead, HeadCommand
<1>4. DriveServesHead'
  BY <1>1, <1>2, <1>3 DEF DriveServesHead, HeadCommand, ATARequestQueueFront
<1>5. AwakeHaveData'
  BY <1>3 DEF AwakeHaveData
<1>6. LatchedForHead'
  BY <1>1, <1>2, <1>3 DEF LatchedForHead, ATARequestQueueFront, ATALine
<1>7. RequestsMatchCalls' /\ ReadDeliversItsData'
  BY <1>1 DEF DataInv, RequestsMatchCalls, ReadDeliversItsData, Queue, Entry, Reading
<1> QED
  BY <1>3, <1>4, <1>5, <1>6, <1>7 DEF DataInv

LEMMA HandlerKeepsData ==
  ASSUME DataInv, RingInv', OneKindOfRead, ATAHandler
  PROVE  DataInv'
<1>1. /\ cpu = "task" /\ ATALine \in irr /\ irr' = irr \ {ATALine}
      /\ pstate' = [p \in Procs |-> IF p = ATARequestQueueFront.process THEN "RUNNING"
                                    ELSE pstate[p]]
      /\ UNCHANGED <<currentProcess, cpu, ataVars>>
  BY DEF ATAHandler, Acknowledge, Presented, PresentedUnder, Presentable, Woken
<1>2. CASE PollModes \subseteq {FALSE}
  <2>1. Size # 0 /\ drive.status = "drq"
    BY <1>1, <1>2 DEF DataInv, LatchedForHead
  <2>2. ATARequestQueueFront.process \in Procs
    BY <2>1, HeadIsReading DEF DataInv
  <2>3. AwakeHaveData'
    BY <1>1, <2>1 DEF AwakeHaveData, ataVars
  <2>4. LatchedForHead'
    <3>1. ATALine' \notin irr' /\ pstate'[ATARequestQueueFront.process] = "RUNNING"
          /\ ATARequestQueueFront' = ATARequestQueueFront
      BY <1>1, <2>2 DEF ATALine, ATARequestQueueFront, ataVars
    <3> QED
      BY <3>1 DEF LatchedForHead
  <2> QED
    BY <1>1, <2>3, <2>4, DriverUntouched DEF DataInv, ataVars
<1>3. CASE ~(PollModes \subseteq {FALSE})
  <2>1. TRUE \in PollModes
    BY <1>3, AtaAssumption DEF OneKindOfRead
  <2>2. \A p \in Procs : ~Reading(p)
    BY <1>1, <2>1, PollersAreAlone DEF DataInv
  <2>3. AwakeHaveData'
    BY <1>1, <2>2 DEF AwakeHaveData, Reading, ataVars
  <2>4. LatchedForHead'
    BY <1>3 DEF LatchedForHead
  <2> QED
    BY <1>1, <2>3, <2>4, DriverUntouched DEF DataInv, ataVars
<1> QED
  BY <1>2, <1>3

\* A call by a process that is not in the ring leaves the others' requests,
\* calls and buffers as they are.
LEMMA FullKeepsData ==
  ASSUME DataInv, RingInv', cpu = "task", NEW lba \in Lbas, NEW size \in Sizes,
         ReadFull(lba, size)
  PROVE  DataInv'
<1>1. /\ call' = [call EXCEPT ![currentProcess] =
              [lba |-> lba, SizeOfBytes |-> size, reading |-> FALSE, returned |-> -1]]
      /\ UNCHANGED <<HeadIndex, Size, queueBody, pstate, currentProcess, cpu, irr, drive, intrq,
                     buffer>>
  BY DEF ReadFull
<1>2. ~Reading(currentProcess) /\ currentProcess \in Procs /\ DOMAIN call = Procs
  BY CallerIsOutside DEF DataInv, RingInv, Types, DriverTypes
<1>3. \A p \in Procs : /\ p # currentProcess => call'[p] = call[p]
                       /\ Reading(p)' <=> Reading(p)
  BY <1>1, <1>2 DEF Reading
<1>4. DriveServesHead' /\ LatchedForHead' /\ (drive'.status = "busy" => ~intrq')
  BY <1>1 DEF DataInv, DriveServesHead, HeadCommand, LatchedForHead, ATARequestQueueFront, ATALine
<1>5. AwakeHaveData'
  BY <1>1, <1>3 DEF DataInv, AwakeHaveData, Polling
<1>6. RequestsMatchCalls'
  <2>1. \A i \in Queue : Entry(i).process \in Procs /\ Entry(i).process # currentProcess
    BY <1>2 DEF DataInv, RingInv, RingEntries, Requests
  <2> QED
    BY <1>1, <1>3, <2>1 DEF DataInv, RequestsMatchCalls, Queue, Entry
<1>7. ReadDeliversItsData'
  <2>1. call'[currentProcess].returned = -1
    BY <1>1, <1>2
  <2> QED
    BY <1>1, <1>3, <2>1 DEF DataInv, ReadDeliversItsData
<1> QED
  BY <1>4, <1>5, <1>6, <1>7 DEF DataInv

LEMMA EnqueueKeepsData ==
  ASSUME DataInv, RingInv', WholeSectors, cpu = "task",
         NEW lba \in Lbas, NEW size \in Sizes, Enqueue(lba, size),
         \A p \in Procs : p # currentProcess => pstate'[p] = pstate[p],
         irr' = irr,
         pstate'[currentProcess] = "SLEEP" \/ (Polling' /\ currentProcess' = currentProcess),
         PollModes \subseteq {FALSE} \/ Size = 0
  PROVE  DataInv'
<1> DEFINE request == [lba |-> lba, SizeOfBytes |-> size, process |-> currentProcess]
<1>1. /\ ~Full /\ ATARequestQueuePush(request)
      /\ IF Size = 0
         THEN drive' = ATASendRequest(drive, request) /\ intrq' = FALSE
         ELSE UNCHANGED <<drive, intrq>>
      /\ call' = [call EXCEPT ![currentProcess] =
                    [lba |-> lba, SizeOfBytes |-> size, reading |-> TRUE, returned |-> -1]]
      /\ buffer' = [buffer EXCEPT ![currentProcess] = <<>>]
  BY DEF Enqueue
<1>2. ~Reading(currentProcess) /\ currentProcess \in Procs /\ ~Polling
      /\ DOMAIN call = Procs /\ DOMAIN buffer = Procs
  BY CallerIsOutside DEF DataInv, RingInv, Types, DriverTypes
<1>3. \A p \in Procs : p # currentProcess => call'[p] = call[p] /\ buffer'[p] = buffer[p]
  BY <1>1, <1>2
<1>4. call'[currentProcess] =
        [lba |-> lba, SizeOfBytes |-> size, reading |-> TRUE, returned |-> -1]
  BY <1>1, <1>2
<1>5. request.process = currentProcess /\ request.lba = lba /\ request.SizeOfBytes = size
  OBVIOUS
<1> HIDE DEF request
<1>6. /\ Size' = Size + 1 /\ Size \in Nat
      /\ Queue' = Queue \cup {Size} /\ Size \notin Queue
      /\ \A i \in Queue : Entry(i)' = Entry(i)
      /\ \A n \in Nat : n = Size => Entry(n)' = request
      /\ ATARequestQueueFront' = IF Size = 0 THEN request ELSE ATARequestQueueFront
  BY <1>1, PushAppends DEF DataInv, RingInv
<1>7. \A i \in Queue : Entry(i).process \in Procs /\ Entry(i).process # currentProcess
  BY <1>2 DEF DataInv, RingInv, RingEntries, Requests
<1>8. Size = 0 => drive' = HeadCommand("busy")'
  <2>1. ASSUME Size = 0
        PROVE  drive' = [status |-> "busy", lba |-> lba, left |-> 1, taken |-> 0]
    <3>1. drive.status = "idle"
      BY <2>1 DEF DataInv, DriveServesHead, NoCommand
    <3>2. CountRegister(sectorCount(size)) = 1
      BY DEF WholeSectors, CountRegister
    <3> QED
      BY <1>1, <1>5, <2>1, <3>1, <3>2 DEF ATASendRequest
  <2> QED
    BY <1>5, <1>6, <2>1 DEF HeadCommand
<1>9. DriveServesHead'
  <2>1. Size' # 0
    BY <1>6
  <2>2. Size # 0 => drive' = drive /\ ATARequestQueueFront' = ATARequestQueueFront
    BY <1>1, <1>6
  <2> QED
    BY <1>8, <2>1, <2>2 DEF DataInv, DriveServesHead, HeadCommand
<1>10. drive'.status = "busy" => ~intrq'
  BY <1>1 DEF DataInv
<1>11. AwakeHaveData'
  <2> SUFFICES ASSUME NEW p \in Procs, Reading(p)', pstate'[p] # "SLEEP", ~Polling'
               PROVE  drive'.status = "drq"
    BY DEF AwakeHaveData
  <2>1. p # currentProcess
    OBVIOUS
  <2>2. Reading(p) /\ pstate[p] # "SLEEP"
    BY <1>3, <2>1 DEF Reading
  <2>3. Size # 0 /\ drive.status = "drq"
    BY <1>2, <2>2, EmptyRing DEF DataInv, AwakeHaveData
  <2> QED
    BY <1>1, <2>3
<1>12. LatchedForHead'
  <2> SUFFICES ASSUME PollModes \subseteq {FALSE}
               PROVE  ATALine \in irr' <=> Size' # 0 /\ drive'.status = "drq"
                                          /\ pstate'[ATARequestQueueFront'.process] = "SLEEP"
    BY DEF LatchedForHead, ATALine
  <2>1. CASE Size = 0
    <3>1. drive'.status = "busy"
      BY <1>8, <2>1 DEF HeadCommand
    <3>2. ATALine \notin irr
      BY <2>1 DEF DataInv, LatchedForHead
    <3> QED
      BY <3>1, <3>2
  <2>2. CASE Size # 0
    <3>1. pstate'[ATARequestQueueFront.process] = pstate[ATARequestQueueFront.process]
      BY <1>2, <2>2, HeadIsReading DEF DataInv
    <3>2. Size' # 0 /\ drive' = drive /\ ATARequestQueueFront' = ATARequestQueueFront
      BY <1>1, <1>6, <2>2
    <3> QED
      BY <2>2, <3>1, <3>2 DEF DataInv, LatchedForHead
  <2> QED
    BY <2>1, <2>2
<1>13. RequestsMatchCalls'
  <2>1. PICK n \in Nat : n = Size
    BY <1>6
  <2>2. ASSUME NEW i \in Queue
        PROVE  (/\ call[Entry(i).process].lba = Entry(i).lba
                /\ call[Entry(i).process].SizeOfBytes = Entry(i).SizeOfBytes)'
    BY <1>3, <1>6, <1>7 DEF DataInv, RequestsMatchCalls
  <2>3. (/\ call[Entry(n).process].lba = Entry(n).lba
         /\ call[Entry(n).process].SizeOfBytes = Entry(n).SizeOfBytes)'
    BY <1>4, <1>5, <1>6, <2>1
  <2> QED
    BY <1>6, <2>1, <2>2, <2>3 DEF RequestsMatchCalls
<1>14. ReadDeliversItsData'
  BY <1>3, <1>4 DEF DataInv, ReadDeliversItsData, Reading
<1> QED
  BY <1>9, <1>10, <1>11, <1>12, <1>13, <1>14 DEF DataInv

LEMMA ATAReadKeepsData ==
  ASSUME DataInv, RingInv', OneKindOfRead, WholeSectors,
         NEW lba \in Lbas, NEW size \in Sizes, NEW enablePoll \in BOOLEAN,
         ATARead(lba, size, enablePoll)
  PROVE  DataInv'
<1>1. cpu = "task" /\ enablePoll \in PollModes
  BY DEF ATARead
<1>2. PollModes \subseteq {FALSE} \/ Size = 0
  BY <1>1, PollersAreAlone, AtaAssumption DEF OneKindOfRead, DataInv
<1>3. CASE ReadFull(lba, size)
  BY <1>1, <1>3, FullKeepsData
<1>4. CASE /\ Enqueue(lba, size)
           /\ Schedule([pstate EXCEPT ![currentProcess] = "SLEEP"], "sleep")
           /\ UNCHANGED irr
  <2>1. pstate' = [pstate EXCEPT ![currentProcess] = "SLEEP"]
        /\ currentProcess \in Procs /\ pstate \in [Procs -> States]
    BY <1>4 DEF Schedule, DataInv, RingInv, Types, SchedulerTypes
  <2> QED
    BY <1>1, <1>2, <1>4, <2>1, EnqueueKeepsData
<1>5. CASE /\ Enqueue(lba, size)
           /\ cpu' = "ATAPollingUntilReady"
           /\ UNCHANGED <<pstate, currentProcess, irr>>
  <2>1. Polling'
    BY <1>5 DEF Polling
  <2> QED
    BY <1>1, <1>2, <1>5, <2>1, EnqueueKeepsData
<1> QED
  BY <1>3, <1>4, <1>5 DEF ATARead

\* One sector that is ready is read to its end, and leaves the drive at rest.
LEMMA OneSectorIsRead ==
  ASSUME NEW lba \in Nat
  PROVE  LET d == [status |-> "drq", lba |-> lba, left |-> 1, taken |-> 0]
         IN  /\ InTime(d, WordsPerSector) = {1}
             /\ AfterReading(d, WordsPerSector, 1) = NoCommand
             /\ Data(d, 1, 1) = [i \in 1 .. 1 |-> lba + i - 1]
<1> DEFINE d == [status |-> "drq", lba |-> lba, left |-> 1, taken |-> 0]
<1>1. d.status = "drq" /\ d.lba = lba /\ d.left = 1 /\ d.taken = 0
  OBVIOUS
<1> HIDE DEF d
<1>2. Touched(d, WordsPerSector) = 1
  BY <1>1 DEF Touched, WordsPerSector
<1>3. InTime(d, WordsPerSector) = {1}
  BY <1>1, <1>2 DEF InTime, WordsPerSector
<1>4. AfterReading(d, WordsPerSector, 1) = NoCommand
  BY <1>1 DEF AfterReading, WordsPerSector
<1>5. Data(d, 1, 1) = [i \in 1 .. 1 |-> lba + i - 1]
  BY <1>1 DEF Data
<1> QED
  BY <1>3, <1>4, <1>5 DEF d

LEMMA ReturnsKeepData ==
  ASSUME DataInv, RingInv', OneKindOfRead, WholeSectors, ATAReadReturns
  PROVE  DataInv'
<1> DEFINE front == ATARequestQueueFront
<1>1. FinishWithData
  BY DEF ATAReadReturns, Finish, FinishWithError, DataInv, RingInv
<1>2. currentProcess \in Procs /\ DOMAIN call = Procs /\ DOMAIN buffer = Procs
  BY DEF DataInv, RingInv, Types, SchedulerTypes, DriverTypes
<1>3. InATARead(currentProcess) /\ pstate[currentProcess] = "RUNNING"
  BY DEF ATAReadReturns, ATAReadWoken, ATAPollingUntilReady, InATARead, Polling, DataInv,
         RingInv, Switches
<1>4. Reading(currentProcess) /\ front.process = currentProcess
  BY <1>2, <1>3 DEF DataInv, RingInv, Readers
<1>5. Size # 0
  BY <1>2, <1>4, EmptyRing DEF DataInv
<1>6. /\ front \in Requests /\ front.lba \in Nat /\ front.SizeOfBytes \in Sizes
      /\ 0 \in Queue /\ front = Entry(0)
  BY <1>5, HeadIsReading DEF DataInv
<1>7. drive.status = "drq"
  <2>1. CASE ATAReadWoken
    <3>1. ~Polling
      BY <2>1 DEF ATAReadWoken, Polling
    <3> QED
      BY <1>2, <1>3, <1>4, <3>1 DEF DataInv, AwakeHaveData
  <2>2. CASE ATAPollingUntilReady
    BY <2>2 DEF ATAPollingUntilReady, DataInv, RingInv
  <2> QED
    BY <2>1, <2>2 DEF ATAReadReturns
<1>8. drive = [status |-> "drq", lba |-> front.lba, left |-> 1, taken |-> 0]
  BY <1>5, <1>7 DEF DataInv, DriveServesHead, HeadCommand
<1>9. sectorCount(front.SizeOfBytes) = 1 /\ words(front.SizeOfBytes) = WordsPerSector
  BY <1>6 DEF WholeSectors
<1> DEFINE next == queueBody[HeadIndex']
<1>10. /\ ATARequestQueuePop /\ Return(front.SizeOfBytes)
       /\ buffer' = [buffer EXCEPT ![currentProcess] = [i \in 1 .. 1 |-> front.lba + i - 1]]
       /\ irr' = irr
       /\ intrq' = FALSE
       /\ IF MoreToSend THEN drive' = ATASendRequest(NoCommand, next) ELSE drive' = NoCommand
  <2>1. PICK k \in InTime(drive, WordsPerSector) :
          /\ buffer' = [buffer EXCEPT ![front.process] = Data(drive, 1, k)]
          /\ irr' = IF k > 1 THEN irr \cup {ATALine} ELSE irr
          /\ IF MoreToSend
             THEN /\ drive' = ATASendRequest(AfterReading(drive, WordsPerSector, k), next)
                  /\ intrq' = FALSE
             ELSE drive' = AfterReading(drive, WordsPerSector, k) /\ intrq' = (k > 1)
    BY <1>1, <1>9 DEF FinishWithData
  <2>2. k = 1 /\ AfterReading(drive, WordsPerSector, k) = NoCommand
        /\ Data(drive, 1, k) = [i \in 1 .. 1 |-> front.lba + i - 1]
    BY <1>6, <1>8, <2>1, OneSectorIsRead
  <2>3. (k > 1) = FALSE
    BY <2>2
  <2>4. intrq' = FALSE /\ irr' = irr
    BY <2>1, <2>3
  <2>5. ATARequestQueuePop /\ Return(front.SizeOfBytes)
    BY <1>1 DEF FinishWithData
  <2> QED
    BY <1>4, <2>1, <2>2, <2>4, <2>5
<1>11. /\ Size' = Size - 1 /\ queueBody' = queueBody
       /\ \A i \in Queue' : i \in Nat /\ i + 1 \in Queue /\ Entry(i)' = Entry(i + 1)
  <2>1. Size > 0
    BY <1>5, CapacityType DEF DataInv, RingInv, Types, DriverTypes
  <2> QED
    BY <1>10, <2>1, PopShifts DEF DataInv, RingInv
<1>12. cpu' = "task" /\ UNCHANGED <<pstate, currentProcess>>
  BY DEF ATAReadReturns
<1>13. \A p \in Procs : p # currentProcess => call'[p] = call[p] /\ buffer'[p] = buffer[p]
  BY <1>2, <1>10 DEF Return
<1>14. /\ ~Reading(currentProcess)'
       /\ call'[currentProcess].returned = front.SizeOfBytes
       /\ call'[currentProcess].lba = call[currentProcess].lba
       /\ call'[currentProcess].SizeOfBytes = call[currentProcess].SizeOfBytes
       /\ buffer'[currentProcess] = [i \in 1 .. 1 |-> front.lba + i - 1]
  <2>1. call[currentProcess] \in Calls
    BY <1>2 DEF DataInv, RingInv, Types, DriverTypes
  <2>2. call'[currentProcess] = [call[currentProcess] EXCEPT !.reading = FALSE,
                                                          !.returned = front.SizeOfBytes]
    BY <1>2, <1>10, <2>1 DEF Return, Calls
  <2>3. /\ call'[currentProcess].reading = FALSE
        /\ call'[currentProcess].returned = front.SizeOfBytes
        /\ call'[currentProcess].lba = call[currentProcess].lba
        /\ call'[currentProcess].SizeOfBytes = call[currentProcess].SizeOfBytes
    BY <2>1, <2>2 DEF Calls
  <2>4. buffer'[currentProcess] = [i \in 1 .. 1 |-> front.lba + i - 1]
    BY <1>2, <1>10
  <2> QED
    BY <1>12, <2>3, <2>4 DEF Reading
<1>15. ReadDeliversItsData'
  <2>1. call[currentProcess].lba = front.lba /\ call[currentProcess].SizeOfBytes = front.SizeOfBytes
    BY <1>4, <1>6 DEF DataInv, RequestsMatchCalls
  <2>2. buffer'[currentProcess] =
          Sectors(call'[currentProcess].lba, call'[currentProcess].SizeOfBytes)
    BY <1>9, <1>14, <2>1 DEF Sectors
  <2> QED
    BY <1>13, <1>14, <2>1, <2>2 DEF DataInv, ReadDeliversItsData, Reading
<1>16. RequestsMatchCalls'
  <2>1. \A i \in Queue' : Entry(i + 1).process \in Procs /\ Entry(i + 1).process # currentProcess
    <3>1. \A i \in Queue' : i + 1 # 0
      BY <1>11
    <3> QED
      BY <1>4, <1>6, <1>11, <3>1 DEF DataInv, RingInv, RingEntries, Requests
  <2> QED
    BY <1>11, <1>13, <2>1 DEF DataInv, RequestsMatchCalls
<1>17. DriveServesHead' /\ (Size' # 0 => drive'.status = "busy")
  <2>1. Size \in Nat
    BY CapacityType DEF DataInv, RingInv, Types, DriverTypes
  <2>2. CASE Size' = 0
    <3>1. ~MoreToSend
      BY <2>2 DEF MoreToSend
    <3> QED
      BY <1>10, <2>2, <3>1 DEF DriveServesHead
  <2>3. CASE Size' # 0
    <3>1. MoreToSend
      BY <1>5, <1>11, <2>1, <2>3 DEF MoreToSend
    <3>2. ATARequestQueueFront' = next /\ next \in Requests
      <4>1. next = Entry(1)
        BY <1>5, <1>10 DEF ATARequestQueuePop, Entry, Capacity
      <4>2. 1 \in Queue
        BY <1>5, <1>11, <2>1, <2>3 DEF Queue
      <4>3. ATARequestQueueFront' = next
        BY <1>11 DEF ATARequestQueueFront
      <4> QED
        BY <4>1, <4>2, <4>3 DEF DataInv, RingInv, RingEntries
    <3>3. sectorCount(next.SizeOfBytes) = 1
      BY <3>2 DEF WholeSectors, Requests
    <3> HIDE DEF next
    <3>4. CountRegister(1) = 1
      BY DEF CountRegister
    <3>5. drive' = [status |-> "busy", lba |-> next.lba, left |-> 1, taken |-> 0]
      BY <1>10, <3>1, <3>3, <3>4 DEF ATASendRequest, NoCommand
    <3> QED
      BY <2>3, <3>2, <3>5 DEF DriveServesHead, HeadCommand
  <2> QED
    BY <2>2, <2>3
<1>18. AwakeHaveData'
  BY <1>4, <1>12, <1>13, <1>14 DEF DataInv, RingInv, Readers, AwakeHaveData, Reading
<1>19. LatchedForHead'
  <2>1. PollModes \subseteq {FALSE} => ATALine \notin irr
    BY <1>3, <1>4 DEF DataInv, LatchedForHead
  <2> QED
    BY <1>10, <1>17, <2>1 DEF LatchedForHead, ATALine
<1> QED
  BY <1>10, <1>15, <1>16, <1>17, <1>18, <1>19 DEF DataInv

LEMMA StepKeepsData ==
  ASSUME DataInv, OneKindOfRead, ~DiskErrors, WholeSectors, [AtaNext]_vars
  PROVE  DataInv'
<1>1. RingInv'
  BY StepKeepsRing DEF DataInv
<1>2. ASSUME \/ Tick \/ KeyPress \/ HPETHandler \/ doKBCInterrupt \/ ResumeElsewhere
             \/ SchedulerStart \/ sysExit
             \/ \E child \in Procs : sysFork(child) \/ KernelThread(child),
             UNCHANGED ataVars
      PROVE  DataInv'
  BY <1>1, <1>2, SchedulerStepKeepsData
<1>3. CASE DriveAnswers
  BY <1>1, <1>3, DriveAnswersKeepsData
<1>4. CASE ATAHandler
  BY <1>1, <1>4, HandlerKeepsData
<1>5. ASSUME NEW lba \in Lbas, NEW size \in Sizes, NEW enablePoll \in BOOLEAN,
             ATARead(lba, size, enablePoll)
      PROVE  DataInv'
  BY <1>1, <1>5, ATAReadKeepsData
<1>6. CASE ATAReadReturns
  BY <1>1, <1>6, ReturnsKeepData
<1>7. CASE UNCHANGED vars
  <2>1. UNCHANGED <<ataVars, pstate, cpu, irr>>
    BY <1>7 DEF vars, schedVars
  <2>2. AwakeHaveData' /\ LatchedForHead'
    BY <2>1 DEF DataInv, AwakeHaveData, LatchedForHead, Reading, Polling, ATARequestQueueFront,
                ATALine, ataVars
  <2> QED
    BY <1>1, <2>1, <2>2, DriverUntouched DEF DataInv, ataVars
<1> QED
  BY <1>2, <1>3, <1>4, <1>5, <1>6, <1>7 DEF AtaNext

LEMMA InitData == AtaInit => DataInv
<1> SUFFICES ASSUME AtaInit
             PROVE  DataInv
  OBVIOUS
<1>1. \A p \in Procs : ~Reading(p) /\ call[p].returned = -1
  BY DEF AtaInit, Reading, NoCall
<1>2. Queue = {}
  BY DEF AtaInit, Queue
<1>3. drive = NoCommand /\ drive.status = "idle" /\ Size = 0 /\ irr = {} /\ intrq = FALSE
  BY DEF AtaInit, Init, NoCommand
<1> QED
  BY <1>1, <1>2, <1>3, InitRing
  DEF DataInv, DriveServesHead, AwakeHaveData, LatchedForHead, RequestsMatchCalls,
      ReadDeliversItsData

LEMMA DataInvariant ==
  OneKindOfRead /\ ~DiskErrors /\ WholeSectors => (AtaSpec => []DataInv)
<1> SUFFICES ASSUME OneKindOfRead, ~DiskErrors, WholeSectors
             PROVE  AtaSpec => []DataInv
  OBVIOUS
<1>1. DataInv /\ [AtaNext]_vars => DataInv'
  BY StepKeepsData
<1> QED
  BY <1>1, InitData, PTL DEF AtaSpec

\* A read of one whole sector fills the buffer of its own caller with the sector
\* the caller asked for, though ATARead takes both from the head of the ring:
\* with any number of readers, of requests in the ring and of other processes,
\* whether reads sleep or poll, and with the interrupt of the drive masked or not.
THEOREM ReadsAreDelivered ==
  OneKindOfRead /\ ~DiskErrors /\ WholeSectors => (AtaSpec => []ReadDeliversItsData)
<1>1. DataInv => ReadDeliversItsData
  BY DEF DataInv
<1> QED
  BY <1>1, DataInvariant, PTL

SleepingReads == PollModes \subseteq {FALSE} /\ ~DiskErrors /\ WholeSectors

\* No wakeup is lost among reads that sleep for one whole sector each.
THEOREM NoWakeupIsLost == SleepingReads => (AtaSpec => []SleeperWillBeWoken)
<1> SUFFICES ASSUME SleepingReads
             PROVE  AtaSpec => []SleeperWillBeWoken
  OBVIOUS
<1>1. DataInv => SleeperWillBeWoken
  <2> SUFFICES ASSUME DataInv, Size > 0, pstate[ATARequestQueueFront.process] = "SLEEP"
               PROVE  /\ drive.status = "busy" \/ ATALine \in irr
                      /\ drive.lba = ATARequestQueueFront.lba
    BY DEF SleeperWillBeWoken
  <2>1. Size # 0
    BY CapacityType DEF DataInv, RingInv, Types, DriverTypes
  <2>2. drive \in {HeadCommand("busy"), HeadCommand("drq")}
    BY <2>1 DEF DataInv, DriveServesHead
  <2>3. drive.lba = ATARequestQueueFront.lba /\ drive.status \in {"busy", "drq"}
    BY <2>2 DEF HeadCommand
  <2> QED
    BY <2>1, <2>3 DEF DataInv, LatchedForHead, SleepingReads
<1> QED
  BY <1>1, DataInvariant, PTL DEF SleepingReads, OneKindOfRead

\* When the handler of the drive runs, the read at the head of the ring is the
\* one that ended: its data is there, and its process still asleep.
THEOREM HandlerMeetsFinishedHead == SleepingReads => (AtaSpec => InterruptMeansHeadIsDone)
<1> SUFFICES ASSUME SleepingReads
             PROVE  AtaSpec => InterruptMeansHeadIsDone
  OBVIOUS
<1>1. DataInv /\ HandlerRuns => HeadIsDone
  <2> SUFFICES ASSUME DataInv, HandlerRuns
               PROVE  HeadIsDone
    OBVIOUS
  <2>1. /\ Size # 0 /\ drive.status = "drq"
        /\ pstate[ATARequestQueueFront.process] = "SLEEP"
    BY DEF DataInv, LatchedForHead, SleepingReads, HandlerRuns
  <2>2. Size > 0
    BY <2>1, CapacityType DEF DataInv, RingInv, Types, DriverTypes
  <2>3. drive = HeadCommand("drq")
    BY <2>1 DEF DataInv, DriveServesHead, HeadCommand
  <2> QED
    BY <2>1, <2>2, <2>3 DEF HeadIsDone, HeadCommand
<1>2. DataInv => [HandlerRuns => HeadIsDone]_vars
  BY <1>1
<1>3. []DataInv => InterruptMeansHeadIsDone
  BY <1>2, PTL DEF InterruptMeansHeadIsDone
<1> QED
  BY <1>3, DataInvariant, PTL DEF SleepingReads, OneKindOfRead

-----------------------------------------------------------------------------
(***************************************************************************)
(* The driver's use of the scheduler.  Each action of Scheduler that Ata   *)
(* takes over is one of the instance Sched; the steps of the driver are    *)
(* sleeps, wakeups, resumptions or nothing at all.                         *)
(***************************************************************************)
LEMMA SameMask == Sched!BootMask = BootMask
BY DEF BootMask, ATAInit, SyscallInit, HPETInit, KBCInit, picInit, EnableInterruptOnPIC,
       LinesOf, OnMaster, OnSlave, Line, Lines, Cascade, ATA_INTERRUPT_NUM,
       KBC_INTERRUPT_NUM, HPET_INTERRUPT_NUM, SYSCALL_INTERRUPT_NUM,
       PIC_MASTER_INTERRUPT_NUM, PIC_SLAVE_INTERRUPT_NUM,
       Sched!BootMask, Sched!ATAInit, Sched!SyscallInit, Sched!HPETInit, Sched!KBCInit,
       Sched!picInit, Sched!EnableInterruptOnPIC, Sched!LinesOf, Sched!OnMaster,
       Sched!OnSlave, Sched!Line, Sched!Lines, Sched!Cascade, Sched!ATA_INTERRUPT_NUM,
       Sched!KBC_INTERRUPT_NUM, Sched!HPET_INTERRUPT_NUM, Sched!SYSCALL_INTERRUPT_NUM,
       Sched!PIC_MASTER_INTERRUPT_NUM, Sched!PIC_SLAVE_INTERRUPT_NUM

LEMMA SameEndOfInterrupt ==
  ASSUME NEW s, NEW n
  PROVE  Sched!SendEndOfInterrupt(s, n) = SendEndOfInterrupt(s, n)
BY DEF SendEndOfInterrupt, LinesOf, OnMaster, OnSlave, Line, Cascade,
       PIC_MASTER_INTERRUPT_NUM, PIC_SLAVE_INTERRUPT_NUM,
       Sched!SendEndOfInterrupt, Sched!LinesOf, Sched!OnMaster, Sched!OnSlave, Sched!Line,
       Sched!Cascade, Sched!PIC_MASTER_INTERRUPT_NUM, Sched!PIC_SLAVE_INTERRUPT_NUM

\* Without the line of the drive, the timer and the keyboard are presented still.
LEMMA SamePresented ==
  ASSUME NEW l \in {0, 1}, Presented(l)
  PROVE  Sched!Presented(l)
<1>1. \A k \in irr \ {ATALine} : Sched!Presentable(BootMask, k) => Presentable(BootMask, k)
  BY DEF Sched!Presentable, Presentable, HeldBack, Sched!HeldBack, MasterLine,
         Sched!MasterLine, Cascade, Sched!Cascade, Unmasked, Sched!Unmasked
<1>2. Sched!Presentable(BootMask, l)
  BY Line14
  DEF Presented, PresentedUnder, Sched!Presentable, Presentable, HeldBack, Sched!HeldBack,
      MasterLine, Sched!MasterLine, Cascade, Sched!Cascade, Unmasked, Sched!Unmasked
<1> QED
  BY <1>1, <1>2, SameMask
  DEF Presented, PresentedUnder, Sched!Presented, Sched!PresentedUnder, MasterLine,
      Sched!MasterLine, Cascade, Sched!Cascade

LEMMA SameSchedule ==
  ASSUME NEW st, NEW point, cpu = "task", Schedule(st, point)
  PROVE  Sched!Schedule(st, point)
BY DEF Schedule, FindNextTask, Distance, Position,
       Sched!Schedule, Sched!FindNextTask, Sched!Distance, Sched!Position

LEMMA SameServiceAfter ==
  ASSUME NEW point
  PROVE  Sched!ServiceAfter(point) = ServiceAfter(point)
BY SameEndOfInterrupt
DEF ServiceAfter, Resumable, HPET_INTERRUPT_NUM, SYSCALL_INTERRUPT_NUM,
    Sched!ServiceAfter, Sched!Resumable, Sched!HPET_INTERRUPT_NUM, Sched!SYSCALL_INTERRUPT_NUM

LEMMA SyscallConcernsNoLine == SyscallReturns => Sched!SyscallReturns /\ isr' = isr
BY SameEndOfInterrupt
DEF SyscallReturns, SYSCALL_INTERRUPT_NUM, SendEndOfInterrupt, LinesOf, OnMaster, OnSlave,
    PIC_MASTER_INTERRUPT_NUM, PIC_SLAVE_INTERRUPT_NUM,
    Sched!SyscallReturns, Sched!SYSCALL_INTERRUPT_NUM

LEMMA SameFork ==
  ASSUME NEW child, DoFork(child)
  PROVE  Sched!DoFork(child)
BY DEF DoFork, CopyProcess, ListAdd, Position, NewProcessId,
       Sched!DoFork, Sched!CopyProcess, Sched!ListAdd, Sched!Position, Sched!NewProcessId

\* A process that is taken up again, whatever the driver does behind sleep().
LEMMA SameResume ==
  ASSUME cpu = "resumed", cpu' = "task", isr' = ServiceAfter(resume[currentProcess]),
         resume' = [resume EXCEPT ![currentProcess] = "none"],
         UNCHANGED <<processList, pstate, pid, parent, currentProcess, hpetEnabled>>,
         irr' \ {ATALine} = irr \ {ATALine}
  PROVE  Sched!Resume
BY SameServiceAfter
DEF Sched!Resume, ATALine, Line, ATA_INTERRUPT_NUM, PIC_MASTER_INTERRUPT_NUM

LEMMA SchedulerStepIsOne ==
  ASSUME \/ Tick \/ KeyPress \/ HPETHandler \/ doKBCInterrupt \/ ResumeElsewhere
         \/ SchedulerStart \/ sysExit
         \/ \E child \in Procs : sysFork(child) \/ KernelThread(child)
  PROVE  Sched!Next
<1> USE DEF ATALine, Line, ATA_INTERRUPT_NUM, PIC_MASTER_INTERRUPT_NUM
<1>1. Tick => Sched!Tick
  BY DEF Tick, Sched!Tick
<1>2. KeyPress => Sched!KeyPress
  BY DEF KeyPress, Sched!KeyPress
<1>3. HPETHandler => Sched!HPETHandler
  <2> SUFFICES ASSUME HPETHandler
               PROVE  Sched!HPETHandler
    OBVIOUS
  <2>1. Sched!Schedule(pstate, "HPETHandler")
    BY SameSchedule DEF HPETHandler, Acknowledge
  <2>2. Sched!Acknowledge(0)
    BY SamePresented DEF HPETHandler, Acknowledge, Sched!Acknowledge
  <2> QED
    BY <2>1, <2>2
    DEF HPETHandler, Sched!HPETHandler, InServiceWith, Sched!InServiceWith, MasterLine,
        Sched!MasterLine, Cascade, Sched!Cascade
<1>4. doKBCInterrupt => Sched!doKBCInterrupt
  <2> SUFFICES ASSUME doKBCInterrupt
               PROVE  Sched!doKBCInterrupt
    OBVIOUS
  <2>1. Sched!Acknowledge(1)
    BY SamePresented DEF doKBCInterrupt, Acknowledge, Sched!Acknowledge
  <2> QED
    BY <2>1, SameEndOfInterrupt
    DEF doKBCInterrupt, Sched!doKBCInterrupt, Acknowledge, InServiceWith, MasterLine, Cascade,
        KBC_INTERRUPT_NUM, Sched!InServiceWith, Sched!MasterLine, Sched!Cascade,
        Sched!KBC_INTERRUPT_NUM
<1>5. ResumeElsewhere => Sched!Resume
  BY SameResume DEF ResumeElsewhere, Resume
<1>6. SchedulerStart => Sched!SchedulerStart
  BY DEF SchedulerStart, HPETStartPeriodicTimer, Sched!SchedulerStart,
         Sched!HPETStartPeriodicTimer
<1>7. sysExit => Sched!sysExit
  BY SameSchedule DEF sysExit, ExitState, Sched!sysExit, Sched!ExitState
<1>8. \A child \in Procs : sysFork(child) => Sched!sysFork(child)
  BY SameFork, SyscallConcernsNoLine DEF sysFork, Sched!sysFork
<1>9. \A child \in Procs : KernelThread(child) => Sched!KernelThread(child)
  BY SameFork DEF KernelThread, Sched!KernelThread
<1> QED
  BY <1>1, <1>2, <1>3, <1>4, <1>5, <1>6, <1>7, <1>8, <1>9 DEF Sched!Next

\* What the scheduler sees of a step that changes none of its variables.
LEMMA UnseenStep ==
  ASSUME UNCHANGED <<processList, pstate, pid, parent, currentProcess, resume, hpetEnabled, isr>>,
         irr' \ {ATALine} = irr \ {ATALine},
         cpu' = cpu \/ {cpu, cpu'} \subseteq {"task", "ATAPollingUntilReady"}
  PROVE  UNCHANGED Sched!schedVars
BY DEF Sched!schedVars, ATALine, Line, ATA_INTERRUPT_NUM, PIC_MASTER_INTERRUPT_NUM

LEMMA ATAReadIsSleep ==
  ASSUME NEW lba, NEW size, NEW enablePoll, ATARead(lba, size, enablePoll)
  PROVE  Sched!sleep \/ UNCHANGED Sched!schedVars
<1>1. CASE ReadFull(lba, size)
  <2>1. isr' = isr
    BY <1>1, SyscallConcernsNoLine DEF ReadFull
  <2> QED
    BY <1>1, <2>1, UnseenStep DEF ReadFull
<1>2. CASE /\ Schedule([pstate EXCEPT ![currentProcess] = "SLEEP"], "sleep")
           /\ UNCHANGED <<irr, isr>>
  <2>1. cpu = "task" /\ currentProcess \notin Busy
    BY DEF ATARead
  <2>2. Sched!Schedule([pstate EXCEPT ![currentProcess] = "SLEEP"], "sleep")
    BY <1>2, <2>1, SameSchedule
  <2> QED
    BY <1>2, <2>1, <2>2
    DEF Sched!sleep, ATALine, Line, ATA_INTERRUPT_NUM, PIC_MASTER_INTERRUPT_NUM
<1>3. CASE /\ cpu' = "ATAPollingUntilReady"
           /\ UNCHANGED <<processList, pstate, pid, parent, currentProcess, resume,
                          hpetEnabled, irr, isr>>
  BY <1>3, UnseenStep DEF ATARead
<1> QED
  BY <1>1, <1>2, <1>3 DEF ATARead

LEMMA ReturnIsResume ==
  ASSUME ATAReadReturns
  PROVE  Sched!Resume \/ UNCHANGED Sched!schedVars
<1>1. irr' \ {ATALine} = irr \ {ATALine}
  BY DEF ATAReadReturns, Finish, FinishWithError, FinishWithData
<1>2. CASE ATAReadWoken
  BY <1>1, <1>2, SameResume DEF ATAReadReturns, ATAReadWoken
<1>3. CASE ATAPollingUntilReady
  <2>1. isr' = isr
    BY <1>3, SyscallConcernsNoLine DEF ATAPollingUntilReady
  <2> QED
    BY <1>1, <1>3, <2>1, UnseenStep DEF ATAReadReturns, ATAPollingUntilReady
<1> QED
  BY <1>2, <1>3 DEF ATAReadReturns

\* With the mask this commit leaves, the line of the drive is never presented.
LEMMA MaskedHandlerNeverRuns ==
  ASSUME ~AtaIrqUnmasked
  PROVE  ~ATAHandler
<1>1. ATALine \in BootMask
  <2>1. 14 \in 0 .. 15
    OBVIOUS
  <2> QED
    BY <2>1, Line14
    DEF BootMask, ATAInit, SyscallInit, HPETInit, KBCInit, picInit, EnableInterruptOnPIC,
        LinesOf, OnMaster, OnSlave, Line, Lines, KBC_INTERRUPT_NUM, HPET_INTERRUPT_NUM,
        SYSCALL_INTERRUPT_NUM, PIC_MASTER_INTERRUPT_NUM, PIC_SLAVE_INTERRUPT_NUM
<1> QED
  BY <1>1 DEF ATAHandler, Acknowledge, Presented, PresentedUnder, Presentable, Unmasked

LEMMA HandlerIsWakeup ==
  ASSUME DataInv, PollModes \subseteq {FALSE}, ATAHandler
  PROVE  \E p \in Procs : Sched!wakeup(p)
<1> DEFINE p == ATARequestQueueFront.process
<1>1. /\ cpu = "task" /\ ATALine \in irr /\ ~HeldBack(ATALine) /\ irr' = irr \ {ATALine}
      /\ pstate' = [q \in Procs |-> IF q = p THEN "RUNNING" ELSE pstate[q]]
      /\ isr' = SendEndOfInterrupt(InServiceWith(ATALine), ATA_INTERRUPT_NUM)
      /\ UNCHANGED <<processList, pid, parent, currentProcess, resume, cpu, hpetEnabled>>
  BY DEF ATAHandler, Acknowledge, Presented, PresentedUnder, Presentable, Woken
<1>2. Size # 0 /\ pstate[p] = "SLEEP"
  BY <1>1 DEF DataInv, LatchedForHead
<1>3. p \in Procs /\ pstate \in [Procs -> States]
  BY <1>2, HeadIsReading DEF DataInv, RingInv, Types, SchedulerTypes
<1>4. pstate' = [pstate EXCEPT ![p] = "RUNNING"]
  BY <1>1, <1>3
<1>5. isr' = isr
  <2>1. 2 \notin isr /\ 14 \notin isr
    BY <1>1, Line14 DEF HeldBack, MasterLine, Cascade
  <2>2. LinesOf(ATA_INTERRUPT_NUM) = {2, 14} /\ InServiceWith(ATALine) = isr \cup {14, 2}
    BY Line14 DEF LinesOf, OnMaster, OnSlave, Line, Cascade, ATA_INTERRUPT_NUM, InServiceWith,
                  MasterLine, PIC_MASTER_INTERRUPT_NUM, PIC_SLAVE_INTERRUPT_NUM
  <2> QED
    BY <1>1, <2>1, <2>2 DEF SendEndOfInterrupt
<1> HIDE DEF p
<1>6. Sched!wakeup(p)
  BY <1>1, <1>2, <1>4, <1>5
  DEF Sched!wakeup, ATALine, Line, ATA_INTERRUPT_NUM, PIC_MASTER_INTERRUPT_NUM
<1> QED
  BY <1>3, <1>6

LEMMA StepImplements ==
  ASSUME ~AtaIrqUnmasked \/ (DataInv /\ PollModes \subseteq {FALSE}), [AtaNext]_vars
  PROVE  [Sched!Next]_(Sched!schedVars)
<1>1. CASE DriveAnswers
  <2>1. irr' \ {ATALine} = irr \ {ATALine}
    BY <1>1 DEF DriveAnswers, Raise
  <2> QED
    BY <1>1, <2>1, UnseenStep DEF DriveAnswers
<1>2. CASE ATAHandler
  BY <1>2, MaskedHandlerNeverRuns, HandlerIsWakeup DEF Sched!Next
<1>3. CASE \E lba \in Lbas, size \in Sizes, enablePoll \in BOOLEAN : ATARead(lba, size, enablePoll)
  BY <1>3, ATAReadIsSleep DEF Sched!Next
<1>4. CASE ATAReadReturns
  BY <1>4, ReturnIsResume DEF Sched!Next
<1>5. CASE UNCHANGED vars
  BY <1>5, UnseenStep DEF vars, schedVars
<1> QED
  BY <1>1, <1>2, <1>3, <1>4, <1>5, SchedulerStepIsOne DEF AtaNext

LEMMA InitImplements == AtaInit => Sched!Init
BY DEF AtaInit, Init, Sched!Init

\* The driver uses the scheduler as module Scheduler allows, with the interrupt
\* of the drive masked, as in this commit, whatever is read and whatever goes
\* wrong, and with it unmasked for reads that sleep for whole sectors.
THEOREM DriverImplementsScheduler ==
  ~AtaIrqUnmasked \/ SleepingReads => (AtaSpec => ImplementsScheduler)
<1>1. ASSUME ~AtaIrqUnmasked
      PROVE  AtaSpec => ImplementsScheduler
  <2>1. [AtaNext]_vars => [Sched!Next]_(Sched!schedVars)
    BY <1>1, StepImplements
  <2> QED
    BY <2>1, InitImplements, PTL DEF AtaSpec, ImplementsScheduler, Sched!Spec
<1>2. ASSUME SleepingReads
      PROVE  AtaSpec => ImplementsScheduler
  <2>1. DataInv /\ [AtaNext]_vars => [Sched!Next]_(Sched!schedVars)
    BY <1>2, StepImplements DEF SleepingReads
  <2>2. AtaSpec => []DataInv
    BY <1>2, DataInvariant DEF SleepingReads, OneKindOfRead
  <2> QED
    BY <2>1, <2>2, InitImplements, PTL DEF AtaSpec, ImplementsScheduler, Sched!Spec
<1> QED
  BY <1>1, <1>2

\* The two instances of Scheduler, the one of Ata and the one behind the theorems
\* of SchedulerProofs, are the same.
LEMMA SameNext == Sched!Next <=> SP!Next
BY DEF
  Sched!Next, Sched!Tick, Sched!KeyPress, Sched!HPETHandler, Sched!doKBCInterrupt,
  Sched!Resume, Sched!sysFork, Sched!KernelThread, Sched!SchedulerStart, Sched!sysExit,
  Sched!sleep, Sched!wakeup, Sched!Acknowledge, Sched!Presented, Sched!PresentedUnder,
  Sched!Presentable, Sched!Unmasked, Sched!HeldBack, Sched!MasterLine, Sched!InServiceWith,
  Sched!SendEndOfInterrupt, Sched!LinesOf, Sched!OnMaster, Sched!OnSlave, Sched!Line,
  Sched!Cascade, Sched!Lines, Sched!BootMask, Sched!ATAInit, Sched!SyscallInit,
  Sched!HPETInit, Sched!KBCInit, Sched!picInit, Sched!EnableInterruptOnPIC,
  Sched!ATA_INTERRUPT_NUM, Sched!KBC_INTERRUPT_NUM, Sched!HPET_INTERRUPT_NUM,
  Sched!SYSCALL_INTERRUPT_NUM, Sched!PIC_MASTER_INTERRUPT_NUM,
  Sched!PIC_SLAVE_INTERRUPT_NUM, Sched!Schedule, Sched!FindNextTask, Sched!Distance,
  Sched!Position, Sched!ServiceAfter, Sched!Resumable, Sched!DoFork, Sched!CopyProcess,
  Sched!ListAdd, Sched!NewProcessId, Sched!SyscallReturns, Sched!HPETStartPeriodicTimer,
  Sched!ExitState,
  SP!Next, SP!Tick, SP!KeyPress, SP!HPETHandler, SP!doKBCInterrupt,
  SP!Resume, SP!sysFork, SP!KernelThread, SP!SchedulerStart, SP!sysExit,
  SP!sleep, SP!wakeup, SP!Acknowledge, SP!Presented, SP!PresentedUnder,
  SP!Presentable, SP!Unmasked, SP!HeldBack, SP!MasterLine, SP!InServiceWith,
  SP!SendEndOfInterrupt, SP!LinesOf, SP!OnMaster, SP!OnSlave, SP!Line,
  SP!Cascade, SP!Lines, SP!BootMask, SP!ATAInit, SP!SyscallInit,
  SP!HPETInit, SP!KBCInit, SP!picInit, SP!EnableInterruptOnPIC,
  SP!ATA_INTERRUPT_NUM, SP!KBC_INTERRUPT_NUM, SP!HPET_INTERRUPT_NUM,
  SP!SYSCALL_INTERRUPT_NUM, SP!PIC_MASTER_INTERRUPT_NUM,
  SP!PIC_SLAVE_INTERRUPT_NUM, SP!Schedule, SP!FindNextTask, SP!Distance,
  SP!Position, SP!ServiceAfter, SP!Resumable, SP!DoFork, SP!CopyProcess,
  SP!ListAdd, SP!NewProcessId, SP!SyscallReturns, SP!HPETStartPeriodicTimer,
  SP!ExitState

LEMMA SameSpec == Sched!Spec <=> SP!Spec
<1>1. Sched!Init <=> SP!Init
  BY DEF Sched!Init, SP!Init
<1>2. [Sched!Next]_(Sched!schedVars) <=> [SP!Next]_(SP!schedVars)
  BY SameNext DEF Sched!schedVars, SP!schedVars
<1> QED
  BY <1>1, <1>2, PTL DEF Sched!Spec, SP!Spec

LEMMA SchedulerGuarantees ==
  Sched!Spec => [](RunsOnlyRunning /\ NoLineLeftInService /\ RingHoldsEachOnce)
<1>1. Sched!Spec => SP!Spec
  BY SameSpec
<1>2. SP!Spec => [](SP!RunsOnlyRunning /\ SP!NoLineLeftInService /\ SP!RingHoldsEachOnce)
  BY SP!OnlyRunningExecutes, SP!TimerNeverHeldBack, SP!RingComplete, ProcsAssumption,
     PicAssumption, PTL
<1>3. SP!RunsOnlyRunning /\ SP!NoLineLeftInService /\ SP!RingHoldsEachOnce =>
        RunsOnlyRunning /\ NoLineLeftInService /\ RingHoldsEachOnce
  BY DEF SP!RunsOnlyRunning, SP!NoLineLeftInService, SP!RingHoldsEachOnce, SP!Allocated,
         RunsOnlyRunning, NoLineLeftInService, RingHoldsEachOnce, Allocated
<1> QED
  BY <1>1, <1>2, <1>3, PTL

\* What was proved of the scheduler alone therefore holds with the disk driver on
\* top of it: no sleeper of a read is executed, no way through the driver leaves
\* the timer in service, and the ring of processes stays whole.
THEOREM SchedulingHoldsUnderDriver ==
  ~AtaIrqUnmasked \/ SleepingReads =>
    (AtaSpec => [](RunsOnlyRunning /\ NoLineLeftInService /\ RingHoldsEachOnce))
BY DriverImplementsScheduler, SchedulerGuarantees, PTL DEF ImplementsScheduler

-----------------------------------------------------------------------------
(***************************************************************************)
(* Files.  The disk: what lies in which sector.                            *)
(***************************************************************************)
LEMMA VolumeFields ==
  ASSUME NEW v \in Volumes
  PROVE  /\ v.active \in Nat /\ v.start \in Nat \ {0} /\ v.reserved \in Nat \ {0}
         /\ v.perCluster \in Nat \ {0} /\ v.rootEntries \in Nat \ {0}
         /\ v.fats \in Nat /\ v.perFAT \in Nat /\ v.fats * v.perFAT \in Nat
         /\ Len(v.files) \in Nat /\ DOMAIN v.files = 1 .. Len(v.files)
         /\ \A i \in 1 .. Len(v.files) : v.files[i] # <<>>
         /\ DOMAIN DiskOf(v) \subseteq Lbas
<1>1. v.files \in Seq(Seq(STRING) \ {<<>>})
  BY VolumesAssumption
<1>2. /\ Len(v.files) \in Nat /\ DOMAIN v.files = 1 .. Len(v.files)
      /\ \A i \in 1 .. Len(v.files) : v.files[i] # <<>>
  BY <1>1
<1>3. /\ v.active \in 0 .. 255
      /\ {v.start, v.reserved, v.perCluster, v.rootEntries} \subseteq Nat \ {0}
      /\ {v.fats, v.perFAT} \subseteq Nat
      /\ DOMAIN DiskOf(v) \subseteq Lbas
  BY VolumesAssumption
<1>4. v.fats \in Nat /\ v.perFAT \in Nat /\ v.active \in Nat
  BY <1>3
<1>5. v.fats * v.perFAT \in Nat
  <2>1. \A a \in Nat, b \in Nat : a * b \in Nat
    OBVIOUS
  <2> QED
    BY <1>4, <2>1
<1> QED
  BY <1>2, <1>3, <1>4, <1>5

\* A multiple of a larger number is larger.
LEMMA MultiplesGrow ==
  ASSUME NEW c \in Nat \ {0}, NEW i \in Nat, NEW j \in Nat, i < j
  PROVE  i * c < j * c /\ i * c \in Nat /\ j * c \in Nat
<1>1. PICK k \in Nat : j = i + 1 + k
  <2>1. j - i - 1 \in Nat /\ j = i + 1 + (j - i - 1)
    OBVIOUS
  <2> QED
    BY <2>1
<1>2. j * c = i * c + c + k * c
  BY <1>1
<1>3. k * c \in Nat /\ i * c \in Nat
  OBVIOUS
<1> QED
  BY <1>2, <1>3

\* The clusters lie behind one another, behind the root directory.
LEMMA ClustersInOrder ==
  ASSUME NEW v \in Volumes, NEW i \in Nat \ {0}, NEW j \in Nat \ {0}, i < j
  PROVE  /\ RootOf(v) \in Nat /\ v.start < RootOf(v)
         /\ ClusterOf(v, i) \in Nat /\ RootOf(v) < ClusterOf(v, i)
         /\ ClusterOf(v, j) \in Nat /\ ClusterOf(v, i) < ClusterOf(v, j)
<1> DEFINE c == v.perCluster
           f == v.fats * v.perFAT
           r == (v.rootEntries + 15) \div 16
<1>1. c \in Nat \ {0} /\ f \in Nat /\ r \in Nat \ {0} /\ v.start \in Nat \ {0} /\ v.reserved \in Nat \ {0}
  <2>1. \A n \in Nat \ {0} : (n + 15) \div 16 \in Nat \ {0}
    OBVIOUS
  <2> QED
    BY <2>1, VolumeFields
<1>2. RootOf(v) = v.start + v.reserved + f
  BY DEF RootOf
<1>3. \A k \in Nat : ClusterOf(v, k) = v.start + v.reserved + f + r + (k - 1) * c
  BY <1>2 DEF ClusterOf
<1> HIDE DEF c, f, r
<1>4. (i - 1) * c \in Nat /\ (j - 1) * c \in Nat /\ (i - 1) * c < (j - 1) * c
  <2>1. i - 1 \in Nat /\ j - 1 \in Nat /\ i - 1 < j - 1
    OBVIOUS
  <2> QED
    BY <1>1, <2>1, MultiplesGrow
<1> DEFINE ic == (i - 1) * c
           jc == (j - 1) * c
<1>5. ClusterOf(v, i) = v.start + v.reserved + f + r + ic
      /\ ClusterOf(v, j) = v.start + v.reserved + f + r + jc
  BY <1>3
<1>6. ic \in Nat /\ jc \in Nat /\ ic < jc
  BY <1>4
<1> HIDE DEF ic, jc
<1> QED
  BY <1>1, <1>2, <1>5, <1>6

LEMMA DiskLayout ==
  ASSUME NEW v \in Volumes, disk = DiskOf(v)
  PROVE  /\ 0 \in DOMAIN disk /\ disk[0] = MasterBootRecordOf(v)
         /\ v.start \in DOMAIN disk /\ disk[v.start] = BootRecordOf(v)
         /\ RootOf(v) \in DOMAIN disk /\ disk[RootOf(v)] = DirectoryOf(v.files)
         /\ \A i \in 1 .. Len(v.files) :
              /\ ClusterOf(v, i) \in DOMAIN disk
              /\ disk[ClusterOf(v, i)] = DataOf(v.files[i])
         /\ \A n \in Nat : n <= RootOf(v) => n \in DOMAIN disk
<1> DEFINE n == Len(v.files)
           last == ClusterOf(v, n + 1)
<1>1. n \in Nat /\ v.start \in Nat \ {0}
  BY VolumeFields
<1>2. \A i \in Nat \ {0}, j \in Nat \ {0} : i < j =>
         /\ RootOf(v) \in Nat /\ v.start < RootOf(v)
         /\ ClusterOf(v, i) \in Nat /\ RootOf(v) < ClusterOf(v, i)
         /\ ClusterOf(v, j) \in Nat /\ ClusterOf(v, i) < ClusterOf(v, j)
  BY ClustersInOrder
<1>3. /\ RootOf(v) \in Nat /\ v.start < RootOf(v) /\ last \in Nat /\ RootOf(v) < last
  <2>1. n + 1 \in Nat \ {0} /\ n + 2 \in Nat \ {0} /\ n + 1 < n + 2
    BY <1>1
  <2> QED
    BY <2>1, <1>2
<1>4. \A i \in 1 .. n : ClusterOf(v, i) \in Nat /\ RootOf(v) < ClusterOf(v, i) /\ ClusterOf(v, i) < last
  <2>1. n + 1 \in Nat \ {0} /\ \A i \in 1 .. n : i \in Nat \ {0} /\ i < n + 1
    BY <1>1
  <2> QED
    BY <2>1, <1>2
<1>5. \A i, j \in 1 .. n : ClusterOf(v, i) = ClusterOf(v, j) => i = j
  <2> SUFFICES ASSUME NEW i \in 1 .. n, NEW j \in 1 .. n, ClusterOf(v, i) = ClusterOf(v, j), i # j
               PROVE  FALSE
    OBVIOUS
  <2>1. i \in Nat \ {0} /\ j \in Nat \ {0} /\ (i < j \/ j < i)
    BY <1>1
  <2>2. CASE i < j
    <3>1. ClusterOf(v, i) \in Nat /\ ClusterOf(v, i) < ClusterOf(v, j)
      BY <1>2, <2>1, <2>2
    <3> QED
      BY <3>1
  <2>3. CASE j < i
    <3>1. ClusterOf(v, i) \in Nat /\ ClusterOf(v, j) < ClusterOf(v, i)
      BY <1>2, <2>1, <2>3
    <3> QED
      BY <3>1
  <2> QED
    BY <2>1, <2>2, <2>3
<1>6. DOMAIN disk = 0 .. last - 1 /\ \A lba \in 0 .. last - 1 : disk[lba] = SectorOf(v, lba)
  BY DEF DiskOf
<1> HIDE DEF last
<1>7. \A lba \in Nat : lba < last => lba \in DOMAIN disk /\ disk[lba] = SectorOf(v, lba)
  BY <1>3, <1>6
<1>8. SectorOf(v, 0) = MasterBootRecordOf(v) /\ SectorOf(v, v.start) = BootRecordOf(v)
      /\ SectorOf(v, RootOf(v)) = DirectoryOf(v.files)
  <2>1. v.start # 0 /\ RootOf(v) # 0 /\ RootOf(v) # v.start
    BY <1>1, <1>3
  <2>2. \A lba \in Nat : lba <= RootOf(v) => FileAt(v, lba) = {}
    BY <1>3, <1>4 DEF FileAt
  <2>3. FileAt(v, 0) = {} /\ FileAt(v, v.start) = {} /\ FileAt(v, RootOf(v)) = {}
    BY <1>1, <1>3, <2>2
  <2>4. SectorOf(v, 0) = MasterBootRecordOf(v)
    BY <2>1, <2>3 DEF SectorOf
  <2>5. SectorOf(v, v.start) = BootRecordOf(v)
    BY <2>1, <2>3 DEF SectorOf
  <2>6. SectorOf(v, RootOf(v)) = DirectoryOf(v.files)
    BY <2>1, <2>3 DEF SectorOf
  <2> QED
    BY <2>4, <2>5, <2>6
<1>9. \A i \in 1 .. n : SectorOf(v, ClusterOf(v, i)) = DataOf(v.files[i])
  <2> SUFFICES ASSUME NEW i \in 1 .. n
               PROVE  SectorOf(v, ClusterOf(v, i)) = DataOf(v.files[i])
    OBVIOUS
  <2>1. FileAt(v, ClusterOf(v, i)) = {i}
    BY <1>5 DEF FileAt
  <2>2. ClusterOf(v, i) # 0 /\ ClusterOf(v, i) # v.start /\ ClusterOf(v, i) # RootOf(v)
    BY <1>1, <1>3, <1>4
  <2> QED
    BY <2>1, <2>2 DEF SectorOf
<1>10. \A k \in Nat : k <= RootOf(v) => k < last
  BY <1>3
<1>11. 0 < last /\ v.start < last /\ RootOf(v) < last
  BY <1>1, <1>3
<1> QED
  BY <1>1, <1>3, <1>4, <1>7, <1>8, <1>9, <1>10, <1>11

\* Every sector is one of those, or another of no interest.
LEMMA SectorKinds ==
  ASSUME NEW v \in Volumes, disk = DiskOf(v), NEW s \in {disk[lba] : lba \in DOMAIN disk} \cup {Other}
  PROVE  \/ s = MasterBootRecordOf(v) \/ s = BootRecordOf(v) \/ s = DirectoryOf(v.files)
         \/ \E i \in 1 .. Len(v.files) : s = DataOf(v.files[i])
         \/ s = Other
<1>1. CASE s = Other
  BY <1>1
<1>2. ASSUME NEW lba \in DOMAIN disk, s = disk[lba]
      PROVE  \/ s = MasterBootRecordOf(v) \/ s = BootRecordOf(v) \/ s = DirectoryOf(v.files)
             \/ \E i \in 1 .. Len(v.files) : s = DataOf(v.files[i])
             \/ s = Other
  <2>1. s = SectorOf(v, lba)
    BY <1>2 DEF DiskOf
  <2>2. FileAt(v, lba) # {} => (CHOOSE i \in FileAt(v, lba) : TRUE) \in 1 .. Len(v.files)
    BY DEF FileAt
  <2> QED
    BY <2>1, <2>2 DEF SectorOf
<1> QED
  BY <1>1, <1>2

-----------------------------------------------------------------------------
(***************************************************************************)
(* The partition DriveInit finds, and the file GetFileInfo finds in it.    *)
(***************************************************************************)
OnDisk == {disk[lba] : lba \in DOMAIN disk} \cup {Other}

\* What a boot without errors makes of the disk.
Table          == PartitionTable(SectorAt(0))
RightPartition == ParseBootRecord(SectorAt(Table.startLBA), Table.startLBA)

LEMMA RoundUp ==
  ASSUME NEW n \in Nat
  PROVE  RootSectors(n) = (n + 15) \div 16
BY DEF RootSectors

\* ParseBootRecord of the boot record, and of any other sector.
LEMMA ParseIs ==
  ASSUME NEW v \in Volumes, NEW start \in Nat, NEW s, s.kind # "boot" \/ s = BootRecordOf(v)
  PROVE  LET q == ParseBootRecord(s, start)
         IN  /\ q.startLBA = start
             /\ s = BootRecordOf(v) =>
                  /\ q.rootDirStartLBA = start + v.reserved + v.fats * v.perFAT
                  /\ q.dataStartLBA = q.rootDirStartLBA + (v.rootEntries + 15) \div 16
                  /\ q.sectorsOfCluster = v.perCluster
             /\ s.kind # "boot" =>
                  /\ q.rootDirStartLBA = start /\ q.dataStartLBA = start
                  /\ q.sectorsOfCluster = 0
<1> DEFINE br   == IF s.kind = "boot" THEN s ELSE Zeroed
           root == RootSectors(br.numbersOfRootDirEntries)
           data == start + br.reservedSectors + br.sectorsOfFAT * br.numbersOfFATs + root
           q    == ParseBootRecord(s, start)
<1>1. /\ q.startLBA = start /\ q.sectorsOfCluster = br.sectorsOfCluster
      /\ q.dataStartLBA = data /\ q.rootDirStartLBA = data - root
  BY DEF ParseBootRecord
<1>2. CASE s.kind # "boot"
  <2>1. br = Zeroed
    BY <1>2
  <2>2. br.reservedSectors = 0 /\ br.sectorsOfFAT = 0 /\ br.numbersOfFATs = 0
        /\ br.numbersOfRootDirEntries = 0 /\ br.sectorsOfCluster = 0
    BY <2>1 DEF Zeroed
  <2>3. RootSectors(0) = 0
    BY DEF RootSectors
  <2>4. root = 0 /\ data = start
    BY <2>2, <2>3
  <2>5. s # BootRecordOf(v)
    BY <1>2 DEF BootRecordOf
  <2> QED
    BY <1>1, <1>2, <2>2, <2>4, <2>5
<1>3. CASE s = BootRecordOf(v)
  <2>1. s.kind = "boot" /\ br = s
    BY <1>3 DEF BootRecordOf
  <2>2. s.reservedSectors = v.reserved /\ s.sectorsOfFAT = v.perFAT /\ s.numbersOfFATs = v.fats
        /\ s.numbersOfRootDirEntries = v.rootEntries /\ s.sectorsOfCluster = v.perCluster
    BY <1>3 DEF BootRecordOf
  <2>3. v.fats \in Nat /\ v.perFAT \in Nat /\ v.fats * v.perFAT \in Nat /\ v.reserved \in Nat
        /\ v.rootEntries \in Nat
    BY VolumeFields
  <2>4. root = (v.rootEntries + 15) \div 16 /\ root \in Nat
    BY <2>1, <2>2, <2>3, RoundUp
  <2>5. v.perFAT * v.fats = v.fats * v.perFAT
    BY <2>3
  <2>6. data = start + v.reserved + v.fats * v.perFAT + root
    BY <2>1, <2>2, <2>5
  <2> HIDE DEF br, root, data, q
  <2>7. data - root = start + v.reserved + v.fats * v.perFAT
    BY <2>3, <2>4, <2>6
  <2> QED
    BY <1>1, <1>3, <2>1, <2>2, <2>4, <2>6, <2>7 DEF q
<1> QED
  BY <1>2, <1>3

LEMMA PartitionIs ==
  ASSUME NEW v \in Volumes, disk = DiskOf(v)
  PROVE  /\ v.active # 0 => /\ Table.startLBA = v.start
                            /\ RightPartition.rootDirStartLBA = RootOf(v)
                            /\ RightPartition.dataStartLBA = ClusterOf(v, 1)
                            /\ RightPartition.sectorsOfCluster = v.perCluster
         /\ v.active = 0 => Table.startLBA = 0 /\ RightPartition.rootDirStartLBA = 0
<1>1. SectorAt(0) = MasterBootRecordOf(v) /\ SectorAt(v.start) = BootRecordOf(v)
  BY DiskLayout DEF SectorAt
<1>2. v.start \in Nat
  BY VolumeFields
<1>3. CASE v.active # 0
  <2>1. Table.startLBA = v.start
    BY <1>1, <1>3 DEF Table, PartitionTable, MasterBootRecordOf
  <2>2. RightPartition = ParseBootRecord(BootRecordOf(v), v.start)
    BY <1>1, <2>1 DEF RightPartition
  <2>3. /\ RightPartition.rootDirStartLBA = RootOf(v)
        /\ RightPartition.dataStartLBA = RootOf(v) + (v.rootEntries + 15) \div 16
        /\ RightPartition.sectorsOfCluster = v.perCluster
    BY <1>2, <2>2, ParseIs DEF RootOf
  <2>4. ClusterOf(v, 1) = RootOf(v) + (v.rootEntries + 15) \div 16
    <3>1. (1 - 1) * v.perCluster = 0
      BY VolumeFields
    <3>2. RootOf(v) + (v.rootEntries + 15) \div 16 \in Nat
      BY ClustersInOrder, VolumeFields
    <3> QED
      BY <3>1, <3>2 DEF ClusterOf
  <2> QED
    BY <1>3, <2>1, <2>3, <2>4
<1>4. CASE v.active = 0
  <2>1. Table.startLBA = 0
    BY <1>1, <1>4 DEF Table, PartitionTable, MasterBootRecordOf, NoTable
  <2>2. RightPartition = ParseBootRecord(MasterBootRecordOf(v), 0)
    BY <1>1, <2>1 DEF RightPartition
  <2>3. MasterBootRecordOf(v).kind # "boot"
    BY DEF MasterBootRecordOf
  <2> QED
    BY <1>4, <2>1, <2>2, <2>3, ParseIs
<1> QED
  BY <1>3, <1>4

\* What the fields of a partition come to, whatever sectors they were read from.
Bounded(v, q) ==
  /\ q.rootDirStartLBA \in Nat /\ q.rootDirStartLBA <= RootOf(v)
  /\ q.dataStartLBA \in Nat /\ q.dataStartLBA <= ClusterOf(v, 1)
  /\ q.sectorsOfCluster \in {0, v.perCluster}

LEMMA FirstCluster ==
  ASSUME NEW v \in Volumes
  PROVE  /\ ClusterOf(v, 1) \in Nat /\ RootOf(v) \in Nat /\ v.start < RootOf(v)
         /\ ClusterOf(v, 1) = RootOf(v) + (v.rootEntries + 15) \div 16
         /\ RootOf(v) = v.start + v.reserved + v.fats * v.perFAT
         /\ RootOf(v) < ClusterOf(v, 1)
         /\ \A i \in Nat \ {0} : ClusterOf(v, i) = ClusterOf(v, 1) + v.perCluster * (i - 1)
<1>1. /\ ClusterOf(v, 1) \in Nat /\ RootOf(v) \in Nat /\ v.start < RootOf(v)
      /\ RootOf(v) < ClusterOf(v, 1)
  BY ClustersInOrder, 1 < 2
<1>2. RootOf(v) = v.start + v.reserved + v.fats * v.perFAT
  BY DEF RootOf
<1> DEFINE b == RootOf(v) + (v.rootEntries + 15) \div 16
<1>3. \A i \in Nat \ {0} : ClusterOf(v, i) = b + (i - 1) * v.perCluster
  BY DEF ClusterOf
<1>4. b \in Nat /\ v.perCluster \in Nat
  BY <1>1, VolumeFields
<1> HIDE DEF b
<1>5. ClusterOf(v, 1) = b
  <2>1. (1 - 1) * v.perCluster = 0
    BY <1>4
  <2> QED
    BY <1>3, <1>4, <2>1
<1>6. \A i \in Nat \ {0} : (i - 1) * v.perCluster = v.perCluster * (i - 1)
  BY <1>4
<1> QED
  BY <1>1, <1>2, <1>3, <1>5, <1>6 DEF b

LEMMA ParseBounded ==
  ASSUME NEW v \in Volumes, NEW start \in {0, v.start},
         disk = DiskOf(v), NEW s \in OnDisk
  PROVE  Bounded(v, ParseBootRecord(s, start))
<1> DEFINE q == ParseBootRecord(s, start)
           f == v.fats * v.perFAT
           r == (v.rootEntries + 15) \div 16
<1>1. s.kind # "boot" \/ s = BootRecordOf(v)
  BY SectorKinds DEF OnDisk, MasterBootRecordOf, DirectoryOf, DataOf, Other
<1>2. /\ v.start \in Nat /\ v.reserved \in Nat /\ f \in Nat /\ r \in Nat /\ start \in Nat
      /\ start <= v.start
  BY VolumeFields
<1>3. /\ s = BootRecordOf(v) =>
           /\ q.rootDirStartLBA = start + v.reserved + f
           /\ q.dataStartLBA = q.rootDirStartLBA + r
           /\ q.sectorsOfCluster = v.perCluster
      /\ s.kind # "boot" =>
           /\ q.rootDirStartLBA = start /\ q.dataStartLBA = start
           /\ q.sectorsOfCluster = 0
  BY <1>1, <1>2, ParseIs
<1>4. RootOf(v) = v.start + v.reserved + f /\ ClusterOf(v, 1) = RootOf(v) + r
  BY FirstCluster
<1> HIDE DEF q, f, r
<1>5. CASE s = BootRecordOf(v)
  BY <1>2, <1>3, <1>4, <1>5 DEF Bounded, q
<1>6. CASE s.kind # "boot"
  BY <1>2, <1>3, <1>4, <1>6 DEF Bounded, q
<1> QED
  BY <1>1, <1>5, <1>6

LEMMA SearchOther ==
  ASSUME NEW v \in Volumes, disk = DiskOf(v), NEW s \in OnDisk, s # DirectoryOf(v.files), NEW name
  PROVE  GetFileInfo(s, name) = NotFound
<1>1. s.kind # "directory"
  BY SectorKinds DEF OnDisk, MasterBootRecordOf, BootRecordOf, DataOf, Other
<1>2. DOMAIN EntriesOf(s) = {}
  BY <1>1 DEF EntriesOf
<1> QED
  BY <1>2 DEF GetFileInfo

\* The file of the i-th name of a directory.
FileOf(i) == [start |-> partition.dataStartLBA + partition.sectorsOfCluster * (i - 1), size |-> 512]

LEMMA FileOfIsFound ==
  ASSUME NEW i
  PROVE  FileOf(i) # NotFound
<1>1. NotFound.size = -1 /\ FileOf(i).size = 512
  BY DEF NotFound, FileOf
<1>2. 512 # -1
  OBVIOUS
<1> QED
  BY <1>1, <1>2

LEMMA SearchDirectory ==
  ASSUME NEW v \in Volumes, NEW name
  PROVE  \/ /\ GetFileInfo(DirectoryOf(v.files), name) = NotFound
            /\ \A i \in 1 .. Len(v.files) : ~IsPrefix(name, v.files[i])
         \/ \E i \in 1 .. Len(v.files) :
              /\ IsPrefix(name, v.files[i])
              /\ GetFileInfo(DirectoryOf(v.files), name) = FileOf(i)
<1> DEFINE s    == DirectoryOf(v.files)
           n    == Len(v.files)
           hits == {i \in DOMAIN EntriesOf(s) : Matches(EntriesOf(s)[i], name)}
<1>1. n \in Nat /\ \A i \in 1 .. n : v.files[i] # <<>>
  BY VolumeFields
<1>2. /\ DOMAIN EntriesOf(s) = 1 .. n + 1
      /\ EntriesOf(s)[1] = Unused
      /\ \A i \in 1 .. n : EntriesOf(s)[i + 1] = FileEntry(v.files[i], i)
  <2>1. EntriesOf(s) = [i \in 1 .. n + 1 |->
                          IF i = 1 THEN Unused ELSE FileEntry(v.files[i - 1], i - 1)]
    BY DEF EntriesOf, DirectoryOf
  <2>2. 1 \in 1 .. n + 1 /\ \A i \in 1 .. n : i + 1 \in 1 .. n + 1 /\ i + 1 # 1 /\ (i + 1) - 1 = i
    BY <1>1
  <2> HIDE DEF s, n
  <2> QED
    BY <2>1, <2>2
<1> HIDE DEF s
<1>3. \A i \in 1 .. n : i + 1 \in hits <=> IsPrefix(name, v.files[i])
  <2>1. \A i \in 1 .. n : i + 1 \in 1 .. n + 1 /\ FileEntry(v.files[i], i).name = v.files[i]
    BY <1>1 DEF FileEntry
  <2> QED
    BY <1>1, <1>2, <2>1 DEF Matches
<1>4. 1 \notin hits
  BY <1>2 DEF Matches, Unused
<1>5. CASE hits = {}
  <2>1. GetFileInfo(s, name) = NotFound
    BY <1>5 DEF GetFileInfo
  <2> QED
    BY <1>3, <1>5, <2>1 DEF s
<1>6. CASE hits # {}
  <2> DEFINE k == CHOOSE i \in hits : \A j \in hits : i <= j
             e == EntriesOf(s)[k]
  <2>1. hits \subseteq Nat
    BY <1>1, <1>2
  <2>2. \E i \in hits : \A j \in hits : i <= j
    <3> HIDE DEF hits
    <3> QED
      BY <1>6, <2>1, LeastNumber
  <2>3. k \in hits
    <3> HIDE DEF hits
    <3> QED
      BY <2>2
  <2>4. GetFileInfo(s, name) = [start |-> StartOf(e), size |-> e.size]
    BY <1>6 DEF GetFileInfo
  <2>5. k \in 1 .. n + 1 /\ k # 1
    BY <1>2, <1>4, <2>3
  <2> HIDE DEF k, hits
  <2>6. PICK i \in 1 .. n : k = i + 1
    <3>1. k - 1 \in 1 .. n /\ k = (k - 1) + 1
      BY <1>1, <2>5
    <3> QED
      BY <3>1
  <2>7. e = FileEntry(v.files[i], i) /\ IsPrefix(name, v.files[i])
    BY <1>2, <1>3, <2>3, <2>6
  <2>8. e.size = 512 /\ e.clusterHead - 2 = i - 1
    <3>1. i \in Nat
      BY <1>1
    <3>2. e.size = 512 /\ e.clusterHead = i + 1
      BY <2>7 DEF FileEntry
    <3> HIDE DEF e
    <3> QED
      BY <3>1, <3>2
  <2> HIDE DEF e
  <2>9. StartOf(e) = partition.dataStartLBA + partition.sectorsOfCluster * (i - 1)
    BY <2>8, Zenon DEF StartOf
  <2>10. GetFileInfo(s, name) = FileOf(i)
    BY <2>4, <2>8, <2>9 DEF FileOf
  <2>11. i \in 1 .. Len(v.files)
    OBVIOUS
  <2> QED
    BY <2>7, <2>10, <2>11, Zenon DEF s, n
<1> QED
  BY <1>5, <1>6

LEMMA BelowOnDisk ==
  ASSUME NEW v \in Volumes, disk = DiskOf(v), NEW n \in DOMAIN disk, NEW m \in Nat, m <= n
  PROVE  m \in DOMAIN disk
<1> DEFINE last == ClusterOf(v, Len(v.files) + 1)
<1>1. DOMAIN disk = 0 .. last - 1
  BY DEF DiskOf
<1>2. last \in Nat
  <2>1. Len(v.files) + 1 \in Nat \ {0} /\ Len(v.files) + 2 \in Nat \ {0}
        /\ Len(v.files) + 1 < Len(v.files) + 2
    BY VolumeFields
  <2> QED
    BY <2>1, ClustersInOrder
<1> HIDE DEF last
<1> QED
  BY <1>1, <1>2

\* Of a directory whatever the partition, as long as it is one read from the disk.
LEMMA SearchTypes ==
  ASSUME NEW v \in Volumes, disk = DiskOf(v), NEW s \in OnDisk, NEW name, Bounded(v, partition)
  PROVE  GetFileInfo(s, name) \in {NotFound} \cup [start : DOMAIN disk, size : {512}]
<1>1. CASE s # DirectoryOf(v.files)
  BY <1>1, SearchOther
<1>2. CASE s = DirectoryOf(v.files) /\ GetFileInfo(s, name) # NotFound
  <2> DEFINE c == partition.sectorsOfCluster
             d == partition.dataStartLBA
  <2>1. PICK i \in 1 .. Len(v.files) : GetFileInfo(s, name) = FileOf(i)
    BY <1>2, SearchDirectory
  <2>2. i \in Nat \ {0} /\ v.perCluster \in Nat
    BY VolumeFields
  <2>3. ClusterOf(v, i) = ClusterOf(v, 1) + v.perCluster * (i - 1) /\ ClusterOf(v, 1) \in Nat
    BY <2>2, FirstCluster
  <2>4. d \in Nat /\ d <= ClusterOf(v, 1) /\ c \in {0, v.perCluster}
    BY DEF Bounded
  <2>5. ClusterOf(v, i) \in DOMAIN disk
    BY DiskLayout
  <2> HIDE DEF c, d
  <2>6. c * (i - 1) \in Nat /\ c * (i - 1) <= v.perCluster * (i - 1)
    <3>1. \A a \in Nat, b \in Nat : a * b \in Nat
      OBVIOUS
    <3>2. i - 1 \in Nat /\ v.perCluster * (i - 1) \in Nat
      BY <2>2, <3>1
    <3>3. CASE c = 0
      <4>1. c * (i - 1) = 0
        BY <3>2, <3>3
      <4> QED
        BY <3>2, <4>1
    <3>4. CASE c = v.perCluster
      BY <3>2, <3>4
    <3> QED
      BY <2>4, <3>3, <3>4
  <2> DEFINE x == c * (i - 1)
             y == v.perCluster * (i - 1)
  <2>7. d + x \in Nat /\ d + x <= ClusterOf(v, i)
    <3>1. x \in Nat /\ x <= y /\ ClusterOf(v, i) = ClusterOf(v, 1) + y /\ y \in Nat
      BY <2>2, <2>3, <2>6
    <3> HIDE DEF x, y
    <3> QED
      BY <2>3, <2>4, <3>1
  <2>8. d + c * (i - 1) \in DOMAIN disk
    BY <2>5, <2>7, BelowOnDisk
  <2>9. FileOf(i) \in [start : DOMAIN disk, size : {512}]
    BY <2>8 DEF FileOf, c, d
  <2> QED
    BY <2>1, <2>9
<1> QED
  BY <1>1, <1>2

LEMMA MeansIs ==
  ASSUME NEW v \in Volumes, disk = DiskOf(v), NEW name
  PROVE  /\ \A i \in 1 .. Len(v.files) :
              IsPrefix(name, v.files[i]) => SectorAt(ClusterOf(v, i)) \in Means(name)
         /\ Means(name) # {} => \E i \in 1 .. Len(v.files) : IsPrefix(name, v.files[i])
<1>1. ASSUME NEW i \in 1 .. Len(v.files), IsPrefix(name, v.files[i])
      PROVE  SectorAt(ClusterOf(v, i)) \in Means(name)
  <2>1. ClusterOf(v, i) \in DOMAIN disk /\ disk[ClusterOf(v, i)] = DataOf(v.files[i])
    BY DiskLayout
  <2>2. DataOf(v.files[i]).kind = "data" /\ DataOf(v.files[i]).name = v.files[i]
    BY DEF DataOf
  <2> QED
    BY <1>1, <2>1, <2>2 DEF SectorAt, Means
<1>2. ASSUME NEW s \in Means(name)
      PROVE  \E i \in 1 .. Len(v.files) : IsPrefix(name, v.files[i])
  <2>1. s \in OnDisk /\ s.kind = "data" /\ IsPrefix(name, s.name)
    BY DEF Means, OnDisk
  <2>2. PICK i \in 1 .. Len(v.files) : s = DataOf(v.files[i])
    BY <2>1, SectorKinds DEF OnDisk, MasterBootRecordOf, BootRecordOf, DirectoryOf, Other
  <2>3. s.name = v.files[i]
    BY <2>2 DEF DataOf
  <2> QED
    BY <2>1, <2>3
<1> QED
  BY <1>1, <1>2

\* The file is what its name means.
FileIsRight(name, file) ==
  file # NotFound =>
    /\ file.size = 512 /\ file.start \in DOMAIN disk
    /\ SectorAt(file.start) \in Means(name)

LEMMA SearchIsRight ==
  ASSUME NEW v \in Volumes, disk = DiskOf(v), v.active # 0, partition = RightPartition,
         NEW s \in OnDisk, NEW name
  PROVE  /\ FileIsRight(name, GetFileInfo(s, name))
         /\ s = SectorAt(partition.rootDirStartLBA) =>
              (GetFileInfo(s, name) = NotFound <=> Means(name) = {})
<1>1. /\ partition.rootDirStartLBA = RootOf(v)
      /\ partition.dataStartLBA = ClusterOf(v, 1)
      /\ partition.sectorsOfCluster = v.perCluster
  BY PartitionIs
<1>2. SectorAt(partition.rootDirStartLBA) = DirectoryOf(v.files)
  BY <1>1, DiskLayout DEF SectorAt
<1>3. CASE s # DirectoryOf(v.files)
  BY <1>2, <1>3, SearchOther DEF FileIsRight
<1>4. CASE s = DirectoryOf(v.files) /\ GetFileInfo(s, name) = NotFound
  <2>1. \A i \in 1 .. Len(v.files) : ~IsPrefix(name, v.files[i])
    BY <1>4, SearchDirectory, FileOfIsFound
  <2> QED
    BY <1>4, <2>1, MeansIs DEF FileIsRight
<1>5. CASE s = DirectoryOf(v.files) /\ GetFileInfo(s, name) # NotFound
  <2>1. PICK i \in 1 .. Len(v.files) :
          IsPrefix(name, v.files[i]) /\ GetFileInfo(s, name) = FileOf(i)
    BY <1>5, SearchDirectory
  <2>2. ClusterOf(v, i) = ClusterOf(v, 1) + v.perCluster * (i - 1)
    BY FirstCluster, VolumeFields
  <2>3. ClusterOf(v, i) \in DOMAIN disk /\ SectorAt(ClusterOf(v, i)) \in Means(name)
    BY <2>1, DiskLayout, MeansIs
  <2>4. GetFileInfo(s, name) = [start |-> ClusterOf(v, i), size |-> 512]
    BY <1>1, <2>1, <2>2 DEF FileOf
  <2>5. Means(name) # {}
    BY <2>3
  <2> HIDE DEF Means
  <2> QED
    BY <1>5, <2>3, <2>4, <2>5 DEF FileIsRight
<1> QED
  BY <1>3, <1>4, <1>5

\* A boot that found no partition takes the master boot record for the directory.
LEMMA SearchRightSector ==
  ASSUME NEW v \in Volumes, disk = DiskOf(v), partition = RightPartition, NEW name
  PROVE  FileIsRight(name, GetFileInfo(SectorAt(partition.rootDirStartLBA), name))
<1> DEFINE s == SectorAt(partition.rootDirStartLBA)
<1>1. s \in OnDisk
  BY DEF OnDisk, SectorAt
<1>2. CASE v.active # 0
  BY <1>1, <1>2, SearchIsRight
<1>3. CASE v.active = 0
  <2>1. s = MasterBootRecordOf(v)
    BY <1>3, PartitionIs, DiskLayout DEF SectorAt
  <2>2. GetFileInfo(s, name) = NotFound
    BY <1>1, <2>1, SearchOther DEF MasterBootRecordOf, DirectoryOf
  <2> QED
    BY <2>2 DEF FileIsRight
<1> QED
  BY <1>2, <1>3

-----------------------------------------------------------------------------
(***************************************************************************)
(* The types of Files, for every choice of the constants: whatever a buffer*)
(* holds, what is read from it leads to a sector of the disk.              *)
(***************************************************************************)
Called      == {"none", "DriveInit", "OPEN", "READ", "EXEC directory", "EXEC file"}
AnyName     == Names \cup {<<>>}
FilesOnDisk == {NotFound} \cup [start : DOMAIN disk, size : {512}]

OfVolume(v) ==
  /\ disk = DiskOf(v)
  /\ drives \in [0 .. 3 -> [isValid : BOOLEAN,
                            table : [isValid : BOOLEAN, startLBA : {0, v.start}]]]
  /\ Bounded(v, partition)

FileTypes ==
  /\ \E v \in Volumes : OfVolume(v)
  /\ probing \in 0 .. Done
  /\ op \in [Procs -> [call : Called, name : AnyName, file : FilesOnDisk]]
  /\ opened \in [Procs -> [name : AnyName, file : FilesOnDisk]]
  /\ loaded \in [Procs -> [name : AnyName, sector : OnDisk]]

FilesTypes == Types /\ FileTypes /\ (Polling => TRUE \in PollModes)

LEMMA InBufferOnDisk ==
  ASSUME NEW value, NEW data
  PROVE  InBuffer(value, data) \subseteq OnDisk
BY DEF InBuffer, OnDisk, SectorAt

LEMMA MeIsProcess == FilesTypes => Me \in Procs
BY DEF FilesTypes, Types, SchedulerTypes, Me

\* What the programs and DriveInit ask the driver for is what Ata allows for.
LEMMA ReadsAreAllowed ==
  ASSUME FilesTypes
  PROVE  /\ 512 \in Sizes /\ DOMAIN disk \subseteq Lbas
         /\ partition.rootDirStartLBA \in DOMAIN disk
         /\ 0 \in DOMAIN disk /\ drives[0].table.startLBA \in DOMAIN disk
         /\ \A file \in FilesOnDisk :
              file # NotFound => file.start \in DOMAIN disk /\ file.size = 512
<1>1. PICK v \in Volumes : OfVolume(v)
  BY DEF FilesTypes, FileTypes
<1>2. /\ 0 \in DOMAIN disk /\ v.start \in DOMAIN disk
      /\ \A n \in Nat : n <= RootOf(v) => n \in DOMAIN disk
  BY <1>1, DiskLayout DEF OfVolume
<1>3. 512 \in Sizes /\ DOMAIN disk \subseteq Lbas
  BY <1>1, VolumesAssumption DEF OfVolume
<1>4. partition.rootDirStartLBA \in DOMAIN disk
  BY <1>1, <1>2 DEF OfVolume, Bounded
<1>5. drives[0].table.startLBA \in {0, v.start}
  <2>1. 0 \in 0 .. 3
    OBVIOUS
  <2> QED
    BY <1>1, <2>1 DEF OfVolume
<1> QED
  BY <1>2, <1>3, <1>4, <1>5 DEF FilesOnDisk

\* The steps of Files are steps of Ata, but for the keys DriveInit lets through.
LEMMA FileStepIsDriverStep ==
  ASSUME FilesTypes, [FilesNext]_filesVars
  PROVE  [AtaNext]_vars \/ KeyWhileDriveInitPolls
<1> DEFINE ReadAllowed == \E lba \in Lbas, size \in Sizes, enablePoll \in BOOLEAN :
                            ATARead(lba, size, enablePoll)
<1>1. ASSUME NEW lba \in DOMAIN disk, NEW enablePoll \in BOOLEAN, ATARead(lba, 512, enablePoll)
      PROVE  ReadAllowed
  BY <1>1, ReadsAreAllowed
<1> HIDE DEF ReadAllowed
<1>2. ReadAllowed => AtaNext
  BY DEF AtaNext, ReadAllowed
<1>3. ASSUME Quiet,
             \/ Tick \/ KeyPress \/ ResumeElsewhere \/ HPETHandler \/ doKBCInterrupt
             \/ SchedulerStart \/ sysExit
      PROVE  AtaNext
  BY <1>3 DEF AtaNext, Quiet
<1>4. CASE (DriveAnswers \/ PolledReadReturns) /\ UNCHANGED fileVars
  BY <1>4 DEF AtaNext, PolledReadReturns
<1>5. CASE ATAHandler
  BY <1>5 DEF AtaNext
<1>6. ASSUME NEW child \in Procs, Fork(child)
      PROVE  AtaNext
  BY <1>6 DEF AtaNext, Fork
<1>7. CASE DriveInit
  <2>1. ATARead(IF probing = BootRecord THEN drives[0].table.startLBA ELSE 0, 512, TRUE)
    BY <1>7 DEF DriveInit
  <2>2. (IF probing = BootRecord THEN drives[0].table.startLBA ELSE 0) \in DOMAIN disk
    BY ReadsAreAllowed
  <2> QED
    BY <1>1, <1>2, <2>1, <2>2
<1>8. CASE DriveInitGoesOn
  BY <1>8 DEF DriveInitGoesOn
<1>9. ASSUME NEW name \in Names, OPEN(name) \/ EXEC(name)
      PROVE  AtaNext
  <2>1. PICK enablePoll \in BOOLEAN : ATARead(partition.rootDirStartLBA, 512, enablePoll)
    BY Zenon, <1>9 DEF OPEN, EXEC
  <2> QED
    BY <1>1, <1>2, <2>1, ReadsAreAllowed
<1>10. CASE READ
  <2>1. opened[Me].file \in FilesOnDisk
    BY MeIsProcess DEF FilesTypes, FileTypes
  <2>2. ATARead(opened[Me].file.start, opened[Me].file.size, FALSE) /\ opened[Me].file # NotFound
    BY <1>10 DEF READ
  <2>3. opened[Me].file.start \in DOMAIN disk /\ opened[Me].file.size = 512
    BY <2>1, <2>2, ReadsAreAllowed
  <2> QED
    BY <1>1, <1>2, <2>2, <2>3
<1>11. CASE OPENReturns \/ READReturns
  BY <1>11 DEF AtaNext, OPENReturns, READReturns
<1>12. ASSUME NEW file \in FilesOnDisk, file # NotFound, ATARead(file.start, file.size, TRUE)
       PROVE  ReadAllowed
  <2>1. file.start \in DOMAIN disk /\ file.size = 512
    BY <1>12, ReadsAreAllowed
  <2>2. PICK lba \in DOMAIN disk : lba = file.start
    BY <2>1
  <2>3. ATARead(lba, 512, TRUE)
    BY <1>12, <2>1, <2>2
  <2> QED
    BY <1>1, <2>3
<1>13. CASE ExecFindsFile
  <2>1. PICK s \in Got : \/ /\ Found(GetFileInfo(s, op[Me].name))
                            /\ ATARead(GetFileInfo(s, op[Me].name).start,
                                       GetFileInfo(s, op[Me].name).size, TRUE)
                         \/ UNCHANGED vars
    BY Zenon, <1>13 DEF ExecFindsFile
  <2>2. s \in OnDisk
    BY InBufferOnDisk DEF Got
  <2>3. GetFileInfo(s, op[Me].name) \in FilesOnDisk
    BY <2>2, SearchTypes DEF FilesTypes, FileTypes, OfVolume, FilesOnDisk
  <2> DEFINE file == GetFileInfo(s, op[Me].name)
  <2>4. CASE Found(file) /\ ATARead(file.start, file.size, TRUE)
    <3>1. file \in FilesOnDisk /\ file # NotFound
      BY <2>3, <2>4 DEF Found
    <3> QED
      BY <1>2, <1>12, <2>4, <3>1
  <2> QED
    BY <2>1, <2>4
<1>14. CASE ExecLoads
  BY Zenon, <1>14 DEF ExecLoads
<1>15. CASE UNCHANGED filesVars
  BY <1>15 DEF filesVars
<1> QED
  BY <1>3, <1>4, <1>5, <1>6, <1>7, <1>8, <1>9, <1>10, <1>11, <1>13, <1>14, <1>15 DEF FilesNext

\* DriveInit runs before there is a second process or a timer.
BootIsAlone ==
  /\ probing = Done => \A p \in Procs : op[p].call # "DriveInit"
  /\ probing # Done =>
       /\ ~hpetEnabled /\ 0 \notin irr
       /\ cpu \in {"task", "ATAPollingUntilReady"}
       /\ op[Me].call \in {"none", "DriveInit"}
       /\ \A p \in Procs : p # Me => op[p] = NoOp

\* What a step does to the variables of Files: the disk stays, and each handler
\* works for the current process.
LEMMA DiskStays ==
  ASSUME [FilesNext]_filesVars
  PROVE  disk' = disk
BY Zenon DEF FilesNext, Quiet, fileVars, filesVars, KeyWhileDriveInitPolls, Fork, DriveInit,
       DriveInitGoesOn, OPEN, EXEC, READ, OPENReturns, READReturns, ExecFindsFile, ExecLoads

LEMMA BeginTypes ==
  ASSUME FilesTypes, NEW c \in Called, NEW name \in AnyName, NEW file \in FilesOnDisk,
         Begin(c, name, file)
  PROVE  op' \in [Procs -> [call : Called, name : AnyName, file : FilesOnDisk]]
<1> DEFINE o == [call |-> c, name |-> name, file |-> file]
           O == [call : Called, name : AnyName, file : FilesOnDisk]
<1>1. o \in O
  OBVIOUS
<1>2. op \in [Procs -> O] /\ op' = [op EXCEPT ![Me] = o]
  BY DEF FilesTypes, FileTypes, Begin
<1> HIDE DEF o, O
<1>3. op' \in [Procs -> O]
  BY <1>1, <1>2
<1> QED
  BY <1>3 DEF O

LEMMA NoOpType == NoOp \in [call : Called, name : AnyName, file : FilesOnDisk]
BY DEF NoOp, Called, AnyName, FilesOnDisk

LEMMA EndTypes ==
  ASSUME FilesTypes, End
  PROVE  op' \in [Procs -> [call : Called, name : AnyName, file : FilesOnDisk]]
<1> DEFINE O == [call : Called, name : AnyName, file : FilesOnDisk]
<1>1. NoOp \in O
  BY NoOpType
<1>2. op \in [Procs -> O] /\ op' = [op EXCEPT ![Me] = NoOp]
  BY DEF FilesTypes, FileTypes, End
<1> HIDE DEF O
<1>3. op' \in [Procs -> O]
  BY <1>1, <1>2
<1> QED
  BY <1>3 DEF O

LEMMA FoundOnDisk ==
  ASSUME FilesTypes, NEW s \in OnDisk, NEW name
  PROVE  GetFileInfo(s, name) \in FilesOnDisk
<1>1. PICK v \in Volumes : OfVolume(v)
  BY DEF FilesTypes, FileTypes
<1> QED
  BY <1>1, SearchTypes DEF OfVolume, FilesOnDisk

LEMMA OpenTypes ==
  ASSUME FilesTypes, NEW s \in OnDisk, NEW name \in AnyName, Open(name, s)
  PROVE  opened' \in [Procs -> [name : AnyName, file : FilesOnDisk]]
<1> DEFINE o == [name |-> name, file |-> GetFileInfo(s, name)]
           O == [name : AnyName, file : FilesOnDisk]
<1>1. o \in O
  BY FoundOnDisk
<1>2. opened \in [Procs -> O] /\ opened' = [opened EXCEPT ![Me] = o]
  BY DEF FilesTypes, FileTypes, Open
<1> HIDE DEF o, O
<1>3. opened' \in [Procs -> O]
  BY <1>1, <1>2
<1> QED
  BY <1>3 DEF O

LEMMA LoadTypes ==
  ASSUME FilesTypes, NEW s \in OnDisk, NEW name \in AnyName, Load(name, s)
  PROVE  loaded' \in [Procs -> [name : AnyName, sector : OnDisk]]
<1> DEFINE o == [name |-> name, sector |-> s]
           O == [name : AnyName, sector : OnDisk]
<1>1. o \in O
  OBVIOUS
<1>2. loaded \in [Procs -> O] /\ loaded' = [loaded EXCEPT ![Me] = o]
  BY DEF FilesTypes, FileTypes, Load
<1> HIDE DEF o, O
<1>3. loaded' \in [Procs -> O]
  BY <1>1, <1>2
<1> QED
  BY <1>3 DEF O

LEMMA NextDriveIs ==
  ASSUME NEW i \in 1 .. BootRecord
  PROVE  NextDrive(i) \in i .. BootRecord
<1> DEFINE P(d) == /\ d = BootRecord \/ drives[d].isValid
                   /\ \A e \in i .. d - 1 : ~drives[e].isValid
<1>1. BootRecord = 4
  BY DEF BootRecord
<1>2. \E d \in i .. BootRecord : P(d)
  <2>1. CASE i = 4
    BY <1>1, <2>1
  <2>2. CASE i = 3
    BY <1>1, <2>2
  <2>3. CASE i = 2
    BY <1>1, <2>3
  <2>4. CASE i = 1
    BY <1>1, <2>4
  <2> QED
    BY <1>1, <2>1, <2>2, <2>3, <2>4
<1>3. NextDrive(i) = CHOOSE d \in i .. BootRecord : P(d)
  BY DEF NextDrive
<1> QED
  BY <1>2, <1>3

LEMMA GoesOnTypes ==
  ASSUME FilesTypes, BootIsAlone, DriveInitGoesOn
  PROVE  FileTypes'
<1>1. PICK v \in Volumes : OfVolume(v)
  BY DEF FilesTypes, FileTypes
<1>2. probing # Done /\ probing \in 0 .. 4
  <2>1. probing # Done
    BY MeIsProcess DEF DriveInitGoesOn, Behind, BootIsAlone
  <2> QED
    BY <2>1 DEF FilesTypes, FileTypes, Done
<1>3. PICK s \in OnDisk :
       IF probing = BootRecord
       THEN /\ partition' = ParseBootRecord(s, drives[0].table.startLBA)
            /\ probing' = Done
            /\ UNCHANGED drives
       ELSE /\ drives' = [drives EXCEPT ![probing].table = PartitionTable(s)]
            /\ probing' = NextDrive(probing + 1)
            /\ UNCHANGED partition
  BY InBufferOnDisk DEF DriveInitGoesOn, Got
<1>4. disk' = disk /\ opened' = opened /\ loaded' = loaded /\ End
  BY DEF DriveInitGoesOn
<1>5. op' \in [Procs -> [call : Called, name : AnyName, file : FilesOnDisk]]
  BY <1>4, EndTypes
<1>6. FilesOnDisk' = FilesOnDisk /\ OnDisk' = OnDisk
  BY <1>4 DEF FilesOnDisk, OnDisk
<1>7. OfVolume(v)' /\ probing' \in 0 .. Done
  <2>1. CASE probing = BootRecord
    <3>1. drives[0].table.startLBA \in {0, v.start}
      <4>1. 0 \in 0 .. 3
        OBVIOUS
      <4> QED
        BY <1>1, <4>1 DEF OfVolume
    <3>2. Bounded(v, ParseBootRecord(s, drives[0].table.startLBA))
      BY <1>1, <3>1, ParseBounded DEF OfVolume
    <3>3. Bounded(v, partition)' 
      BY <1>3, <2>1, <3>2 DEF Bounded
    <3>4. probing' \in 0 .. Done
      BY <1>3, <2>1 DEF Done
    <3> QED
      BY <1>1, <1>3, <1>4, <2>1, <3>3, <3>4 DEF OfVolume
  <2>2. CASE probing # BootRecord
    <3> DEFINE T == [isValid : BOOLEAN, startLBA : {0, v.start}]
               D == [isValid : BOOLEAN, table : T]
               t == PartitionTable(s)
    <3>1. probing \in 0 .. 3
      BY <1>2, <2>2 DEF BootRecord
    <3>2. t \in T
      <4>1. CASE s.kind = "mbr" /\ s.first # 0
        <5>1. s = MasterBootRecordOf(v)
          BY <1>1, <4>1, SectorKinds
             DEF OfVolume, OnDisk, BootRecordOf, DirectoryOf, DataOf, Other
        <5>2. s.startLBA = v.start
          BY <5>1 DEF MasterBootRecordOf
        <5> QED
          BY <4>1, <5>2 DEF PartitionTable
      <4>2. CASE ~(s.kind = "mbr" /\ s.first # 0)
        BY <4>2 DEF PartitionTable, NoTable
      <4> QED
        BY <4>1, <4>2
    <3>3. drives \in [0 .. 3 -> D] /\ drives' = [drives EXCEPT ![probing].table = t]
      BY <1>1, <1>3, <2>2 DEF OfVolume
    <3>4. [drives[probing] EXCEPT !.table = t] \in D
      <4>1. drives[probing] \in D
        BY <3>1, <3>3
      <4> HIDE DEF T, t
      <4> QED
        BY <3>2, <4>1
    <3>5. drives' \in [0 .. 3 -> D]
      <4> DEFINE e == [drives[probing] EXCEPT !.table = t]
      <4>1. drives' = [drives EXCEPT ![probing] = e]
        BY <3>3
      <4>2. e \in D
        BY <3>4
      <4> HIDE DEF D, e
      <4> QED
        BY <3>3, <4>1, <4>2
    <3>6. probing' \in 0 .. Done
      <4>1. probing + 1 \in 1 .. BootRecord
        BY <3>1 DEF BootRecord
      <4>2. probing' \in probing + 1 .. BootRecord
        BY <1>3, <2>2, <4>1, NextDriveIs
      <4> QED
        BY <3>1, <4>2 DEF BootRecord, Done
    <3>7. Bounded(v, partition)'
      BY <1>1, <1>3, <2>2 DEF OfVolume, Bounded
    <3> QED
      BY <1>1, <1>4, <3>5, <3>6, <3>7 DEF OfVolume
  <2> QED
    BY <2>1, <2>2
<1> QED
  BY <1>4, <1>5, <1>6, <1>7 DEF FileTypes, FilesTypes

\* The other steps leave the partition and the drives alone.
LEMMA StepKeepsFileTypes ==
  ASSUME FilesTypes, BootIsAlone, [FilesNext]_filesVars
  PROVE  FileTypes'
<1> DEFINE OpTypes     == op' \in [Procs -> [call : Called, name : AnyName, file : FilesOnDisk]]
           OpenedTypes == opened' \in [Procs -> [name : AnyName, file : FilesOnDisk]]
           LoadedTypes == loaded' \in [Procs -> [name : AnyName, sector : OnDisk]]
<1>1. disk' = disk /\ FilesOnDisk' = FilesOnDisk /\ OnDisk' = OnDisk
  BY DiskStays DEF FilesOnDisk, OnDisk
<1>2. OpTypes \/ op' # op
  BY DEF FilesTypes, FileTypes
<1>3. OpenedTypes \/ opened' # opened
  BY DEF FilesTypes, FileTypes
<1>4. LoadedTypes \/ loaded' # loaded
  BY DEF FilesTypes, FileTypes
<1> DEFINE Rest == UNCHANGED <<drives, partition, probing>>
<1>5. ASSUME OpTypes, OpenedTypes, LoadedTypes, Rest
      PROVE  FileTypes'
  <2>1. PICK v \in Volumes : OfVolume(v)
    BY DEF FilesTypes, FileTypes
  <2>2. OfVolume(v)'
    BY <1>1, <1>5, <2>1 DEF OfVolume, Bounded
  <2>3. probing' \in 0 .. Done
    BY <1>5 DEF FilesTypes, FileTypes
  <2> QED
    BY <1>1, <1>5, <2>2, <2>3 DEF FileTypes
<1>6. CASE UNCHANGED fileVars
  BY <1>2, <1>3, <1>4, <1>5, <1>6 DEF fileVars
<1>7. Me \in Procs
  BY MeIsProcess
<1>8. op[Me].name \in AnyName /\ op[Me].file \in FilesOnDisk /\ opened[Me].name \in AnyName
      /\ opened[Me].file \in FilesOnDisk /\ op[Me] \in [call : Called, name : AnyName, file : FilesOnDisk]
  BY <1>7 DEF FilesTypes, FileTypes
<1>9. NotFound \in FilesOnDisk /\ <<>> \in AnyName
      /\ {"DriveInit", "OPEN", "READ", "EXEC directory", "EXEC file"} \subseteq Called
  BY DEF FilesOnDisk, AnyName, Called
<1>10. \A value, data : InBuffer(value, data) \subseteq OnDisk
  BY InBufferOnDisk
<1> HIDE DEF OpTypes, OpenedTypes, LoadedTypes
<1>11. ASSUME NEW c \in Called, NEW name \in AnyName, NEW file \in FilesOnDisk,
              Begin(c, name, file)
       PROVE  OpTypes
  BY <1>11, BeginTypes DEF OpTypes
<1>12. End => OpTypes
  BY EndTypes DEF OpTypes
<1>13. ASSUME NEW s \in OnDisk, NEW name \in AnyName, Open(name, s)
       PROVE  OpenedTypes
  BY <1>13, OpenTypes DEF OpenedTypes
<1>14. ASSUME NEW s \in OnDisk, NEW name \in AnyName, Load(name, s)
       PROVE  LoadedTypes
  BY <1>14, LoadTypes DEF LoadedTypes
<1>15. ASSUME NEW child \in Procs, Fork(child)
       PROVE  FileTypes'
  <2>1. OpTypes /\ Rest
    BY <1>2, <1>15 DEF Fork
  <2>2. CASE UNCHANGED <<opened, loaded>>
    BY <1>3, <1>4, <1>5, <2>1, <2>2
  <2>3. CASE /\ opened' = [opened EXCEPT ![child] = opened[Me]]
             /\ loaded' = [loaded EXCEPT ![child] = loaded[Me]]
    <3>1. opened[Me] \in [name : AnyName, file : FilesOnDisk]
          /\ loaded[Me] \in [name : AnyName, sector : OnDisk]
      BY <1>7 DEF FilesTypes, FileTypes
    <3>2. OpenedTypes
      BY <2>3, <3>1 DEF OpenedTypes, FilesTypes, FileTypes
    <3>3. LoadedTypes
      BY <2>3, <3>1 DEF LoadedTypes, FilesTypes, FileTypes
    <3> QED
      BY <1>5, <2>1, <3>2, <3>3
  <2> QED
    BY <1>15, <2>2, <2>3 DEF Fork
<1>16. CASE DriveInit
  BY Zenon, <1>3, <1>4, <1>5, <1>9, <1>11, <1>16 DEF DriveInit
<1>17. CASE DriveInitGoesOn
  BY <1>17, GoesOnTypes
<1>18. ASSUME NEW name \in Names, OPEN(name)
       PROVE  FileTypes'
  <2>1. name \in AnyName
    BY DEF AnyName
  <2>2. LoadedTypes /\ Rest
    BY <1>4, <1>18 DEF OPEN
  <2>3. CASE Full
    <3>1. PICK s \in InBuffer(-1, <<>>) : Open(name, s)
      BY <1>18, <2>3 DEF OPEN
    <3>2. s \in OnDisk
      BY <1>10
    <3> QED
      BY <1>2, <1>5, <1>13, <1>18, <2>1, <2>2, <2>3, <3>1, <3>2 DEF OPEN
  <2>4. CASE ~Full
    BY Zenon, <1>3, <1>5, <1>9, <1>11, <1>18, <2>1, <2>2, <2>4 DEF OPEN
  <2> QED
    BY <2>3, <2>4
<1>19. ASSUME NEW name \in Names, EXEC(name)
       PROVE  FileTypes'
  <2>1. name \in AnyName
    BY DEF AnyName
  <2> QED
    BY Zenon, <1>3, <1>4, <1>5, <1>9, <1>11, <1>19, <2>1 DEF EXEC
<1>20. CASE READ
  <2>1. OpTypes
    <3>1. CASE Full
      BY <1>2, <1>20, <3>1 DEF READ
    <3>2. CASE ~Full
      <4>1. Begin("READ", opened[Me].name, opened[Me].file)
        BY <1>20, <3>2 DEF READ
      <4> QED
        BY Zenon, <1>8, <1>9, <1>11, <4>1
    <3> QED
      BY <3>1, <3>2
  <2> QED
    BY <1>3, <1>4, <1>5, <1>20, <2>1 DEF READ
<1>21. CASE OPENReturns
  <2>1. PICK s \in InBuffer(call'[Me].returned, buffer'[Me]) : Open(op[Me].name, s)
    BY <1>21 DEF OPENReturns
  <2>2. s \in OnDisk
    BY <1>10
  <2>3. OpenedTypes
    BY <1>8, <1>13, <2>1, <2>2
  <2> QED
    BY <1>4, <1>5, <1>12, <1>21, <2>3 DEF OPENReturns
<1>22. CASE READReturns
  <2>1. LoadedTypes
    <3>1. CASE UNCHANGED loaded
      BY <1>4, <3>1
    <3>2. CASE \E s \in InBuffer(call'[Me].returned, buffer'[Me]) : Load(op[Me].name, s)
      <4>1. PICK s \in InBuffer(call'[Me].returned, buffer'[Me]) : Load(op[Me].name, s)
        BY <3>2
      <4>2. s \in OnDisk
        BY <1>10
      <4> QED
        BY <1>8, <1>14, <4>1, <4>2
    <3> QED
      BY <1>22, <3>1, <3>2 DEF READReturns
  <2> QED
    BY <1>3, <1>5, <1>12, <1>22, <2>1 DEF READReturns
<1>23. CASE ExecFindsFile
  <2>1. PICK s \in Got : \/ Begin("EXEC file", op[Me].name, GetFileInfo(s, op[Me].name))
                         \/ End
    BY Zenon, <1>23 DEF ExecFindsFile
  <2>2. s \in OnDisk
    BY <1>10 DEF Got
  <2>3. GetFileInfo(s, op[Me].name) \in FilesOnDisk
    BY <2>2, FoundOnDisk
  <2>4. OpTypes
    BY Zenon, <1>8, <1>9, <1>11, <1>12, <2>1, <2>3
  <2> QED
    BY Zenon, <1>3, <1>4, <1>5, <1>23, <2>4 DEF ExecFindsFile
<1>24. CASE ExecLoads
  <2>1. LoadedTypes
    <3>1. CASE UNCHANGED loaded
      BY <1>4, <3>1
    <3>2. CASE \E s \in Got : Load(op[Me].name, s)
      <4>1. PICK s \in Got : Load(op[Me].name, s)
        BY <3>2
      <4>2. s \in OnDisk
        BY <1>10 DEF Got
      <4> QED
        BY <1>8, <1>14, <4>1, <4>2
    <3> QED
      BY Zenon, <1>24, <3>1, <3>2 DEF ExecLoads
  <2> QED
    BY Zenon, <1>3, <1>5, <1>12, <1>24, <2>1 DEF ExecLoads
<1>25. FilesNext => \/ UNCHANGED fileVars \/ DriveInit \/ DriveInitGoesOn \/ READ
                    \/ OPENReturns \/ READReturns \/ ExecFindsFile \/ ExecLoads
                    \/ \E child \in Procs : Fork(child)
                    \/ \E name \in Names : OPEN(name) \/ EXEC(name)
  BY DEF FilesNext, Quiet, KeyWhileDriveInitPolls
<1> QED
  BY <1>6, <1>15, <1>16, <1>17, <1>18, <1>19, <1>20, <1>21, <1>22, <1>23, <1>24, <1>25
  DEF filesVars

\* A key leaves only the latch of the keyboard's line behind.
LEMMA KeyKeepsTypes ==
  ASSUME Types, KeyWhileDriveInitPolls
  PROVE  Types'
BY DEF KeyWhileDriveInitPolls, Types, SchedulerTypes, DriverTypes, CurrentIsInRing, ataVars

\* A read that polls stays on the processor.
LEMMA PolledReadStays ==
  ASSUME NEW lba, NEW size, ATARead(lba, size, TRUE)
  PROVE  /\ UNCHANGED <<processList, pstate, currentProcess, resume, hpetEnabled, irr>>
         /\ cpu = "task" /\ TRUE \in PollModes
         /\ cpu' \in {"task", "ATAPollingUntilReady"}
BY DEF ATARead, ReadFull

LEMMA PollingIsAllowed ==
  ASSUME [AtaNext]_vars \/ KeyWhileDriveInitPolls, Polling => TRUE \in PollModes
  PROVE  Polling' => TRUE \in PollModes
<1>1. ASSUME Tick \/ KeyPress \/ DriveAnswers \/ ATAHandler \/ doKBCInterrupt \/ SchedulerStart
             \/ UNCHANGED vars \/ KeyWhileDriveInitPolls
      PROVE  cpu' = cpu
  BY <1>1 DEF Tick, KeyPress, DriveAnswers, ATAHandler, doKBCInterrupt, SchedulerStart, vars,
              schedVars, KeyWhileDriveInitPolls
<1>2. ASSUME NEW child \in Procs, sysFork(child) \/ KernelThread(child)
      PROVE  cpu' = cpu
  BY <1>2 DEF sysFork, KernelThread
<1>3. ASSUME HPETHandler \/ sysExit \/ ResumeElsewhere \/ ATAReadReturns
      PROVE  cpu' # "ATAPollingUntilReady"
  BY <1>3 DEF HPETHandler, sysExit, ResumeElsewhere, Resume, ATAReadReturns, Schedule
<1>4. ASSUME NEW lba, NEW size, NEW enablePoll \in BOOLEAN, ATARead(lba, size, enablePoll)
      PROVE  cpu' = "ATAPollingUntilReady" => TRUE \in PollModes
  BY <1>4 DEF ATARead, ReadFull, Schedule
<1> QED
  BY <1>1, <1>2, <1>3, <1>4 DEF Polling, AtaNext

LEMMA DriverStepAtBoot ==
  ASSUME Types, 0 \notin irr, ~hpetEnabled, cpu \in {"task", "ATAPollingUntilReady"},
         \/ Tick \/ KeyPress \/ ResumeElsewhere \/ HPETHandler \/ doKBCInterrupt
         \/ DriveAnswers \/ ATAHandler \/ ATAReadReturns \/ KeyWhileDriveInitPolls
  PROVE  /\ 0 \notin irr' /\ ~hpetEnabled' /\ cpu' \in {"task", "ATAPollingUntilReady"}
         /\ currentProcess' = currentProcess
<1>1. ~Tick /\ ~ResumeElsewhere /\ ~HPETHandler
  BY DEF Tick, ResumeElsewhere, Resume, HPETHandler, Acknowledge, Presented, PresentedUnder, Presentable
<1>2. ASSUME KeyPress \/ doKBCInterrupt \/ KeyWhileDriveInitPolls \/ ATAHandler
      PROVE  /\ 0 \notin irr' /\ ~hpetEnabled' /\ cpu' = cpu /\ currentProcess' = currentProcess
  BY <1>2 DEF KeyPress, doKBCInterrupt, KeyWhileDriveInitPolls, ATAHandler, Acknowledge
<1>3. CASE DriveAnswers
  BY <1>3, Line14 DEF DriveAnswers, Raise
<1>4. CASE ATAReadReturns
  <2>1. irr' \in {irr, irr \cup {ATALine}}
    BY <1>4 DEF ATAReadReturns, Finish, FinishWithData, FinishWithError
  <2>2. 0 \notin irr'
    BY <2>1, Line14
  <2> QED
    BY <1>4, <2>2 DEF ATAReadReturns
<1> QED
  BY <1>1, <1>2, <1>3, <1>4

LEMMA StepKeepsBootAlone ==
  ASSUME FilesTypes, BootIsAlone, [FilesNext]_filesVars
  PROVE  BootIsAlone'
<1>1. Me \in Procs /\ op \in [Procs -> [call : Called, name : AnyName, file : FilesOnDisk]]
  BY MeIsProcess DEF FilesTypes, FileTypes
<1>2. NoOp.call = "none"
  BY DEF NoOp
<1>3. CASE probing = Done
  <2>1. probing' = Done
    <3>1. ~DriveInit
      BY <1>3 DEF DriveInit
    <3>2. ~DriveInitGoesOn
      BY <1>1, <1>3 DEF DriveInitGoesOn, Behind, BootIsAlone
    <3> QED
      BY Zenon, <1>3, <3>1, <3>2
      DEF FilesNext, Quiet, fileVars, filesVars, KeyWhileDriveInitPolls, Fork, OPEN, EXEC, READ,
          OPENReturns, READReturns, ExecFindsFile, ExecLoads
  <2>2. \/ UNCHANGED op
        \/ End
        \/ \E name, file : \E c \in {"OPEN", "READ", "EXEC directory", "EXEC file"} :
             Begin(c, name, file)
    <3>1. ~DriveInit
      BY <1>3 DEF DriveInit
    <3> QED
      BY Zenon, <3>1
      DEF FilesNext, Quiet, fileVars, filesVars, KeyWhileDriveInitPolls, Fork, DriveInitGoesOn,
          OPEN, EXEC, READ, OPENReturns, READReturns, ExecFindsFile, ExecLoads
  <2>3. \A p \in Procs : op'[p].call # "DriveInit"
    <3>1. CASE UNCHANGED op
      BY <1>3, <3>1 DEF BootIsAlone
    <3>2. CASE End
      BY <1>1, <1>2, <1>3, <3>2 DEF BootIsAlone, End
    <3>3. ASSUME NEW c \in {"OPEN", "READ", "EXEC directory", "EXEC file"}, NEW name, NEW file,
                 Begin(c, name, file)
          PROVE  \A p \in Procs : op'[p].call # "DriveInit"
      BY Zenon, <1>1, <1>3, <3>3 DEF BootIsAlone, Begin
    <3> QED
      BY Zenon, <2>2, <3>1, <3>2, <3>3
  <2> QED
    BY <2>1, <2>3 DEF BootIsAlone
<1>4. CASE probing # Done
  <2>1. /\ ~hpetEnabled /\ 0 \notin irr
        /\ cpu \in {"task", "ATAPollingUntilReady"}
        /\ op[Me].call \in {"none", "DriveInit"}
        /\ \A p \in Procs : p # Me => op[p] = NoOp
    BY <1>4 DEF BootIsAlone
  <2>2. \/ DriveInit \/ DriveInitGoesOn \/ UNCHANGED filesVars
        \/ (Tick \/ KeyPress \/ ResumeElsewhere \/ HPETHandler \/ doKBCInterrupt \/ DriveAnswers
            \/ ATAHandler \/ ATAReadReturns \/ KeyWhileDriveInitPolls) /\ UNCHANGED fileVars
    BY Zenon, <1>4, <2>1
    DEF FilesNext, InProgram, Fork, OPEN, EXEC, READ, OPENReturns, READReturns, ExecFindsFile,
        ExecLoads, Behind, Quiet, PolledReadReturns, KeyWhileDriveInitPolls
  <2>3. CASE (Tick \/ KeyPress \/ ResumeElsewhere \/ HPETHandler \/ doKBCInterrupt \/ DriveAnswers
              \/ ATAHandler \/ ATAReadReturns \/ KeyWhileDriveInitPolls) /\ UNCHANGED fileVars
    <3>1. /\ 0 \notin irr' /\ ~hpetEnabled' /\ cpu' \in {"task", "ATAPollingUntilReady"}
          /\ currentProcess' = currentProcess
      BY <2>1, <2>3, DriverStepAtBoot DEF FilesTypes
    <3>2. op' = op /\ probing' = probing
      BY <2>3 DEF fileVars
    <3> QED
      BY <1>4, <2>1, <3>1, <3>2 DEF BootIsAlone, Me
  <2>4. CASE DriveInit
    <3>1. \E lba, size : ATARead(lba, size, TRUE)
      BY <2>4 DEF DriveInit
    <3>2. /\ UNCHANGED <<currentProcess, hpetEnabled, irr>>
          /\ cpu' \in {"task", "ATAPollingUntilReady"}
      BY <3>1, PolledReadStays
    <3>3. probing' = probing /\ Begin("DriveInit", <<>>, NotFound)
      BY <2>4 DEF DriveInit
    <3>4. /\ op'[Me].call = "DriveInit"
          /\ \A p \in Procs : p # Me => op'[p] = NoOp
      BY <1>1, <2>1, <3>3 DEF Begin
    <3> QED
      BY <1>4, <2>1, <3>2, <3>3, <3>4 DEF BootIsAlone, Me
  <2>5. CASE DriveInitGoesOn
    <3>1. UNCHANGED <<currentProcess, hpetEnabled, irr, cpu>> /\ End
      BY <2>5 DEF DriveInitGoesOn, vars, schedVars
    <3>2. \A p \in Procs : op'[p] = NoOp
      BY <1>1, <2>1, <3>1 DEF End
    <3>3. currentProcess' \in Procs
      BY <1>1, <3>1 DEF Me
    <3> QED
      BY <1>1, <1>2, <1>4, <2>1, <3>1, <3>2, <3>3 DEF BootIsAlone, Me
  <2>6. CASE UNCHANGED filesVars
    BY <2>1, <2>6, <1>4 DEF BootIsAlone, filesVars, fileVars, vars, schedVars, Me
  <2> QED
    BY <2>2, <2>3, <2>4, <2>5, <2>6
<1> QED
  BY <1>3, <1>4

LEMMA StepKeepsFilesTypes ==
  ASSUME FilesTypes, BootIsAlone, [FilesNext]_filesVars
  PROVE  FilesTypes' /\ BootIsAlone'
<1>1. [AtaNext]_vars \/ KeyWhileDriveInitPolls
  BY FileStepIsDriverStep
<1>2. Types'
  BY <1>1, StepKeepsTypes, KeyKeepsTypes DEF FilesTypes
<1>3. Polling' => TRUE \in PollModes
  BY <1>1, PollingIsAllowed DEF FilesTypes
<1> QED
  BY <1>2, <1>3, StepKeepsFileTypes, StepKeepsBootAlone DEF FilesTypes

LEMMA InitFiles == FilesInit => FilesTypes /\ BootIsAlone
<1> SUFFICES ASSUME FilesInit
             PROVE  FilesTypes /\ BootIsAlone
  OBVIOUS
<1>1. Types /\ cpu = "task"
  BY InitTypes DEF FilesInit, AtaInit, Init
<1>2. Me \in Procs /\ Me = InitProc
  BY ProcsAssumption DEF FilesInit, AtaInit, Init, Me
<1>3. op = [p \in Procs |-> NoOp] /\ opened = [p \in Procs |-> Unopened]
      /\ loaded = [p \in Procs |-> Nothing] /\ probing \in {0, Done}
  BY DEF FilesInit
<1>4. /\ op \in [Procs -> [call : Called, name : AnyName, file : FilesOnDisk]]
      /\ opened \in [Procs -> [name : AnyName, file : FilesOnDisk]]
      /\ loaded \in [Procs -> [name : AnyName, sector : OnDisk]]
  <2>1. Unopened \in [name : AnyName, file : FilesOnDisk]
    BY DEF Unopened, AnyName, FilesOnDisk
  <2>2. Nothing \in [name : AnyName, sector : OnDisk]
    BY DEF Nothing, AnyName, OnDisk
  <2> QED
    BY <1>3, <2>1, <2>2, NoOpType
<1>5. PICK v \in Volumes :
        LET d == DiskOf(v)
            t == IF Booted THEN PartitionTable(d[0]) ELSE NoTable
        IN  /\ disk = d
            /\ drives = [i \in 0 .. 3 |->
                           [isValid |-> ATAIdentify(DriveKinds[i]),
                            table |-> IF ATAIdentify(DriveKinds[i]) THEN t ELSE NoTable]]
            /\ partition = IF Booted THEN ParseBootRecord(d[t.startLBA], t.startLBA)
                           ELSE ParseBootRecord(Zeroed, 0)
  BY DEF FilesInit
<1> DEFINE t == IF Booted THEN PartitionTable(disk[0]) ELSE NoTable
           T == [isValid : BOOLEAN, startLBA : {0, v.start}]
           D == [isValid : BOOLEAN, table : T]
<1>6. disk = DiskOf(v)
  BY <1>5
<1>7. disk[0] = MasterBootRecordOf(v) /\ 0 \in DOMAIN disk /\ v.start \in DOMAIN disk
  BY <1>6, DiskLayout
<1>8. t \in T
  <2>1. NoTable \in T
    BY DEF NoTable
  <2>2. PartitionTable(disk[0]) \in T
    BY <1>7, <2>1 DEF PartitionTable, MasterBootRecordOf
  <2> QED
    BY <2>1, <2>2
<1>9. NoTable \in T
  BY DEF NoTable
<1>10. drives \in [0 .. 3 -> D]
  <2>1. drives = [i \in 0 .. 3 |->
                    [isValid |-> ATAIdentify(DriveKinds[i]),
                     table |-> IF ATAIdentify(DriveKinds[i]) THEN t ELSE NoTable]]
    BY <1>5
  <2>2. \A i \in 0 .. 3 : ATAIdentify(DriveKinds[i]) \in BOOLEAN
    BY DEF ATAIdentify
  <2> HIDE DEF t, T
  <2> QED
    BY <1>8, <1>9, <2>1, <2>2
<1>11. Bounded(v, partition)
  <2>1. CASE Booted
    <3>1. partition = ParseBootRecord(disk[t.startLBA], t.startLBA) /\ t.startLBA \in {0, v.start}
      BY <1>5, <1>8, <2>1
    <3>2. disk[t.startLBA] \in OnDisk
      BY <1>7, <3>1 DEF OnDisk
    <3> QED
      BY <1>6, <3>1, <3>2, ParseBounded
  <2>2. CASE ~Booted
    <3>1. partition = ParseBootRecord(Zeroed, 0)
      BY <1>5, <2>2
    <3>2. ParseBootRecord(Zeroed, 0) = ParseBootRecord(Other, 0)
      BY DEF ParseBootRecord, Zeroed, Other
    <3>3. Other \in OnDisk
      BY DEF OnDisk
    <3> QED
      BY <1>6, <3>1, <3>2, <3>3, ParseBounded
  <2> QED
    BY <2>1, <2>2
<1>12. FileTypes
  <2>1. OfVolume(v)
    BY <1>6, <1>10, <1>11 DEF OfVolume
  <2>2. probing \in 0 .. Done
    BY <1>3 DEF Done
  <2> QED
    BY <1>4, <2>1, <2>2 DEF FileTypes
<1>13. BootIsAlone
  <2>1. \A p \in Procs : op[p] = NoOp
    BY <1>3
  <2> QED
    BY <1>1, <1>2, <2>1 DEF BootIsAlone, NoOp, FilesInit, AtaInit, Init
<1> QED
  BY <1>1, <1>12, <1>13 DEF FilesTypes, Polling

LEMMA FilesTypesInvariant == FilesSpec => [](FilesTypes /\ BootIsAlone)
BY InitFiles, StepKeepsFilesTypes, PTL DEF FilesSpec

LEMMA FilesTypesAreTypeOK == FilesTypes => FilesTypeOK
<1> SUFFICES ASSUME FilesTypes
             PROVE  FilesTypeOK
  OBVIOUS
<1>1. AtaTypeOK
  BY TypesAreTypeOK DEF FilesTypes, Types
<1>2. PICK v \in Volumes : OfVolume(v)
  BY DEF FilesTypes, FileTypes
<1>3. v.start \in Nat
  BY VolumeFields
<1>4. \A i \in 0 .. 3 : drives[i].isValid \in BOOLEAN /\ drives[i].table.startLBA \in Nat
  BY <1>2, <1>3 DEF OfVolume
<1>5. FilesOnDisk \subseteq FileRecords
  <2>1. DOMAIN disk \subseteq Nat /\ 512 \in Sizes
    BY ReadsAreAllowed, AtaAssumption
  <2> DEFINE n == 512
  <2>2. \A file \in [start : DOMAIN disk, size : {n}] : file \in [start : Nat, size : Sizes]
    <3>1. n \in Sizes /\ DOMAIN disk \subseteq Nat
      BY <2>1
    <3> HIDE DEF n
    <3> QED
      BY <3>1
  <2> QED
    BY <2>2 DEF FilesOnDisk, FileRecords
<1>6. partition.rootDirStartLBA \in Nat /\ partition.dataStartLBA \in Nat /\ probing \in 0 .. Done
  BY <1>2 DEF OfVolume, Bounded, FilesTypes, FileTypes
<1>7. ASSUME NEW p \in Procs
      PROVE  /\ op[p].name \in Names \cup {<<>>} /\ op[p].file \in FileRecords
             /\ opened[p].name \in Names \cup {<<>>} /\ opened[p].file \in FileRecords
             /\ loaded[p].name \in Names \cup {<<>>}
  <2>1. op[p] \in [call : Called, name : AnyName, file : FilesOnDisk]
        /\ opened[p] \in [name : AnyName, file : FilesOnDisk]
        /\ loaded[p] \in [name : AnyName, sector : OnDisk]
    BY <1>7 DEF FilesTypes, FileTypes
  <2> HIDE DEF FilesOnDisk, FileRecords
  <2> QED
    BY <1>5, <2>1 DEF AnyName
<1> QED
  BY <1>1, <1>4, <1>6, <1>7 DEF FilesTypeOK

\* Every variable of the file system keeps its type, for every disk, reading mode
\* and number of processes, and with drive errors: whatever is left in a buffer
\* whose read failed, the code goes on with a sector of the disk.
THEOREM FilesTypeCorrect == FilesSpec => []FilesTypeOK
BY FilesTypesInvariant, FilesTypesAreTypeOK, PTL

-----------------------------------------------------------------------------
(***************************************************************************)
(* The file system's use of the driver and of the scheduler.               *)
(***************************************************************************)

LEMMA SleepersKeepNoKeys ==
  ASSUME FilesTypes, PollModes \subseteq {FALSE}
  PROVE  ~KeyWhileDriveInitPolls
BY DEF FilesTypes, Polling, KeyWhileDriveInitPolls

\* OPEN and READ use the driver as module Ata allows for: each of their steps is
\* one of Ata with a sector of the disk and a size it knows, so that whatever is
\* proved of AtaSpec for reads that sleep holds below the file system.
THEOREM FilesImplementDriver == PollModes \subseteq {FALSE} => (FilesSpec => AtaSpec)
<1> SUFFICES ASSUME PollModes \subseteq {FALSE}
             PROVE  FilesSpec => AtaSpec
  OBVIOUS
<1>1. FilesInit => AtaInit
  BY DEF FilesInit
<1>2. FilesTypes /\ [FilesNext]_filesVars => [AtaNext]_vars
  BY FileStepIsDriverStep, SleepersKeepNoKeys
<1> QED
  BY <1>1, <1>2, FilesTypesInvariant, PTL DEF FilesSpec, AtaSpec

\* A key that comes while DriveInit polls is a key for the scheduler like any other.
LEMMA KeyIsSeen ==
  ASSUME KeyWhileDriveInitPolls
  PROVE  Sched!doKBCInterrupt
<1> USE DEF ATALine, Line, ATA_INTERRUPT_NUM, PIC_MASTER_INTERRUPT_NUM
<1>1. Presented(1) /\ irr' = irr \ {1} /\ cpu = "ATAPollingUntilReady"
      /\ UNCHANGED <<processList, pstate, pid, parent, currentProcess, resume, cpu,
                     hpetEnabled, isr>>
  BY DEF KeyWhileDriveInitPolls, KBC_INTERRUPT_NUM
<1>2. Sched!Presented(1)
  BY <1>1, SamePresented
<1>3. Sched!Acknowledge(1)
  BY <1>1, <1>2 DEF Sched!Acknowledge
<1>4. 1 \notin isr
  BY <1>1 DEF Presented, PresentedUnder, Presentable, HeldBack, MasterLine
<1>5. Sched!SendEndOfInterrupt(Sched!InServiceWith(1), Sched!KBC_INTERRUPT_NUM) = isr
  <2>1. Sched!InServiceWith(1) = isr \cup {1}
    BY DEF Sched!InServiceWith, Sched!MasterLine
  <2>2. LinesOf(33) = {1}
    BY DEF LinesOf, OnMaster, PIC_SLAVE_INTERRUPT_NUM
  <2>3. Sched!KBC_INTERRUPT_NUM = 33
    BY DEF Sched!KBC_INTERRUPT_NUM
  <2> QED
    BY <1>4, <2>1, <2>2, <2>3, SameEndOfInterrupt DEF SendEndOfInterrupt
<1> QED
  BY <1>1, <1>3, <1>5 DEF Sched!doKBCInterrupt

\* The file system too uses the scheduler as module Scheduler allows: with the
\* interrupt of the drive masked, as in this commit, whatever disk and whatever
\* errors it meets and in the middle of DriveInit and of EXEC; and with it
\* unmasked for OPEN and READ.
THEOREM FilesImplementScheduler ==
  ~AtaIrqUnmasked \/ SleepingReads => (FilesSpec => ImplementsScheduler)
<1>1. FilesInit => Sched!Init
  BY InitImplements DEF FilesInit
<1>2. ASSUME ~AtaIrqUnmasked
      PROVE  FilesSpec => ImplementsScheduler
  <2>1. FilesTypes /\ [FilesNext]_filesVars => [Sched!Next]_(Sched!schedVars)
    <3> SUFFICES ASSUME FilesTypes, [FilesNext]_filesVars
                 PROVE  [Sched!Next]_(Sched!schedVars)
      OBVIOUS
    <3>1. CASE [AtaNext]_vars
      BY <1>2, <3>1, StepImplements
    <3>2. CASE KeyWhileDriveInitPolls
      BY <3>2, KeyIsSeen DEF Sched!Next
    <3> QED
      BY <3>1, <3>2, FileStepIsDriverStep
  <2> QED
    BY <1>1, <2>1, FilesTypesInvariant, PTL DEF FilesSpec, ImplementsScheduler, Sched!Spec
<1>3. ASSUME SleepingReads
      PROVE  FilesSpec => ImplementsScheduler
  BY <1>3, FilesImplementDriver, DriverImplementsScheduler DEF SleepingReads
<1> QED
  BY <1>2, <1>3

\* With the file system on top of driver and scheduler no sleeper is executed, no
\* system call and no handler leaves the timer in service, and the ring of
\* processes stays whole.
THEOREM SchedulingHoldsUnderFiles ==
  ~AtaIrqUnmasked \/ SleepingReads =>
    (FilesSpec => [](RunsOnlyRunning /\ NoLineLeftInService /\ RingHoldsEachOnce))
<1> SUFFICES ASSUME ~AtaIrqUnmasked \/ SleepingReads
             PROVE  FilesSpec => [](RunsOnlyRunning /\ NoLineLeftInService /\ RingHoldsEachOnce)
  OBVIOUS
<1>1. FilesSpec => Sched!Spec
  BY FilesImplementScheduler DEF ImplementsScheduler
<1>2. Sched!Spec => [](RunsOnlyRunning /\ NoLineLeftInService /\ RingHoldsEachOnce)
  BY SchedulerGuarantees
<1> QED
  BY <1>1, <1>2, PTL

-----------------------------------------------------------------------------
(***************************************************************************)
(* What a disk d holds under a name, and files and contents found there.   *)
(***************************************************************************)
ContentsOf(d, name) ==
  {s \in {d[lba] : lba \in DOMAIN d} : s.kind = "data" /\ IsPrefix(name, s.name)}

GoodFile(d, name, file) ==
  file # NotFound =>
    file.size = 512 /\ file.start \in DOMAIN d /\ d[file.start] \in ContentsOf(d, name)

GoodLoad(d, l) == l # Nothing => l.sector \in ContentsOf(d, l.name)

LEMMA GoodFileIsRight ==
  ASSUME NEW name, NEW file
  PROVE  FileIsRight(name, file) <=> GoodFile(disk, name, file)
BY DEF FileIsRight, GoodFile, Means, ContentsOf, SectorAt

PartitionIsRight == probing = Done => partition = RightPartition

FilesAreRight ==
  /\ \A p \in Procs : GoodFile(disk, opened[p].name, opened[p].file)
  /\ \A p \in Procs : GoodLoad(disk, loaded[p])

(***************************************************************************)
(* Reads that sleep: a process in a system call sleeps in its read, and the*)
(* read is that of the root directory or of a file of that name.           *)
(***************************************************************************)
Asks(p, lba) == Reading(p) /\ call[p].lba = lba /\ call[p].SizeOfBytes = 512

SleeperAsks(p) ==
  \/ op[p] = NoOp
  \/ op[p].call = "OPEN" /\ probing = Done /\ Asks(p, partition.rootDirStartLBA)
  \/ /\ op[p].call = "READ" /\ op[p].file # NotFound
     /\ GoodFile(disk, op[p].name, op[p].file)
     /\ Asks(p, op[p].file.start)

SleepingFiles ==
  /\ PartitionIsRight
  /\ FilesAreRight
  /\ \A p \in Procs : SleeperAsks(p)

LEMMA RightPartitionStays == disk' = disk => RightPartition' = RightPartition
BY DEF RightPartition, Table, SectorAt

LEMMA InitPartition == FilesInit => PartitionIsRight
<1> SUFFICES ASSUME FilesInit, probing = Done
             PROVE  partition = RightPartition
  BY DEF PartitionIsRight
<1>1. Booted
  BY DEF FilesInit, Done
<1>2. PICK v \in Volumes :
        LET d == DiskOf(v)
            t == IF Booted THEN PartitionTable(d[0]) ELSE NoTable
        IN  /\ disk = d
            /\ drives = [i \in 0 .. 3 |->
                           [isValid |-> ATAIdentify(DriveKinds[i]),
                            table |-> IF ATAIdentify(DriveKinds[i]) THEN t ELSE NoTable]]
            /\ partition = IF Booted THEN ParseBootRecord(d[t.startLBA], t.startLBA)
                           ELSE ParseBootRecord(Zeroed, 0)
  BY DEF FilesInit
<1>3. disk = DiskOf(v) /\ 0 \in DOMAIN disk
      /\ partition = ParseBootRecord(disk[PartitionTable(disk[0]).startLBA], PartitionTable(disk[0]).startLBA)
  BY <1>1, <1>2, DiskLayout
<1>4. PartitionTable(disk[0]) = Table
  BY <1>3 DEF Table, SectorAt
<1>5. Table.startLBA \in DOMAIN disk
  BY <1>3, PartitionIs, DiskLayout
<1>6. disk[Table.startLBA] = SectorAt(Table.startLBA)
  BY <1>5 DEF SectorAt
<1> HIDE DEF Table
<1> QED
  BY <1>3, <1>4, <1>6 DEF RightPartition

LEMMA InitSleeping == FilesInit => SleepingFiles
<1> SUFFICES ASSUME FilesInit
             PROVE  SleepingFiles
  OBVIOUS
<1>1. \A p \in Procs : op[p] = NoOp /\ opened[p] = Unopened /\ loaded[p] = Nothing
  BY DEF FilesInit
<1>2. FilesAreRight
  BY <1>1 DEF FilesAreRight, GoodFile, GoodLoad, Unopened
<1> QED
  BY <1>1, <1>2, InitPartition DEF SleepingFiles, SleeperAsks

\* A read that returns brings the sector its process asked for.
LEMMA ReturnBringsSector ==
  ASSUME SleepingReads, FilesTypes, DataInv, DataInv', NEW lba \in Nat, Asks(Me, lba), ATAReadReturns
  PROVE  /\ ~call'[Me].reading
         /\ \A p \in Procs : p # Me => call'[p] = call[p]
         /\ call'[Me].returned = 512
         /\ InBuffer(call'[Me].returned, buffer'[Me]) = {SectorAt(lba)}
<1>1. Me \in Procs /\ call \in [Procs -> Calls]
  BY MeIsProcess DEF FilesTypes, Types, DriverTypes
<1>2. drive.status # "err"
  BY DEF DataInv, RingInv
<1>3. Return(ATARequestQueueFront.SizeOfBytes)
  BY <1>2 DEF ATAReadReturns, Finish, FinishWithError, FinishWithData
<1> DEFINE r == ATARequestQueueFront.SizeOfBytes
<1>4. r # -1
  <2>1. queueBody \in [Indices -> Requests \cup {Unwritten}] /\ HeadIndex \in Indices
    BY DEF FilesTypes, Types, DriverTypes
  <2>2. ATARequestQueueFront \in Requests \cup {Unwritten}
    BY <2>1 DEF ATARequestQueueFront
  <2>3. r \in Nat
    <3>1. CASE ATARequestQueueFront \in Requests
      BY <3>1, AtaAssumption DEF Requests
    <3>2. CASE ATARequestQueueFront = Unwritten
      BY <3>2 DEF Unwritten
    <3> QED
      BY <2>2, <3>1, <3>2
  <2> HIDE DEF r
  <2> QED
    BY <2>3
<1>5. call' = [call EXCEPT ![Me].reading = FALSE, ![Me].returned = r]
  BY <1>3 DEF Return, Me
<1> HIDE DEF r
<1>6. /\ call'[Me].reading = FALSE /\ call'[Me].returned = r
      /\ call'[Me].lba = call[Me].lba /\ call'[Me].SizeOfBytes = call[Me].SizeOfBytes
      /\ \A p \in Procs : p # Me => call'[p] = call[p]
  <2>1. call[Me] \in Calls
    BY <1>1
  <2> QED
    BY <1>1, <1>5, <2>1 DEF Calls
<1>7. /\ call'[Me].returned = call'[Me].SizeOfBytes
      /\ buffer'[Me] = Sectors(call'[Me].lba, call'[Me].SizeOfBytes)
  <2>1. \A p \in Procs :
          ~call'[p].reading /\ call'[p].returned # -1 =>
            /\ call'[p].returned = call'[p].SizeOfBytes
            /\ buffer'[p] = Sectors(call'[p].lba, call'[p].SizeOfBytes)
    BY DEF DataInv, ReadDeliversItsData, Reading
  <2> QED
    BY <1>1, <1>4, <1>6, <2>1
<1>8. call'[Me].returned = 512 /\ buffer'[Me] = Sectors(lba, 512)
  BY <1>6, <1>7 DEF Asks
<1>9. Sectors(lba, 512) # <<>> /\ Sectors(lba, 512)[1] = lba
  <2>1. sectorCount(512) = 1
    BY ReadsAreAllowed DEF SleepingReads, WholeSectors
  <2>2. Sectors(lba, 512) = [i \in 1 .. 1 |-> lba + i - 1]
    BY <2>1 DEF Sectors
  <2> QED
    BY <2>2
<1>10. 512 # -1
  OBVIOUS
<1>11. InBuffer(call'[Me].returned, buffer'[Me]) = {SectorAt(lba)}
  BY <1>8, <1>9, <1>10 DEF InBuffer
<1> QED
  BY <1>6, <1>8, <1>11 DEF Reading

\* A read that sleeps is a request, or an error if the ring is full.
LEMMA SleepingReadAsks ==
  ASSUME FilesTypes, NEW lba, NEW size, ATARead(lba, size, FALSE)
  PROVE  /\ \A p \in Procs : p # Me => call'[p] = call[p]
         /\ ~Full => call'[Me] = [lba |-> lba, SizeOfBytes |-> size, reading |-> TRUE, returned |-> -1]
<1>1. Me \in Procs /\ call \in [Procs -> Calls]
  BY MeIsProcess DEF FilesTypes, Types, DriverTypes
<1>2. CASE ReadFull(lba, size)
  BY <1>1, <1>2 DEF ReadFull, Me
<1>3. CASE Enqueue(lba, size)
  BY <1>1, <1>3 DEF Enqueue, Me
<1> QED
  BY <1>2, <1>3 DEF ATARead

EveryDiskIsPartitioned == \A v \in Volumes : v.active # 0

\* The steps of the driver that move no call, and those the call of one process.
LEMMA DriverKeepsCalls ==
  ASSUME \/ Tick \/ KeyPress \/ ResumeElsewhere \/ HPETHandler \/ doKBCInterrupt
         \/ SchedulerStart \/ sysExit,
         Quiet
  PROVE  call' = call
BY DEF Quiet, ataVars

LEMMA SleepersKeepBoot ==
  ASSUME SleepingReads, SleepingFiles, FilesTypes
  PROVE  ~DriveInit /\ ~DriveInitGoesOn /\ ~ExecFindsFile /\ ~ExecLoads /\ ~PolledReadReturns
         /\ \A name \in Names : ~EXEC(name)
<1>1. TRUE \notin PollModes /\ ~Polling
  BY DEF SleepingReads, FilesTypes
<1>2. \A lba, size : ~ATARead(lba, size, TRUE)
  BY <1>1, PolledReadStays
<1>3. op[Me].call \in {"none", "OPEN", "READ"}
  BY MeIsProcess DEF SleepingFiles, SleeperAsks, NoOp
<1> QED
  BY Zenon, <1>1, <1>2, <1>3
  DEF DriveInit, DriveInitGoesOn, ExecFindsFile, ExecLoads, PolledReadReturns, EXEC, Behind, Polling

\* What a file a directory names is worth, on a disk with a partition.
LEMMA SearchFindsGoodFile ==
  ASSUME EveryDiskIsPartitioned, FilesTypes, partition = RightPartition, NEW s \in OnDisk, NEW name
  PROVE  /\ GoodFile(disk, name, GetFileInfo(s, name))
         /\ s = SectorAt(partition.rootDirStartLBA) =>
              (GetFileInfo(s, name) = NotFound <=> Means(name) = {})
<1>1. PICK v \in Volumes : disk = DiskOf(v)
  BY DEF FilesTypes, FileTypes, OfVolume
<1>2. v.active # 0
  BY DEF EveryDiskIsPartitioned
<1>3. /\ FileIsRight(name, GetFileInfo(s, name))
      /\ s = SectorAt(partition.rootDirStartLBA) =>
              (GetFileInfo(s, name) = NotFound <=> Means(name) = {})
  BY <1>1, <1>2, SearchIsRight
<1> QED
  BY <1>3, GoodFileIsRight

LEMMA GoodFileIsLoaded ==
  ASSUME NEW name, NEW file, file # NotFound, GoodFile(disk, name, file)
  PROVE  GoodLoad(disk, [name |-> name, sector |-> SectorAt(file.start)])
BY DEF GoodFile, GoodLoad, SectorAt

LEMMA OpensGoodFile ==
  ASSUME FilesTypes, FilesAreRight, NEW s, NEW name, Open(name, s),
         GoodFile(disk, name, GetFileInfo(s, name)), disk' = disk, loaded' = loaded
  PROVE  FilesAreRight'
<1> DEFINE o == [name |-> name, file |-> GetFileInfo(s, name)]
<1>1. opened \in [Procs -> [name : AnyName, file : FilesOnDisk]]
  BY DEF FilesTypes, FileTypes
<1>2. opened' = [opened EXCEPT ![Me] = o] /\ o.name = name /\ o.file = GetFileInfo(s, name)
  BY DEF Open
<1> HIDE DEF o
<1>3. \A p \in Procs : opened'[p] = IF p = Me THEN o ELSE opened[p]
  BY <1>1, <1>2
<1>4. \A p \in Procs : GoodFile(disk, opened'[p].name, opened'[p].file)
  BY <1>2, <1>3 DEF FilesAreRight
<1> QED
  BY <1>4 DEF FilesAreRight

LEMMA LoadsGoodFile ==
  ASSUME FilesTypes, FilesAreRight, NEW s, NEW name, Load(name, s),
         GoodLoad(disk, [name |-> name, sector |-> s]), disk' = disk, opened' = opened
  PROVE  FilesAreRight'
<1> DEFINE o == [name |-> name, sector |-> s]
<1>1. loaded \in [Procs -> [name : AnyName, sector : OnDisk]]
  BY DEF FilesTypes, FileTypes
<1>2. loaded' = [loaded EXCEPT ![Me] = o] /\ GoodLoad(disk, o)
  BY DEF Load
<1> HIDE DEF o
<1>3. \A p \in Procs : loaded'[p] = IF p = Me THEN o ELSE loaded[p]
  BY <1>1, <1>2
<1>4. \A p \in Procs : GoodLoad(disk, loaded'[p])
  BY <1>2, <1>3 DEF FilesAreRight
<1> QED
  BY <1>4 DEF FilesAreRight

LEMMA ChildGetsGoodFiles ==
  ASSUME FilesTypes, FilesAreRight, NEW child \in Procs, Fork(child)
  PROVE  FilesAreRight'
<1>1. Me \in Procs /\ disk' = disk
  BY MeIsProcess DEF Fork
<1>2. CASE UNCHANGED <<opened, loaded>>
  BY <1>1, <1>2 DEF FilesAreRight
<1>3. CASE /\ opened' = [opened EXCEPT ![child] = opened[Me]]
           /\ loaded' = [loaded EXCEPT ![child] = loaded[Me]]
  <2>1. \A p \in Procs : opened'[p] \in {opened[p], opened[Me]} /\ loaded'[p] \in {loaded[p], loaded[Me]}
    BY <1>3 DEF FilesTypes, FileTypes
  <2> QED
    BY <1>1, <2>1 DEF FilesAreRight
<1> QED
  BY <1>2, <1>3 DEF Fork

\* The calls nobody moves are asked for as before.
LEMMA AskersStay ==
  ASSUME SleepingFiles, UNCHANGED <<disk, partition, probing, op>>, NEW p \in Procs, call'[p] = call[p]
  PROVE  SleeperAsks(p)'
BY DEF SleepingFiles, SleeperAsks, Asks, Reading

LEMMA StepKeepsSleeping ==
  ASSUME SleepingReads, EveryDiskIsPartitioned, FilesTypes, DataInv, DataInv', SleepingFiles,
         [FilesNext]_filesVars
  PROVE  SleepingFiles'
<1>1. /\ Me \in Procs /\ op \in [Procs -> [call : Called, name : AnyName, file : FilesOnDisk]]
      /\ opened \in [Procs -> [name : AnyName, file : FilesOnDisk]]
  BY MeIsProcess DEF FilesTypes, FileTypes
<1>2. disk' = disk
  BY DiskStays
<1>3. UNCHANGED <<partition, probing>> /\ PartitionIsRight'
  <2>1. UNCHANGED <<partition, probing>>
    BY SleepersKeepBoot
    DEF FilesNext, Quiet, fileVars, filesVars, KeyWhileDriveInitPolls, Fork, OPEN, READ,
        OPENReturns, READReturns
  <2> QED
    BY <1>2, <2>1, RightPartitionStays DEF PartitionIsRight, SleepingFiles
<1>4. ASSUME UNCHANGED <<op, opened, loaded, call>>
      PROVE  SleepingFiles'
  BY <1>2, <1>3, <1>4, AskersStay DEF SleepingFiles, FilesAreRight
<1>5. ASSUME NEW child \in Procs, Fork(child)
      PROVE  SleepingFiles'
  <2>1. op' = op /\ call' = call
    BY <1>5 DEF Fork, ataVars
  <2> QED
    BY <1>2, <1>3, <1>5, <2>1, AskersStay, ChildGetsGoodFiles DEF SleepingFiles
<1>6. ASSUME NEW name \in Names, OPEN(name)
      PROVE  SleepingFiles'
  <2>1. probing = Done /\ partition = RightPartition
    BY <1>6 DEF OPEN, InProgram, SleepingFiles, PartitionIsRight
  <2>2. ATARead(partition.rootDirStartLBA, 512, FALSE) /\ loaded' = loaded
    BY <1>6 DEF OPEN
  <2>3. \A p \in Procs : p # Me => call'[p] = call[p]
    BY <2>2, SleepingReadAsks
  <2>4. CASE Full
    <3>1. op' = op /\ op[Me] = NoOp
      BY <1>6, <2>4 DEF OPEN, InProgram
    <3>2. PICK s \in InBuffer(-1, <<>>) : Open(name, s)
      BY <1>6, <2>4 DEF OPEN
    <3>3. s \in OnDisk
      BY InBufferOnDisk
    <3>4. GoodFile(disk, name, GetFileInfo(s, name))
      BY <2>1, <3>3, SearchFindsGoodFile
    <3>5. FilesAreRight'
      BY <1>2, <2>2, <3>2, <3>4, OpensGoodFile DEF SleepingFiles
    <3>6. SleeperAsks(Me) /\ \A p \in Procs : SleeperAsks(p)'
      <4>1. ASSUME NEW p \in Procs
            PROVE  SleeperAsks(p)'
        BY <1>2, <1>3, <2>3, <3>1, AskersStay DEF SleeperAsks, NoOp
      <4> QED
        BY <3>1, <4>1 DEF SleeperAsks
    <3> QED
      BY <1>3, <3>5, <3>6 DEF SleepingFiles
  <2>5. CASE ~Full
    <3>1. opened' = opened /\ Begin("OPEN", name, NotFound)
      BY <1>6, <2>5 DEF OPEN
    <3> DEFINE n == 512
    <3>2. call'[Me] = [lba |-> partition.rootDirStartLBA, SizeOfBytes |-> n, reading |-> TRUE,
                       returned |-> -1]
      <4>1. ATARead(partition.rootDirStartLBA, n, FALSE)
        BY <2>2
      <4> HIDE DEF n
      <4> QED
        BY <2>5, <4>1, SleepingReadAsks
    <3>3. op'[Me].call = "OPEN" /\ \A p \in Procs : p # Me => op'[p] = op[p]
      BY <1>1, <3>1 DEF Begin
    <3>4. ASSUME NEW p \in Procs
          PROVE  SleeperAsks(p)'
      <4>1. CASE p = Me
        BY <1>3, <2>1, <3>2, <3>3, <4>1 DEF SleeperAsks, Asks, Reading
      <4>2. CASE p # Me
        <5>1. op'[p] = op[p] /\ call'[p] = call[p]
          BY <2>3, <3>3, <4>2
        <5> QED
          BY <1>2, <1>3, <5>1 DEF SleepingFiles, SleeperAsks, Asks, Reading
      <4> QED
        BY <4>1, <4>2
    <3> QED
      BY <1>2, <1>3, <2>2, <3>1, <3>4 DEF SleepingFiles, FilesAreRight
  <2> QED
    BY <2>4, <2>5
<1>7. CASE READ
  <2> DEFINE file == opened[Me].file
  <2>1. file # NotFound /\ ATARead(file.start, file.size, FALSE) /\ UNCHANGED <<opened, loaded>>
    BY <1>7 DEF READ
  <2>2. GoodFile(disk, opened[Me].name, file) /\ file.size = 512
    BY <1>1, <2>1 DEF SleepingFiles, FilesAreRight, GoodFile
  <2>3. \A p \in Procs : p # Me => call'[p] = call[p]
    BY <2>1, SleepingReadAsks
  <2>4. ASSUME NEW p \in Procs
        PROVE  SleeperAsks(p)'
    <3>1. CASE Full
      BY <1>2, <1>3, <1>7, <2>3, <3>1, AskersStay DEF READ, InProgram, SleeperAsks
    <3>2. CASE ~Full
      <4>1. Begin("READ", opened[Me].name, file)
        BY <1>7, <3>2 DEF READ
      <4>2. /\ op'[Me].call = "READ" /\ op'[Me].name = opened[Me].name /\ op'[Me].file = file
            /\ \A q \in Procs : q # Me => op'[q] = op[q]
        BY <1>1, <4>1 DEF Begin
      <4>3. CASE p = Me
        <5>1. call'[Me] = [lba |-> file.start, SizeOfBytes |-> file.size, reading |-> TRUE,
                           returned |-> -1]
          BY <2>1, <3>2, SleepingReadAsks
        <5> HIDE DEF file
        <5> QED
          BY <1>2, <2>1, <2>2, <4>2, <4>3, <5>1 DEF SleeperAsks, Asks, Reading
      <4>4. CASE p # Me
        <5>1. op'[p] = op[p] /\ call'[p] = call[p]
          BY <2>3, <4>2, <4>4
        <5> QED
          BY <1>2, <1>3, <5>1 DEF SleepingFiles, SleeperAsks, Asks, Reading
      <4> QED
        BY <4>3, <4>4
    <3> QED
      BY <3>1, <3>2
  <2> QED
    BY <1>2, <1>3, <2>1, <2>4 DEF SleepingFiles, FilesAreRight
<1>8. ASSUME End, \A p \in Procs : p # Me => call'[p] = call[p], FilesAreRight'
      PROVE  SleepingFiles'
  <2>1. op'[Me] = NoOp /\ \A p \in Procs : p # Me => op'[p] = op[p]
    BY <1>1, <1>8 DEF End
  <2>2. ASSUME NEW p \in Procs
        PROVE  SleeperAsks(p)'
    <3>1. CASE p = Me
      BY <2>1, <3>1 DEF SleeperAsks, NoOp
    <3>2. CASE p # Me
      <4>1. op'[p] = op[p] /\ call'[p] = call[p]
        BY <1>8, <2>1, <3>2
      <4> QED
        BY <1>2, <1>3, <4>1 DEF SleepingFiles, SleeperAsks, Asks, Reading
    <3> QED
      BY <3>1, <3>2
  <2> QED
    BY <1>3, <1>8, <2>2 DEF SleepingFiles
<1>9. CASE OPENReturns
  <2>1. op[Me].call = "OPEN" /\ ATAReadReturns /\ End /\ loaded' = loaded
    BY <1>9 DEF OPENReturns
  <2>2. probing = Done /\ Asks(Me, partition.rootDirStartLBA)
    BY <1>1, <2>1 DEF SleepingFiles, SleeperAsks, NoOp
  <2>3. partition.rootDirStartLBA \in Nat /\ partition = RightPartition
    BY <2>2 DEF SleepingFiles, PartitionIsRight, FilesTypes, FileTypes, OfVolume, Bounded
  <2>4. /\ \A p \in Procs : p # Me => call'[p] = call[p]
        /\ InBuffer(call'[Me].returned, buffer'[Me]) = {SectorAt(partition.rootDirStartLBA)}
    BY <2>1, <2>2, <2>3, ReturnBringsSector
  <2>5. Open(op[Me].name, SectorAt(partition.rootDirStartLBA))
    BY <1>9, <2>4 DEF OPENReturns
  <2>6. GoodFile(disk, op[Me].name, GetFileInfo(SectorAt(partition.rootDirStartLBA), op[Me].name))
    <3>1. SectorAt(partition.rootDirStartLBA) \in OnDisk
      BY DEF SectorAt, OnDisk
    <3> QED
      BY <2>3, <3>1, SearchFindsGoodFile
  <2>7. FilesAreRight'
    BY <1>2, <2>1, <2>5, <2>6, OpensGoodFile DEF SleepingFiles
  <2> QED
    BY <1>8, <2>1, <2>4, <2>7
<1>10. CASE READReturns
  <2>1. op[Me].call = "READ" /\ ATAReadReturns /\ End /\ opened' = opened
    BY <1>10 DEF READReturns
  <2>2. op[Me].file # NotFound /\ GoodFile(disk, op[Me].name, op[Me].file)
        /\ Asks(Me, op[Me].file.start)
    BY <1>1, <2>1 DEF SleepingFiles, SleeperAsks, NoOp
  <2>3. op[Me].file.start \in Nat
    <3>1. op[Me].file.start \in DOMAIN disk
      BY <2>2 DEF GoodFile
    <3> QED
      <4>1. DOMAIN disk \subseteq Nat
        BY ReadsAreAllowed, AtaAssumption
      <4> QED
        BY <3>1, <4>1
  <2>4. /\ \A p \in Procs : p # Me => call'[p] = call[p]
        /\ call'[Me].returned = 512
        /\ InBuffer(call'[Me].returned, buffer'[Me]) = {SectorAt(op[Me].file.start)}
    BY <2>1, <2>2, <2>3, ReturnBringsSector
  <2>5. call'[Me].returned # -1
    BY <2>4
  <2>6. Load(op[Me].name, SectorAt(op[Me].file.start))
    BY <1>10, <2>4, <2>5 DEF READReturns
  <2>7. GoodLoad(disk, [name |-> op[Me].name, sector |-> SectorAt(op[Me].file.start)])
    BY <2>2, GoodFileIsLoaded
  <2>8. FilesAreRight'
    BY <1>2, <2>1, <2>6, <2>7, LoadsGoodFile DEF SleepingFiles
  <2> QED
    BY <1>8, <2>1, <2>4, <2>8
<1>11. CASE (DriveAnswers \/ ATAHandler) /\ UNCHANGED fileVars
  <2>1. call' = call
    BY <1>11 DEF DriveAnswers, ATAHandler, ataVars
  <2> QED
    BY <1>4, <1>11, <2>1 DEF fileVars
<1>12. CASE Quiet
  BY <1>4, <1>12 DEF Quiet, fileVars, ataVars
<1>13. CASE UNCHANGED filesVars
  BY <1>4, <1>13 DEF filesVars, fileVars, vars, ataVars
<1> QED
  BY <1>5, <1>6, <1>7, <1>9, <1>10, <1>11, <1>12, <1>13, SleepersKeepBoot, SleepersKeepNoKeys
  DEF FilesNext, SleepingReads

LEMMA SleepingFilesInvariant ==
  SleepingReads /\ EveryDiskIsPartitioned => (FilesSpec => [](FilesTypes /\ DataInv /\ SleepingFiles))
<1> SUFFICES ASSUME SleepingReads, EveryDiskIsPartitioned
             PROVE  FilesSpec => [](FilesTypes /\ DataInv /\ SleepingFiles)
  OBVIOUS
<1>1. FilesSpec => []DataInv
  BY FilesImplementDriver, DataInvariant DEF SleepingReads, OneKindOfRead
<1>2. FilesTypes /\ DataInv /\ DataInv' /\ SleepingFiles /\ [FilesNext]_filesVars => SleepingFiles'
  BY StepKeepsSleeping
<1> QED
  BY <1>1, <1>2, InitSleeping, FilesTypesInvariant, PTL DEF FilesSpec

LEMMA FilesAreRightLoads == FilesAreRight => LoadsTheNamedFile
<1>1. \A name : ContentsOf(disk, name) = Means(name)
  BY DEF ContentsOf, Means
<1> QED
  BY <1>1 DEF FilesAreRight, GoodLoad, LoadsTheNamedFile

\* What a program gets by OPEN and READ, which sleep in their reads, is the
\* contents of a file its name means: on any disk with a partition, wherever its
\* parts lie and whatever files it holds, with any number of processes and of
\* readers, and a ring of any size, a full one included.
THEOREM SleepersLoadTheNamedFile ==
  SleepingReads /\ EveryDiskIsPartitioned => (FilesSpec => []LoadsTheNamedFile)
<1>1. FilesTypes /\ DataInv /\ SleepingFiles => LoadsTheNamedFile
  BY FilesAreRightLoads DEF SleepingFiles
<1> QED
  BY <1>1, SleepingFilesInvariant, PTL

-----------------------------------------------------------------------------
(***************************************************************************)
(* A ring that is never full for a caller: OPEN then always searches the   *)
(* directory itself, and what it finds is what there is.                   *)
(***************************************************************************)
RingHasRoom ==
  IsFiniteSet(Procs) /\ Cardinality(Procs \ Busy) <= ATA_REQUEST_QUEUE_CAPACITY

BusyNeverRead == \A p \in Busy : ~Reading(p)

LEMMA BusyNeverReadStep ==
  ASSUME Types, BusyNeverRead, [AtaNext]_vars
  PROVE  BusyNeverRead'
<1>1. ASSUME call' = call
      PROVE  BusyNeverRead'
  BY <1>1 DEF BusyNeverRead, Reading
<1>2. /\ currentProcess \in Procs /\ call \in [Procs -> Calls] /\ Busy \subseteq Procs
  BY ProcsAssumption DEF Types, SchedulerTypes, DriverTypes
<1>3. ASSUME NEW lba, NEW size, NEW enablePoll, ATARead(lba, size, enablePoll)
      PROVE  BusyNeverRead'
  <2>1. currentProcess \notin Busy
    BY <1>3 DEF ATARead
  <2>2. \A p \in Busy : call'[p] = call[p]
    <3>1. CASE ReadFull(lba, size)
      BY <1>2, <2>1, <3>1 DEF ReadFull
    <3>2. CASE Enqueue(lba, size)
      BY <1>2, <2>1, <3>2 DEF Enqueue
    <3> QED
      BY <1>3, <3>1, <3>2 DEF ATARead
  <2> QED
    BY <2>2 DEF BusyNeverRead, Reading
<1>4. ASSUME NEW value, Return(value)
      PROVE  BusyNeverRead'
  <2>1. \A p \in Busy : call'[p].reading = FALSE \/ call'[p] = call[p]
    BY <1>2, <1>4 DEF Return, Calls
  <2> QED
    BY <2>1 DEF BusyNeverRead, Reading
<1>5. CASE ATAReadReturns
  BY <1>4, <1>5 DEF ATAReadReturns, Finish, FinishWithError, FinishWithData
<1> QED
  BY <1>1, <1>3, <1>5 DEF AtaNext, ataVars, vars, DriveAnswers, ATAHandler

LEMMA CallerHasRoom ==
  ASSUME RingHasRoom, RingInv, BusyNeverRead, cpu = "task", Me \notin Busy
  PROVE  ~Full
<1> SUFFICES ASSUME Full
             PROVE  FALSE
  OBVIOUS
<1> DEFINE S == Procs \ Busy
           T == S \ {Me}
           f == [i \in Queue |-> Entry(i).process]
<1>1. Me \in S
  BY DEF RingInv, Types, SchedulerTypes, Me
<1>2. ~Reading(Me)
  BY <1>1 DEF RingInv, Readers, Switches, InATARead, Polling, Me
<1>3. /\ \A i \in Queue : Entry(i).process \in T
      /\ \A i, j \in Queue : Entry(i).process = Entry(j).process => i = j
  <2>1. ASSUME NEW i \in Queue
        PROVE  Entry(i).process \in T
    <3>1. Entry(i) \in Requests /\ Reading(Entry(i).process)
      BY DEF RingInv, RingEntries
    <3>2. Entry(i).process \in Procs
      BY <3>1 DEF Requests
    <3> QED
      BY <1>2, <3>1, <3>2 DEF BusyNeverRead
  <2> QED
    BY <2>1 DEF RingInv, RingEntries
<1>4. IsFiniteSet(S) /\ IsFiniteSet(T) /\ Cardinality(T) = Cardinality(S) - 1
  <2>1. IsFiniteSet(S)
    BY FS_Subset DEF RingHasRoom
  <2> QED
    BY <1>1, <2>1, FS_RemoveElement
<1>5. Size = Capacity /\ Capacity \in Nat \ {0} /\ Cardinality(S) <= Capacity /\ Cardinality(S) \in Nat
  BY <1>4, CapacityType, FS_CardinalityType DEF Full, RingHasRoom, Capacity
<1>6. IsFiniteSet(Queue) /\ Cardinality(Queue) = Capacity
  <2>1. Queue = 0 .. Capacity - 1
    BY <1>5 DEF Queue
  <2> QED
    BY <1>5, <2>1, FS_Interval
<1>7. Cardinality(T) < Cardinality(Queue)
  <2> HIDE DEF S, T
  <2> QED
    BY <1>4, <1>5, <1>6
<1>8. f \in [Queue -> T]
  BY <1>3
<1> HIDE DEF S, T
<1>9. PICK i, j \in Queue : i # j /\ f[i] = f[j]
  <2> HIDE DEF f
  <2> QED
    BY <1>4, <1>6, <1>7, <1>8, FS_PigeonHole
<1>10. f[i] = Entry(i).process /\ f[j] = Entry(j).process
  OBVIOUS
<1> QED
  BY <1>3, <1>9, <1>10

FoundIn(d, o) == o # Unopened => (ContentsOf(d, o.name) = {} <=> o.file = NotFound)

AllAreFound == \A p \in Procs : FoundIn(disk, opened[p])

LEMMA StepKeepsFound ==
  ASSUME SleepingReads, EveryDiskIsPartitioned, RingHasRoom, FilesTypes, DataInv, DataInv',
         SleepingFiles, BusyNeverRead, AllAreFound, [FilesNext]_filesVars
  PROVE  AllAreFound'
<1>1. Me \in Procs /\ opened \in [Procs -> [name : AnyName, file : FilesOnDisk]]
  BY MeIsProcess DEF FilesTypes, FileTypes
<1>2. disk' = disk
  BY DiskStays
<1>3. CASE opened' = opened
  BY <1>2, <1>3 DEF AllAreFound
<1>4. ASSUME NEW child \in Procs, Fork(child)
      PROVE  AllAreFound'
  <2>1. \A p \in Procs : opened'[p] \in {opened[p], opened[Me]}
    BY <1>1, <1>4 DEF Fork
  <2> QED
    BY <1>1, <1>2, <2>1 DEF AllAreFound
<1>5. ASSUME NEW name \in Names, OPEN(name)
      PROVE  AllAreFound'
  <2>1. cpu = "task" /\ Me \notin Busy
    BY <1>5 DEF OPEN, InProgram, ATARead, Me
  <2>2. ~Full
    BY <2>1, CallerHasRoom DEF DataInv
  <2> QED
    BY <1>3, <1>5, <2>2 DEF OPEN
<1>6. CASE OPENReturns
  <2> DEFINE root == partition.rootDirStartLBA
             name == op[Me].name
             o    == [name |-> name, file |-> GetFileInfo(SectorAt(root), name)]
  <2>1. op[Me].call = "OPEN" /\ ATAReadReturns
    BY <1>6 DEF OPENReturns
  <2>2. probing = Done /\ Asks(Me, root)
    BY <1>1, <2>1 DEF SleepingFiles, SleeperAsks, NoOp
  <2>3. root \in Nat /\ partition = RightPartition
    BY <2>2 DEF SleepingFiles, PartitionIsRight, FilesTypes, FileTypes, OfVolume, Bounded
  <2>4. InBuffer(call'[Me].returned, buffer'[Me]) = {SectorAt(root)}
    BY <2>1, <2>2, <2>3, ReturnBringsSector
  <2>5. opened' = [opened EXCEPT ![Me] = o]
    BY <1>6, <2>4 DEF OPENReturns, Open
  <2>6. FoundIn(disk, o)
    <3>1. SectorAt(root) \in OnDisk
      BY DEF SectorAt, OnDisk
    <3>2. GetFileInfo(SectorAt(root), name) = NotFound <=> Means(name) = {}
      BY <2>3, <3>1, SearchFindsGoodFile
    <3>3. ContentsOf(disk, name) = Means(name)
      BY DEF ContentsOf, Means
    <3>4. o.name = name /\ o.file = GetFileInfo(SectorAt(root), name)
      OBVIOUS
    <3> HIDE DEF name, o
    <3> QED
      BY <3>2, <3>3, <3>4 DEF FoundIn
  <2> HIDE DEF o, name, root
  <2>7. \A p \in Procs : opened'[p] = IF p = Me THEN o ELSE opened[p]
    BY <1>1, <2>5
  <2> QED
    BY <1>2, <2>6, <2>7 DEF AllAreFound
<1>7. FilesNext => \/ opened' = opened \/ OPENReturns
                   \/ \E child \in Procs : Fork(child)
                   \/ \E name \in Names : OPEN(name)
  BY Zenon DEF FilesNext, Quiet, fileVars, KeyWhileDriveInitPolls, DriveInit, DriveInitGoesOn, EXEC, READ,
         READReturns, ExecFindsFile, ExecLoads
<1> QED
  BY <1>3, <1>4, <1>5, <1>6, <1>7 DEF filesVars, fileVars

LEMMA FoundIsFound == FilesAreRight /\ AllAreFound => OpenFindsTheFile
<1> SUFFICES ASSUME FilesAreRight, AllAreFound, NEW p \in Procs, opened[p] # Unopened
             PROVE  IF Means(opened[p].name) = {} THEN opened[p].file = NotFound
                    ELSE /\ opened[p].file # NotFound
                         /\ SectorAt(opened[p].file.start) \in Means(opened[p].name)
  BY DEF OpenFindsTheFile
<1>1. ContentsOf(disk, opened[p].name) = Means(opened[p].name)
  BY DEF ContentsOf, Means
<1>2. Means(opened[p].name) = {} <=> opened[p].file = NotFound
  BY <1>1 DEF AllAreFound, FoundIn
<1>3. opened[p].file # NotFound => SectorAt(opened[p].file.start) \in Means(opened[p].name)
  BY <1>1 DEF FilesAreRight, GoodFile, SectorAt
<1> QED
  BY <1>2, <1>3

\* As long as the ring has room for every process that may read, OPEN finds a
\* file exactly when the disk holds one, and the file it gives to the program is
\* one its name means: for any such disk, any number of processes that open and
\* read at the same time, and every order of their steps.
THEOREM OpenersFindTheFile ==
  SleepingReads /\ EveryDiskIsPartitioned /\ RingHasRoom => (FilesSpec => []OpenFindsTheFile)
<1> SUFFICES ASSUME SleepingReads, EveryDiskIsPartitioned, RingHasRoom
             PROVE  FilesSpec => []OpenFindsTheFile
  OBVIOUS
<1>1. FilesSpec => []BusyNeverRead
  <2>1. FilesInit => BusyNeverRead
    BY ProcsAssumption DEF FilesInit, AtaInit, BusyNeverRead, Reading, NoCall
  <2>2. FilesTypes /\ BusyNeverRead /\ [AtaNext]_vars => BusyNeverRead'
    BY BusyNeverReadStep DEF FilesTypes
  <2>3. FilesSpec => [][AtaNext]_vars
    BY FilesImplementDriver, PTL DEF SleepingReads, AtaSpec
  <2> QED
    BY <2>1, <2>2, <2>3, FilesTypesInvariant, PTL DEF FilesSpec
<1>2. FilesInit => AllAreFound
  BY DEF FilesInit, AllAreFound, FoundIn
<1>3. FilesTypes /\ DataInv /\ DataInv' /\ SleepingFiles /\ BusyNeverRead /\ AllAreFound
        /\ [FilesNext]_filesVars => AllAreFound'
  BY StepKeepsFound
<1>4. FilesSpec => [](FilesTypes /\ DataInv /\ SleepingFiles)
  BY SleepingFilesInvariant
<1>5. FilesSpec => []AllAreFound
  BY <1>1, <1>2, <1>3, <1>4, PTL DEF FilesSpec
<1>6. SleepingFiles /\ AllAreFound => OpenFindsTheFile
  BY FoundIsFound DEF SleepingFiles
<1> QED
  BY <1>4, <1>5, <1>6, PTL

-----------------------------------------------------------------------------
(***************************************************************************)
(* Reads that poll, whatever the drive answers: DriveInit and EXEC.  There *)
(* is never more than one.  Once the drive has reported an error its       *)
(* request stays in the ring for good, and every read after it fails.      *)
(***************************************************************************)
Failed  == drive.status = "err" /\ Size > 0
Idle    == Size = 0 /\ drive = NoCommand /\ ~Polling
Serving ==
  /\ Polling /\ Size = 1
  /\ ATARequestQueueFront = [lba |-> call[Me].lba, SizeOfBytes |-> 512, process |-> Me]
  /\ drive \in {HeadCommand("busy"), HeadCommand("drq")}

\* The sector the call of process p is about.
Asked(p) ==
  CASE op[p].call = "DriveInit" -> IF probing = BootRecord THEN drives[0].table.startLBA ELSE 0
    [] op[p].call = "EXEC directory" -> partition.rootDirStartLBA
    [] op[p].call = "EXEC file" -> op[p].file.start
    [] OTHER -> 0

\* Only the process on the processor is in a call, and only it can be reading.
OneCaller ==
  /\ \A p \in Procs : Reading(p) <=> Polling /\ p = Me
  /\ \A p \in Procs : op[p] # NoOp =>
       /\ p = Me /\ cpu \in {"task", "ATAPollingUntilReady"}
       /\ op[p].call \in {"DriveInit", "EXEC directory", "EXEC file"}
       /\ op[p].call = "EXEC directory" => probing = Done

\* What the caller asks for and, behind its read, what it has got.
CallerAsks ==
  op[Me] # NoOp =>
    /\ call[Me].lba = Asked(Me)
    /\ ~Polling =>
         IF Failed THEN call[Me].returned = -1
         ELSE call[Me].returned = 512 /\ buffer[Me] = <<call[Me].lba>>
    /\ op[Me].call = "EXEC file" =>
         op[Me].file # NotFound /\ (Failed \/ GoodFile(disk, op[Me].name, op[Me].file))

\* What DriveInit has found, unless a read failed.
BootFoundPartition ==
  Failed \/ /\ probing \notin {0, Done} => drives[0].table = Table
            /\ PartitionIsRight

PolledFiles ==
  /\ Failed \/ Idle \/ Serving
  /\ OneCaller /\ CallerAsks /\ BootFoundPartition
  /\ FilesAreRight

LEMMA FullSectors ==
  ASSUME NEW n, n = 512
  PROVE  CountRegister(sectorCount(n)) = 1 /\ sectorCount(n) = 1 /\ words(n) = WordsPerSector
<1>1. sectorCount(n) = 1
  BY DEF sectorCount
<1>2. words(n) = WordsPerSector
  BY DEF words, WordsPerSector
<1>3. CountRegister(1) = 1
  BY DEF CountRegister
<1> QED
  BY <1>1, <1>2, <1>3

\* A read that polls: the drive takes it at once, or it fails like those before it.
LEMMA PolledReadBegins ==
  ASSUME FilesTypes, PolledFiles, NEW lba \in DOMAIN disk, ATARead(lba, 512, TRUE)
  PROVE  /\ (Failed \/ Idle \/ Serving)'
         /\ Failed' <=> Failed
         /\ Me' = Me
         /\ \A p \in Procs : Reading(p)' <=> Polling' /\ p = Me
         /\ call'[Me].lba = lba
         /\ cpu' \in {"task", "ATAPollingUntilReady"}
         /\ ~Polling' => Failed' /\ call'[Me].returned = -1
<1> DEFINE size == 512
<1>1. /\ cpu = "task" /\ ~Polling /\ Me \in Procs /\ call \in [Procs -> Calls]
      /\ Size \in Nat /\ HeadIndex \in Indices /\ queueBody \in [Indices -> Requests \cup {Unwritten}]
  BY MeIsProcess, CapacityType DEF ATARead, FilesTypes, Types, DriverTypes, Polling
<1>2. Failed \/ Idle
  BY <1>1 DEF PolledFiles, Serving
<1>3. \A p \in Procs : ~Reading(p)
  BY Zenon, <1>1 DEF PolledFiles, OneCaller
<1>4. CASE ReadFull(lba, size)
  <2>1. /\ Full /\ UNCHANGED <<currentProcess, cpu, Size, drive>>
        /\ call' = [call EXCEPT ![Me] =
                      [lba |-> lba, SizeOfBytes |-> size, reading |-> FALSE, returned |-> -1]]
    BY <1>4 DEF ReadFull, Me
  <2>2. Failed
    <3>1. Size # 0
      BY <2>1, CapacityType DEF Full, Capacity
    <3> QED
      BY <1>2, <3>1 DEF Idle
  <2>3. Failed' /\ Me' = Me /\ ~Polling'
    BY <1>1, <2>1, <2>2 DEF Failed, Me, Polling
  <2> HIDE DEF size
  <2>4. /\ call'[Me].lba = lba /\ call'[Me].reading = FALSE /\ call'[Me].returned = -1
        /\ \A p \in Procs : p # Me => call'[p] = call[p]
    BY <1>1, <2>1
  <2> QED
    BY <1>1, <1>3, <2>1, <2>2, <2>3, <2>4 DEF Reading
<1>5. CASE Enqueue(lba, size) /\ cpu' = "ATAPollingUntilReady" /\ UNCHANGED currentProcess
  <2> DEFINE request == [lba |-> lba, SizeOfBytes |-> size, process |-> Me]
  <2>1. /\ ~Full
        /\ Size' = Size + 1 /\ queueBody' = [queueBody EXCEPT ![PushIndex] = request]
        /\ HeadIndex' = HeadIndex
        /\ IF Size = 0 THEN drive' = ATASendRequest(drive, request) ELSE drive' = drive
        /\ call' = [call EXCEPT ![Me] =
                      [lba |-> lba, SizeOfBytes |-> size, reading |-> TRUE, returned |-> -1]]
    BY <1>5 DEF Enqueue, ATARequestQueuePush, Me
  <2>2. request.lba = lba /\ request.SizeOfBytes = size /\ request.process = Me
    OBVIOUS
  <2>3. Me' = Me /\ Polling'
    BY <1>5 DEF Me, Polling
  <2> HIDE DEF request
  <2>4. /\ call'[Me].lba = lba /\ call'[Me].reading
        /\ \A p \in Procs : p # Me => call'[p] = call[p]
    <3> HIDE DEF size
    <3> QED
      BY <1>1, <2>1
  <2>5. CASE Failed
    <3>1. Size # 0 /\ Size' > 0
      BY <1>1, <2>1, <2>5 DEF Failed
    <3>2. Failed'
      BY <2>1, <2>5, <3>1 DEF Failed
    <3> QED
      BY <1>3, <1>5, <2>3, <2>4, <2>5, <3>2 DEF Reading
  <2>6. CASE Idle
    <3>1. Size = 0 /\ Size' = 1 /\ drive = NoCommand
      BY <2>1, <2>6 DEF Idle
    <3>2. PushIndex = HeadIndex
      BY <1>1, <3>1, AtaAssumption DEF PushIndex, Indices
    <3>3. queueBody'[HeadIndex'] = request
      BY <1>1, <2>1, <3>2
    <3>4. drive' = [status |-> "busy", lba |-> lba, left |-> 1, taken |-> 0]
      <4>1. CountRegister(sectorCount(request.SizeOfBytes)) = 1
        BY <2>2, FullSectors
      <4>2. NoCommand.status = "idle"
        BY DEF NoCommand
      <4> QED
        BY <2>1, <2>2, <3>1, <4>1, <4>2 DEF ATASendRequest
    <3>5. ATARequestQueueFront' = request
      BY <3>3 DEF ATARequestQueueFront
    <3>6. drive' = HeadCommand("busy")'
      BY <2>2, <3>4, <3>5 DEF HeadCommand
    <3>7. Serving'
      BY <2>3, <2>4, <3>1, <3>5, <3>6 DEF Serving, request
    <3>8. ~Failed' /\ ~Failed
      BY <3>1, <3>4 DEF Failed
    <3> QED
      BY <1>3, <1>5, <2>3, <2>4, <3>7, <3>8 DEF Reading
  <2> QED
    BY <1>2, <2>5, <2>6
<1> QED
  BY <1>4, <1>5 DEF ATARead

\* It returns with its sector, or with the error that stays.
LEMMA PolledReadEnds ==
  ASSUME FilesTypes, PolledFiles, PolledReadReturns
  PROVE  /\ (Failed \/ Idle \/ Serving)'
         /\ Failed' <=> Failed
         /\ Me' = Me /\ cpu' = "task"
         /\ \A p \in Procs : ~Reading(p)'
         /\ call'[Me].lba = call[Me].lba
         /\ IF Failed THEN call'[Me].returned = -1
            ELSE call'[Me].returned = 512 /\ buffer'[Me] = <<call[Me].lba>>
<1>1. /\ Polling /\ Me \in Procs /\ call \in [Procs -> Calls] /\ DOMAIN buffer = Procs
      /\ drive.status \in {"drq", "err"} /\ Finish /\ cpu' = "task" /\ Me' = Me
  BY MeIsProcess
  DEF PolledReadReturns, ATAReadReturns, ATAReadWoken, ATAPollingUntilReady, FilesTypes, Types,
      DriverTypes, Polling, Me
<1>2. ASSUME NEW value, Return(value)
      PROVE  /\ \A p \in Procs : ~Reading(p)'
             /\ call'[Me].lba = call[Me].lba /\ call'[Me].returned = value
  <2>1. call' = [call EXCEPT ![Me].reading = FALSE, ![Me].returned = value]
    BY <1>2 DEF Return, Me
  <2>2. call[Me] \in Calls
    BY <1>1
  <2>3. /\ call'[Me].lba = call[Me].lba /\ call'[Me].returned = value
        /\ call'[Me].reading = FALSE
        /\ \A p \in Procs : p # Me => call'[p] = call[p]
    BY <1>1, <2>1, <2>2 DEF Calls
  <2> QED
    BY Zenon, <2>3 DEF PolledFiles, OneCaller, Reading
<1>3. CASE Failed
  <2>1. Return(-1) /\ UNCHANGED <<Size, drive>>
    BY <1>1, <1>3 DEF Finish, FinishWithError, FinishWithData, Failed
  <2>2. Failed'
    BY <1>3, <2>1 DEF Failed
  <2> QED
    BY <1>1, <1>2, <1>3, <2>1, <2>2
<1>4. CASE ~Failed
  <2> DEFINE n == 512
             lba == call[Me].lba
  <2>1. /\ Serving /\ lba \in Nat
    <3>1. Serving
      BY <1>1, <1>4 DEF PolledFiles, Idle
    <3>2. call[Me].lba \in Lbas \cup {0}
      BY <1>1 DEF Calls
    <3>3. Lbas \cup {0} \subseteq Nat
      BY AtaAssumption
    <3> QED
      BY <3>1, <3>2, <3>3
  <2> DEFINE front == ATARequestQueueFront
  <2>2. /\ Size = 1 /\ front.lba = lba /\ front.SizeOfBytes = n /\ front.process = Me
    BY <2>1 DEF Serving
  <2>3. drive = [status |-> "drq", lba |-> lba, left |-> 1, taken |-> 0]
    <3>1. drive \in {HeadCommand("busy"), HeadCommand("drq")}
      BY <2>1 DEF Serving
    <3> HIDE DEF lba
    <3> QED
      BY <1>1, <2>2, <3>1 DEF HeadCommand
  <2>4. sectorCount(front.SizeOfBytes) = 1 /\ words(front.SizeOfBytes) = WordsPerSector
    BY <2>2, FullSectors
  <2>5. FinishWithData
    BY <1>1, <2>3 DEF Finish, FinishWithError
  <2>6. Size' = 0 /\ ~MoreToSend /\ Return(front.SizeOfBytes)
    BY <2>2, <2>5 DEF FinishWithData, ATARequestQueuePop, MoreToSend
  <2> HIDE DEF lba, n, front
  <2>7. PICK k \in InTime(drive, WordsPerSector) :
          /\ buffer' = [buffer EXCEPT ![front.process] = Data(drive, 1, k)]
          /\ drive' = AfterReading(drive, WordsPerSector, k)
    BY <2>4, <2>5, <2>6 DEF FinishWithData, front
  <2>8. k = 1 /\ AfterReading(drive, WordsPerSector, k) = NoCommand
        /\ Data(drive, 1, k) = [i \in 1 .. 1 |-> lba + i - 1]
    BY <2>1, <2>3, <2>7, OneSectorIsRead
  <2>9. buffer'[Me] = <<lba>>
    <3>1. [i \in 1 .. 1 |-> lba + i - 1] = <<lba>>
      BY <2>1
    <3> QED
      BY <1>1, <2>2, <2>7, <2>8, <3>1
  <2>10. /\ \A p \in Procs : ~Reading(p)'
         /\ call'[Me].lba = call[Me].lba /\ call'[Me].returned = n
    BY <1>2, <2>2, <2>6
  <2>11. drive' = NoCommand /\ Size' = 0 /\ ~Polling'
    BY <1>1, <2>6, <2>7, <2>8 DEF Polling
  <2>12. Idle' /\ ~Failed'
    BY <2>11 DEF Idle, Failed
  <2> QED
    BY <1>1, <1>4, <2>9, <2>10, <2>12 DEF n, lba
<1> QED
  BY <1>3, <1>4

\* What is asked for and found stays so while nobody calls.
LEMMA AskersStayPolled ==
  ASSUME PolledFiles, UNCHANGED <<disk, drives, partition, probing, op>>, Me' = Me,
         call'[Me].lba = call[Me].lba, Failed' <=> Failed,
         op[Me] # NoOp /\ ~Polling' =>
           IF Failed THEN call'[Me].returned = -1
           ELSE call'[Me].returned = 512 /\ buffer'[Me] = <<call[Me].lba>>
  PROVE  CallerAsks'
<1>1. Asked(Me)' = Asked(Me)
  BY DEF Asked, Me
<1> QED
  BY Zenon, <1>1 DEF PolledFiles, CallerAsks

LEMMA BootStays ==
  ASSUME PolledFiles, UNCHANGED <<disk, drives, partition, probing>>, Failed => Failed'
  PROVE  BootFoundPartition'
<1>1. Table' = Table /\ RightPartition' = RightPartition
  BY DEF Table, SectorAt, RightPartition
<1> QED
  BY <1>1 DEF PolledFiles, BootFoundPartition, PartitionIsRight

\* Steps that do not concern the driver, the process on the processor kept.
LEMMA OthersKeepPolled ==
  ASSUME PolledFiles, UNCHANGED <<disk, drives, partition, probing, op, currentProcess, cpu>>,
         UNCHANGED <<HeadIndex, Size, queueBody, drive, call, buffer>>, FilesAreRight'
  PROVE  PolledFiles'
<1>1. Me' = Me /\ (Polling' <=> Polling)
  BY DEF Me, Polling
<1>2. ATARequestQueueFront' = ATARequestQueueFront
  BY DEF ATARequestQueueFront
<1>3. HeadCommand("busy")' = HeadCommand("busy") /\ HeadCommand("drq")' = HeadCommand("drq")
  BY <1>2 DEF HeadCommand
<1>4. (Failed' <=> Failed) /\ (Failed \/ Idle \/ Serving)'
  BY <1>1, <1>2, <1>3 DEF PolledFiles, Failed, Idle, Serving
<1>5. OneCaller'
  BY Zenon, <1>1 DEF PolledFiles, OneCaller, Reading
<1>6. CallerAsks'
  <2>1. op[Me] # NoOp /\ ~Polling' =>
           IF Failed THEN call'[Me].returned = -1
           ELSE call'[Me].returned = 512 /\ buffer'[Me] = <<call[Me].lba>>
    BY Zenon, <1>1 DEF PolledFiles, CallerAsks
  <2> QED
    BY <1>1, <1>4, <2>1, AskersStayPolled
<1> QED
  BY <1>4, <1>5, <1>6, BootStays DEF PolledFiles

\* The processor leaves a process, or takes one up, only outside of these calls.
LEMMA SwitchesOutside ==
  ASSUME FilesTypes, BootIsAlone, PolledFiles,
         (HPETHandler /\ ~InSyscall) \/ (sysExit /\ InProgram) \/ ResumeElsewhere
  PROVE  /\ \A p \in Procs : op[p] = NoOp
         /\ ~Polling /\ ~Polling'
<1>1. ~Polling /\ ~Polling'
  BY DEF HPETHandler, Acknowledge, sysExit, InProgram, ResumeElsewhere, Resume, Polling, Schedule
<1>2. \A p \in Procs : op[p] # NoOp => p = Me /\ cpu \in {"task", "ATAPollingUntilReady"}
                                  /\ op[p].call \in {"DriveInit", "EXEC directory", "EXEC file"}
  BY Zenon DEF PolledFiles, OneCaller
<1>3. ~Reading(Me) /\ Me \in Procs
  BY Zenon, <1>1, MeIsProcess DEF PolledFiles, OneCaller
<1>4. CASE HPETHandler /\ ~InSyscall
  <2>1. cpu = "task" /\ 0 \in irr
    BY <1>4 DEF HPETHandler, Acknowledge, Presented, PresentedUnder, Presentable
  <2>2. op[Me].call # "DriveInit"
    BY <1>3, <2>1 DEF BootIsAlone
  <2>3. op[Me].call \notin {"EXEC directory", "EXEC file"}
    BY Zenon, <1>3, <1>4, <2>1 DEF InSyscall, Behind
  <2> QED
    BY Zenon, <1>1, <1>2, <2>2, <2>3
<1>5. CASE sysExit /\ InProgram
  BY Zenon, <1>1, <1>2, <1>5 DEF InProgram
<1>6. CASE ResumeElsewhere
  BY <1>1, <1>2, <1>6 DEF ResumeElsewhere, Resume
<1> QED
  BY <1>4, <1>5, <1>6

LEMMA SwitchKeepsPolled ==
  ASSUME FilesTypes, PolledFiles, UNCHANGED fileVars, UNCHANGED ataVars,
         \A p \in Procs : op[p] = NoOp, ~Polling, ~Polling', currentProcess' \in Procs
  PROVE  PolledFiles'
<1>1. UNCHANGED <<disk, drives, partition, probing, op, opened, loaded, Size, drive, call>>
  BY DEF fileVars, ataVars
<1>2. (Failed \/ Idle \/ Serving)' /\ (Failed' <=> Failed)
  BY <1>1 DEF PolledFiles, Failed, Idle, Serving
<1>3. OneCaller'
  BY Zenon, <1>1 DEF PolledFiles, OneCaller, Reading
<1>4. CallerAsks'
  BY Zenon, <1>1 DEF CallerAsks, Me
<1>5. FilesAreRight'
  BY <1>1 DEF PolledFiles, FilesAreRight
<1> QED
  BY <1>1, <1>2, <1>3, <1>4, <1>5, BootStays DEF PolledFiles

LEMMA AnswerKeepsPolled ==
  ASSUME FilesTypes, PolledFiles, DriveAnswers, UNCHANGED fileVars
  PROVE  PolledFiles'
<1>1. /\ drive.status = "busy" /\ Me' = Me /\ (Polling' <=> Polling)
      /\ UNCHANGED <<HeadIndex, Size, queueBody, call, buffer, cpu>>
      /\ \/ drive' = [drive EXCEPT !.status = "drq"]
         \/ drive' = [drive EXCEPT !.status = "err"]
  BY DEF DriveAnswers, Me, Polling
<1>2. UNCHANGED <<disk, drives, partition, probing, op, opened, loaded>>
  BY DEF fileVars
<1>3. Serving /\ ~Failed
  BY <1>1 DEF PolledFiles, Failed, Idle, NoCommand
<1>4. drive = HeadCommand("busy")
  BY <1>1, <1>3 DEF Serving, HeadCommand
<1>5. ATARequestQueueFront' = ATARequestQueueFront
  BY <1>1 DEF ATARequestQueueFront
<1>6. ASSUME drive' = [drive EXCEPT !.status = "drq"]
      PROVE  Serving'
  <2>1. drive' = HeadCommand("drq")
    BY <1>4, <1>6 DEF HeadCommand
  <2>2. drive' = HeadCommand("drq")'
    BY <1>5, <2>1 DEF HeadCommand
  <2>3. Serving'
    BY <1>1, <1>2, <1>3, <1>5, <2>2 DEF Serving
  <2> QED
    BY <2>3
<1>7. ASSUME drive' = [drive EXCEPT !.status = "err"]
      PROVE  Failed'
  <2>1. drive'.status = "err"
    BY <1>4, <1>7 DEF HeadCommand
  <2> QED
    BY <1>1, <1>3, <2>1 DEF Serving, Failed
<1>8. OneCaller'
  BY Zenon, <1>1, <1>2 DEF PolledFiles, OneCaller, Reading
<1>9. CallerAsks'
  <2>1. Polling'
    BY <1>1, <1>3 DEF Serving
  <2>2. Asked(Me)' = Asked(Me)
    BY <1>1, <1>2 DEF Asked
  <2> QED
    BY Zenon, <1>1, <1>2, <1>3, <2>1, <2>2 DEF PolledFiles, CallerAsks
<1>10. FilesAreRight' /\ BootFoundPartition'
  BY <1>2, <1>3, BootStays DEF PolledFiles, FilesAreRight
<1> QED
  BY <1>1, <1>6, <1>7, <1>8, <1>9, <1>10 DEF PolledFiles

LEMMA ReturnKeepsPolled ==
  ASSUME FilesTypes, PolledFiles, PolledReadReturns, UNCHANGED fileVars
  PROVE  PolledFiles'
<1>1. /\ (Failed \/ Idle \/ Serving)'
      /\ Failed' <=> Failed
      /\ Me' = Me /\ cpu' = "task"
      /\ \A p \in Procs : ~Reading(p)'
      /\ call'[Me].lba = call[Me].lba
      /\ IF Failed THEN call'[Me].returned = -1
         ELSE call'[Me].returned = 512 /\ buffer'[Me] = <<call[Me].lba>>
  BY PolledReadEnds
<1>2. UNCHANGED <<disk, drives, partition, probing, op, opened, loaded>>
  BY DEF fileVars
<1>3. OneCaller'
  BY Zenon, <1>1, <1>2 DEF PolledFiles, OneCaller, Polling
<1>4. CallerAsks'
  BY <1>1, <1>2, AskersStayPolled
<1>5. FilesAreRight' /\ BootFoundPartition'
  BY <1>1, <1>2, BootStays DEF PolledFiles, FilesAreRight
<1> QED
  BY <1>1, <1>3, <1>4, <1>5 DEF PolledFiles

LEMMA InNoCall ==
  ASSUME NEW p
  PROVE  op[p] = NoOp => op[p].call = "none"
BY DEF NoOp

\* A call that begins with a read, or goes on with one.
LEMMA BeginKeepsPolled ==
  ASSUME FilesTypes, PolledFiles, NEW lba \in DOMAIN disk, ATARead(lba, 512, TRUE),
         NEW c \in {"DriveInit", "EXEC directory", "EXEC file"}, NEW name, NEW file,
         Begin(c, name, file),
         UNCHANGED <<disk, drives, partition, probing, opened, loaded>>,
         c = "DriveInit" => lba = IF probing = BootRecord THEN drives[0].table.startLBA ELSE 0,
         c = "EXEC directory" => lba = partition.rootDirStartLBA /\ probing = Done,
         c = "EXEC file" => /\ lba = file.start /\ file # NotFound
                            /\ Failed \/ GoodFile(disk, name, file)
  PROVE  PolledFiles'
<1>1. /\ (Failed \/ Idle \/ Serving)'
      /\ Failed' <=> Failed
      /\ Me' = Me
      /\ \A p \in Procs : Reading(p)' <=> Polling' /\ p = Me
      /\ call'[Me].lba = lba
      /\ cpu' \in {"task", "ATAPollingUntilReady"}
      /\ ~Polling' => Failed' /\ call'[Me].returned = -1
  BY Zenon, PolledReadBegins
<1>2. Me \in Procs /\ op \in [Procs -> [call : Called, name : AnyName, file : FilesOnDisk]]
  BY Zenon, MeIsProcess DEF FilesTypes, FileTypes
<1> DEFINE o == [call |-> c, name |-> name, file |-> file]
<1>3. op' = [op EXCEPT ![Me] = o] /\ o.call = c /\ o.name = name /\ o.file = file
  BY Zenon DEF Begin
<1> HIDE DEF o
<1>4. /\ op'[Me].call = c /\ op'[Me].name = name /\ op'[Me].file = file
      /\ \A p \in Procs : p # Me => op'[p] = op[p]
  BY Zenon, <1>2, <1>3
<1>5. \A p \in Procs : p # Me => op'[p] = NoOp
  BY Zenon, <1>4 DEF PolledFiles, OneCaller
<1>6. OneCaller'
  <2>1. \A p \in Procs : Reading(p)' <=> Polling' /\ p = Me'
    BY Zenon, <1>1
  <2>2. c = "EXEC directory" => probing' = Done
    BY Zenon
  <2>3. \A p \in Procs : op'[p] # NoOp => p = Me
    BY Zenon, <1>5
  <2> QED
    BY Zenon, <1>1, <1>4, <2>1, <2>2, <2>3 DEF OneCaller
<1>7. Asked(Me)' = lba
  <2>1. CASE c = "DriveInit"
    BY <1>1, <1>4, <2>1 DEF Asked
  <2>2. CASE c = "EXEC directory"
    BY Zenon, <1>1, <1>4, <2>2 DEF Asked
  <2>3. CASE c = "EXEC file"
    BY Zenon, <1>1, <1>4, <2>3 DEF Asked
  <2> QED
    BY Zenon, <2>1, <2>2, <2>3
<1>8. CallerAsks'
  <2>1. c = "EXEC file" => file # NotFound /\ (Failed' \/ GoodFile(disk', name, file))
    BY Zenon, <1>1
  <2> QED
    BY Zenon, <1>1, <1>4, <1>7, <2>1 DEF CallerAsks
<1>9. FilesAreRight' /\ BootFoundPartition'
  BY Zenon, <1>1, BootStays DEF PolledFiles, FilesAreRight
<1> QED
  BY Zenon, <1>1, <1>6, <1>8, <1>9 DEF PolledFiles

LEMMA EndKeepsPolled ==
  ASSUME FilesTypes, PolledFiles, op[Me] # NoOp, End, UNCHANGED vars,
         FilesAreRight', BootFoundPartition'
  PROVE  PolledFiles'
<1>1. Me \in Procs /\ op \in [Procs -> [call : Called, name : AnyName, file : FilesOnDisk]]
  BY MeIsProcess DEF FilesTypes, FileTypes
<1>2. UNCHANGED <<currentProcess, cpu, HeadIndex, Size, queueBody, drive, call, buffer>> /\ Me' = Me
  BY DEF vars, schedVars, ataVars, Me
<1>3. \A p \in Procs : op'[p] = NoOp
  BY Zenon, <1>1 DEF End, PolledFiles, OneCaller
<1>4. ATARequestQueueFront' = ATARequestQueueFront
  BY <1>2 DEF ATARequestQueueFront
<1>5. HeadCommand("busy")' = HeadCommand("busy") /\ HeadCommand("drq")' = HeadCommand("drq")
  BY <1>4 DEF HeadCommand
<1>6. (Failed \/ Idle \/ Serving)'
  BY <1>2, <1>4, <1>5 DEF PolledFiles, Failed, Idle, Serving, Polling
<1>7. OneCaller'
  BY Zenon, <1>2, <1>3 DEF PolledFiles, OneCaller, Reading, Polling
<1>8. CallerAsks'
  BY Zenon, <1>1, <1>2, <1>3 DEF CallerAsks
<1> QED
  BY <1>6, <1>7, <1>8 DEF PolledFiles

\* Without an error the buffer holds the sector that was asked for.
LEMMA GotIs ==
  ASSUME PolledFiles, op[Me] # NoOp, cpu = "task", ~Failed
  PROVE  call[Me].returned = 512 /\ Got = {SectorAt(Asked(Me))}
<1>1. call[Me].returned = 512 /\ buffer[Me] = <<Asked(Me)>>
  BY Zenon DEF PolledFiles, CallerAsks, Polling
<1>2. 512 # -1 /\ <<Asked(Me)>> # <<>> /\ <<Asked(Me)>>[1] = Asked(Me)
  OBVIOUS
<1> HIDE DEF Asked
<1>3. Got = {SectorAt(Asked(Me))}
  BY <1>1, <1>2 DEF Got, InBuffer
<1> QED
  BY <1>1, <1>3

LEMMA DriveInitKeepsPolled ==
  ASSUME FilesTypes, PolledFiles, DriveInit
  PROVE  PolledFiles'
<1> DEFINE lba == IF probing = BootRecord THEN drives[0].table.startLBA ELSE 0
<1>1. lba \in DOMAIN disk
  BY ReadsAreAllowed
<1>2. ATARead(lba, 512, TRUE) /\ Begin("DriveInit", <<>>, NotFound)
      /\ UNCHANGED <<disk, drives, partition, probing, opened, loaded>>
  BY DEF DriveInit
<1>3. \A x \in DOMAIN disk : x = lba => ATARead(x, 512, TRUE)
  BY <1>2
<1>4. PICK x \in DOMAIN disk : x = lba
  BY <1>1
<1>5. ATARead(x, 512, TRUE)
  BY <1>3, <1>4
<1> QED
  BY Zenon, <1>2, <1>4, <1>5, BeginKeepsPolled

LEMMA GoesOnKeepsPolled ==
  ASSUME FilesTypes, BootIsAlone, PolledFiles, DriveInitGoesOn
  PROVE  PolledFiles'
<1>1. /\ cpu = "task" /\ op[Me].call = "DriveInit" /\ End /\ UNCHANGED <<vars, disk, opened, loaded>>
  BY DEF DriveInitGoesOn, Behind
<1>2. op[Me] # NoOp
  BY <1>1, InNoCall
<1>3. probing # Done /\ probing \in 0 .. 4
  <2>1. probing # Done
    BY <1>1, MeIsProcess DEF BootIsAlone
  <2> QED
    BY <2>1 DEF FilesTypes, FileTypes, Done
<1>4. Failed' <=> Failed
  BY <1>1 DEF Failed, vars, ataVars
<1>5. FilesAreRight'
  BY <1>1 DEF PolledFiles, FilesAreRight
<1>6. Table' = Table /\ RightPartition' = RightPartition
  BY <1>1 DEF Table, SectorAt, RightPartition
<1>7. BootFoundPartition'
  <2> SUFFICES ASSUME ~Failed
               PROVE  BootFoundPartition'
    BY <1>4 DEF BootFoundPartition
  <2> DEFINE s == SectorAt(Asked(Me))
  <2>1. Got = {s}
    BY <1>1, <1>2, GotIs
  <2>2. IF probing = BootRecord
        THEN /\ partition' = ParseBootRecord(s, drives[0].table.startLBA)
             /\ probing' = Done
             /\ UNCHANGED drives
        ELSE /\ drives' = [drives EXCEPT ![probing].table = PartitionTable(s)]
             /\ probing' = NextDrive(probing + 1)
             /\ UNCHANGED partition
    BY <2>1 DEF DriveInitGoesOn
  <2>3. CASE probing = BootRecord
    <3>1. drives[0].table = Table
      BY <2>3 DEF PolledFiles, BootFoundPartition, BootRecord, Done
    <3>2. Asked(Me) = Table.startLBA
      BY <1>1, <2>3, <3>1 DEF Asked
    <3>3. partition' = RightPartition
      BY <2>2, <2>3, <3>1, <3>2 DEF RightPartition
    <3>4. probing' = Done
      BY <2>2, <2>3
    <3> QED
      BY <1>6, <3>3, <3>4 DEF BootFoundPartition, PartitionIsRight
  <2>4. CASE probing # BootRecord
    <3> DEFINE t == PartitionTable(s)
    <3>1. Asked(Me) = 0
      BY <1>1, <2>4 DEF Asked
    <3>2. t = Table
      BY <3>1 DEF Table
    <3>3. probing \in 0 .. 3
      BY <1>3, <2>4 DEF BootRecord
    <3>4. probing' \in 1 .. 4
      <4>1. probing + 1 \in 1 .. BootRecord
        BY <3>3 DEF BootRecord
      <4>2. probing' \in probing + 1 .. BootRecord
        BY <2>2, <2>4, <4>1, NextDriveIs
      <4> QED
        BY <3>3, <4>2 DEF BootRecord
    <3>5. drives'[0].table = Table
      <4>1. drives' = [drives EXCEPT ![probing].table = t]
        BY <2>2, <2>4
      <4>2. DOMAIN drives = 0 .. 3 /\ 0 \in 0 .. 3
        BY DEF FilesTypes, FileTypes, OfVolume
      <4>3. drives[0] \in [isValid : BOOLEAN, table : {drives[0].table}]
        <5>1. PICK v \in Volumes : OfVolume(v)
          BY DEF FilesTypes, FileTypes
        <5> QED
          BY <4>2, <5>1 DEF OfVolume
      <4>4. CASE probing = 0
        <5>1. drives'[0] = [drives[0] EXCEPT !.table = t]
          BY <4>1, <4>2, <4>4
        <5> HIDE DEF t
        <5> QED
          BY <3>2, <4>3, <5>1
      <4>5. CASE probing # 0
        <5>1. drives'[0] = drives[0]
          BY <4>1, <4>2, <4>5
        <5>2. drives[0].table = Table
          BY <1>3, <4>5 DEF PolledFiles, BootFoundPartition
        <5> QED
          BY <5>1, <5>2
      <4> QED
        BY <4>4, <4>5
    <3>6. probing' # Done
      BY <3>4 DEF Done
    <3> QED
      BY <1>6, <3>5, <3>6 DEF BootFoundPartition, PartitionIsRight
  <2> QED
    BY <2>3, <2>4
<1> QED
  BY <1>1, <1>2, <1>5, <1>7, EndKeepsPolled

LEMMA EXECKeepsPolled ==
  ASSUME FilesTypes, PolledFiles, NEW name \in Names, EXEC(name)
  PROVE  PolledFiles'
<1>1. PICK x \in DOMAIN disk : x = partition.rootDirStartLBA
  BY ReadsAreAllowed
<1>2. /\ ATARead(x, 512, TRUE) /\ Begin("EXEC directory", name, NotFound) /\ probing = Done
      /\ UNCHANGED <<disk, drives, partition, probing, opened, loaded>>
  BY Zenon, <1>1 DEF EXEC, InProgram
<1> QED
  BY Zenon, <1>1, <1>2, BeginKeepsPolled

LEMMA FindKeepsPolled ==
  ASSUME FilesTypes, PolledFiles, ExecFindsFile
  PROVE  PolledFiles'
<1>1. /\ cpu = "task" /\ op[Me].call = "EXEC directory" /\ Me \in Procs
      /\ UNCHANGED <<disk, drives, partition, probing, opened, loaded>>
  BY Zenon, MeIsProcess DEF ExecFindsFile, Behind
<1>2. op[Me] # NoOp
  BY Zenon, <1>1, InNoCall
<1>3. PICK s \in Got :
        \/ /\ Found(GetFileInfo(s, op[Me].name))
           /\ ATARead(GetFileInfo(s, op[Me].name).start, GetFileInfo(s, op[Me].name).size, TRUE)
           /\ Begin("EXEC file", op[Me].name, GetFileInfo(s, op[Me].name))
        \/ UNCHANGED vars /\ End
  BY Zenon DEF ExecFindsFile
<1>4. s \in OnDisk
  BY InBufferOnDisk DEF Got
<1>5. GetFileInfo(s, op[Me].name) \in FilesOnDisk
  BY <1>4, FoundOnDisk
<1>6. Failed \/ GoodFile(disk, op[Me].name, GetFileInfo(s, op[Me].name))
  <2> SUFFICES ASSUME ~Failed
               PROVE  GoodFile(disk, op[Me].name, GetFileInfo(s, op[Me].name))
    OBVIOUS
  <2>1. s = SectorAt(partition.rootDirStartLBA)
    <3>1. s = SectorAt(Asked(Me))
      <4>1. Got = {SectorAt(Asked(Me))}
        BY Zenon, <1>1, <1>2, GotIs
      <4> HIDE DEF Got
      <4> QED
        BY <4>1
    <3>2. Asked(Me) = partition.rootDirStartLBA
      BY Zenon, <1>1 DEF Asked
    <3> QED
      BY <3>1, <3>2
  <2>2. probing = Done
    BY Zenon, <1>1, <1>2 DEF PolledFiles, OneCaller
  <2>3. partition = RightPartition
    BY <2>2 DEF PolledFiles, BootFoundPartition, PartitionIsRight
  <2>4. PICK v \in Volumes : disk = DiskOf(v)
    BY DEF FilesTypes, FileTypes, OfVolume
  <2>5. FileIsRight(op[Me].name, GetFileInfo(s, op[Me].name))
    BY <2>1, <2>3, <2>4, SearchRightSector
  <2> QED
    BY <2>5, GoodFileIsRight
<1> DEFINE f == GetFileInfo(s, op[Me].name)
<1>7. CASE UNCHANGED vars /\ End
  <2>1. Failed' <=> Failed
    BY <1>7 DEF Failed, vars, ataVars
  <2>2. FilesAreRight' /\ BootFoundPartition'
    BY Zenon, <1>1, <2>1, BootStays DEF PolledFiles, FilesAreRight
  <2> QED
    BY <1>2, <1>7, <2>2, EndKeepsPolled
<1>8. CASE Found(f) /\ ATARead(f.start, f.size, TRUE) /\ Begin("EXEC file", op[Me].name, f)
  <2>1. f # NotFound
    BY Zenon, <1>8 DEF Found
  <2>2. f.start \in DOMAIN disk /\ f.size = 512
    BY <1>5, <2>1, ReadsAreAllowed
  <2>3. Failed \/ GoodFile(disk, op[Me].name, f)
    BY <1>6
  <2> HIDE DEF f
  <2>4. PICK x \in DOMAIN disk : x = f.start
    BY <2>2
  <2>5. ATARead(x, 512, TRUE)
    BY Zenon, <1>8, <2>2, <2>4
  <2> QED
    BY Zenon, <1>1, <1>8, <2>1, <2>3, <2>4, <2>5, BeginKeepsPolled
<1> QED
  BY Zenon, <1>3, <1>7, <1>8

LEMMA ExecLoadsKeepsPolled ==
  ASSUME FilesTypes, PolledFiles, ExecLoads
  PROVE  PolledFiles'
<1>1. /\ cpu = "task" /\ op[Me].call = "EXEC file" /\ Me \in Procs /\ End
      /\ UNCHANGED <<vars, disk, drives, partition, probing, opened>>
  BY Zenon, MeIsProcess DEF ExecLoads, Behind
<1>2. op[Me] # NoOp /\ ~Polling
  BY Zenon, <1>1, InNoCall DEF Polling
<1>3. /\ op[Me].file # NotFound /\ (Failed \/ GoodFile(disk, op[Me].name, op[Me].file))
      /\ Failed => call[Me].returned = -1
  BY Zenon, <1>1, <1>2 DEF PolledFiles, CallerAsks
<1>4. op[Me].file.size = 512
  <2>1. op[Me].file \in FilesOnDisk
    BY Zenon, <1>1 DEF FilesTypes, FileTypes
  <2> QED
    BY <1>3, <2>1, ReadsAreAllowed
<1>5. (Failed' <=> Failed) /\ BootFoundPartition'
  <2>1. Failed' <=> Failed
    BY Zenon, <1>1 DEF Failed, vars, ataVars
  <2> QED
    BY Zenon, <1>1, <2>1, BootStays
<1>6. FilesAreRight'
  <2>1. CASE UNCHANGED loaded
    BY Zenon, <1>1, <2>1 DEF PolledFiles, FilesAreRight
  <2>2. CASE loaded' # loaded
    <3>1. call[Me].returned = op[Me].file.size /\ \E s \in Got : Load(op[Me].name, s)
      BY Zenon, <2>2 DEF ExecLoads, Complete
    <3>2. ~Failed
      BY <1>3, <1>4, <3>1
    <3>3. Got = {SectorAt(op[Me].file.start)}
      <4>1. Asked(Me) = op[Me].file.start
        BY Zenon, <1>1 DEF Asked
      <4> QED
        BY Zenon, <1>1, <1>2, <3>2, <4>1, GotIs
    <3>4. Load(op[Me].name, SectorAt(op[Me].file.start))
      BY <3>1, <3>3
    <3>5. GoodLoad(disk, [name |-> op[Me].name, sector |-> SectorAt(op[Me].file.start)])
      BY <1>3, <3>2, GoodFileIsLoaded
    <3> QED
      BY Zenon, <1>1, <3>4, <3>5, LoadsGoodFile DEF PolledFiles
  <2> QED
    BY <2>1, <2>2
<1> QED
  BY Zenon, <1>1, <1>2, <1>5, <1>6, EndKeepsPolled

LEMMA PollersNeverSleep ==
  ASSUME PollModes \subseteq {TRUE}, PolledFiles, FilesTypes
  PROVE  ~READ /\ ~OPENReturns /\ ~READReturns /\ \A name \in Names : ~OPEN(name)
<1>1. \A lba, size : ~ATARead(lba, size, FALSE)
  <2>1. FALSE \notin PollModes
    OBVIOUS
  <2>2. \A lba, size : ATARead(lba, size, FALSE) => FALSE \in PollModes
    BY DEF ATARead
  <2> QED
    BY <2>1, <2>2
<1>2. op[Me].call \notin {"OPEN", "READ"}
  <2>1. Me \in Procs
    BY MeIsProcess
  <2>2. op[Me] # NoOp => op[Me].call \in {"DriveInit", "EXEC directory", "EXEC file"}
    BY Zenon, <2>1 DEF PolledFiles, OneCaller
  <2> QED
    BY Zenon, <2>2, InNoCall
<1> QED
  BY <1>1, <1>2 DEF READ, OPENReturns, READReturns, OPEN

LEMMA StepKeepsPolled ==
  ASSUME PollModes \subseteq {TRUE}, FilesTypes, FilesTypes', BootIsAlone, PolledFiles,
         [FilesNext]_filesVars
  PROVE  PolledFiles'
<1>1. ASSUME Quiet, UNCHANGED <<currentProcess, cpu>>
      PROVE  PolledFiles'
  BY <1>1, OthersKeepPolled DEF Quiet, fileVars, ataVars, PolledFiles, FilesAreRight
<1>2. CASE (Tick \/ KeyPress \/ doKBCInterrupt \/ SchedulerStart) /\ Quiet
  BY <1>1, <1>2 DEF Tick, KeyPress, doKBCInterrupt, SchedulerStart
<1>3. CASE ((HPETHandler /\ ~InSyscall) \/ (sysExit /\ InProgram) \/ ResumeElsewhere) /\ Quiet
  <2>1. currentProcess' \in Procs
    BY DEF FilesTypes, Types, SchedulerTypes
  <2> QED
    BY <1>3, <2>1, SwitchesOutside, SwitchKeepsPolled DEF Quiet
<1>4. CASE DriveAnswers /\ UNCHANGED fileVars
  BY <1>4, AnswerKeepsPolled
<1>5. CASE PolledReadReturns /\ UNCHANGED fileVars
  BY <1>5, ReturnKeepsPolled
<1>6. CASE ATAHandler /\ UNCHANGED fileVars
  BY <1>1, <1>6 DEF ATAHandler, Quiet
<1>7. CASE KeyWhileDriveInitPolls
  BY <1>1, <1>7 DEF KeyWhileDriveInitPolls, Quiet
<1>8. ASSUME NEW child \in Procs, Fork(child)
      PROVE  PolledFiles'
  <2>1. UNCHANGED <<disk, drives, partition, probing, op, currentProcess, cpu>> /\ UNCHANGED ataVars
    BY <1>8 DEF Fork, sysFork, KernelThread
  <2>2. FilesAreRight'
    BY <1>8, ChildGetsGoodFiles DEF PolledFiles
  <2> QED
    BY <2>1, <2>2, OthersKeepPolled DEF ataVars
<1>9. CASE UNCHANGED filesVars
  BY <1>1, <1>9 DEF filesVars, vars, schedVars, Quiet
<1>10. CASE DriveInit
  BY <1>10, DriveInitKeepsPolled
<1>11. CASE DriveInitGoesOn
  BY <1>11, GoesOnKeepsPolled
<1>12. ASSUME NEW name \in Names, EXEC(name)
       PROVE  PolledFiles'
  BY <1>12, EXECKeepsPolled
<1>13. CASE ExecFindsFile
  BY <1>13, FindKeepsPolled
<1>14. CASE ExecLoads
  BY <1>14, ExecLoadsKeepsPolled
<1> QED
  BY <1>2, <1>3, <1>4, <1>5, <1>6, <1>7, <1>8, <1>9, <1>10, <1>11, <1>12, <1>13, <1>14,
     PollersNeverSleep
  DEF FilesNext

LEMMA InitPolled == FilesInit => PolledFiles
<1> SUFFICES ASSUME FilesInit
             PROVE  PolledFiles
  OBVIOUS
<1>1. \A p \in Procs : op[p] = NoOp /\ ~Reading(p)
  BY DEF FilesInit, AtaInit, Reading, NoCall
<1>2. Idle
  BY DEF FilesInit, AtaInit, Init, Idle, Polling
<1>3. OneCaller
  BY Zenon, <1>1, <1>2 DEF OneCaller, Idle
<1>4. CallerAsks
  <2>1. Me \in Procs
    BY ProcsAssumption DEF FilesInit, AtaInit, Init, Me
  <2> QED
    BY Zenon, <1>1, <2>1 DEF CallerAsks
<1>5. BootFoundPartition
  <2>1. probing \in {0, Done}
    BY DEF FilesInit
  <2> QED
    BY <2>1, InitPartition DEF BootFoundPartition
<1>6. FilesAreRight
  BY InitSleeping DEF SleepingFiles
<1> QED
  BY <1>2, <1>3, <1>4, <1>5, <1>6 DEF PolledFiles

\* What EXEC executes is the contents of a file its name means, on any disk, one
\* without a partition included, and whatever errors the drive reports, at boot
\* or between the reads of an EXEC, though DriveInit, ParseBootRecord and
\* GetFileInfo ignore what their reads return: after an error no read succeeds
\* any more, and EXEC looks at the result of its last one.
THEOREM PollersLoadTheNamedFile ==
  PollModes \subseteq {TRUE} => (FilesSpec => []LoadsTheNamedFile)
<1> SUFFICES ASSUME PollModes \subseteq {TRUE}
             PROVE  FilesSpec => []LoadsTheNamedFile
  OBVIOUS
<1>1. FilesTypes /\ FilesTypes' /\ BootIsAlone /\ PolledFiles /\ [FilesNext]_filesVars => PolledFiles'
  BY StepKeepsPolled
<1>2. PolledFiles => LoadsTheNamedFile
  BY FilesAreRightLoads DEF PolledFiles
<1> QED
  BY <1>1, <1>2, InitPolled, FilesTypesInvariant, PTL DEF FilesSpec
=============================================================================
