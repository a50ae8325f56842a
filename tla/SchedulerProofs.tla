--------------------------- MODULE SchedulerProofs ---------------------------
(***************************************************************************)
(* The safety invariants of Scheduler, for every set of processes and      *)
(* every choice of the busy ones, and that it implements Tasks.            *)
(***************************************************************************)
EXTENDS SchedulerRefinement, ArithmeticProofs

(***************************************************************************)
(* The inductive invariant.  NoLineLeftInService speaks of a process in its*)
(* own code only.  The step before is a resumed handler: it owes the end of*)
(* interrupt of the timer, and must owe no other one.                      *)
(***************************************************************************)
OnlyTimerInService == cpu = "resumed" => isr \subseteq {0}

IInv ==
  /\ TypeOK
  /\ RunsOnlyRunning
  /\ ParkedWhereItStopped
  /\ NoLineLeftInService
  /\ OnlyTimerInService
  /\ RingHoldsEachOnce

\* The interrupt lines of the timer, the keyboard and a system call.
LEMMA LinesOfHandlers ==
  /\ LinesOf(HPET_INTERRUPT_NUM) = {0}
  /\ LinesOf(KBC_INTERRUPT_NUM) = {1}
  /\ LinesOf(SYSCALL_INTERRUPT_NUM) = {}
BY DEF LinesOf, OnMaster, OnSlave, Line, HPET_INTERRUPT_NUM, KBC_INTERRUPT_NUM,
       SYSCALL_INTERRUPT_NUM, PIC_MASTER_INTERRUPT_NUM, PIC_SLAVE_INTERRUPT_NUM

\* Where a process stands in a list that holds it.
LEMMA PositionType ==
  ASSUME NEW s, NEW p, \E i \in DOMAIN s : s[i] = p
  PROVE  Position(s, p) \in DOMAIN s /\ s[Position(s, p)] = p
BY DEF Position

\* ListAdd yields a list of processes again.
LEMMA ListAddType ==
  ASSUME NEW s \in Seq(Procs), NEW added \in Procs, NEW prev \in Procs,
         \E i \in DOMAIN s : s[i] = prev
  PROVE  /\ ListAdd(s, added, prev) \in Seq(Procs)
         /\ Len(ListAdd(s, added, prev)) = Len(s) + 1
<1> DEFINE i == Position(s, prev)
<1>1. i \in 1 .. Len(s)
  BY DEF Position
<1>2. \A k \in 1 .. Len(s) + 1 : ListAdd(s, added, prev)[k] \in Procs
  BY <1>1 DEF ListAdd
<1>3. Len(s) + 1 \in Nat
  OBVIOUS
<1>4. ListAdd(s, added, prev) \in [1 .. Len(s) + 1 -> Procs]
  BY <1>2 DEF ListAdd
<1> QED
  BY <1>3, <1>4

\* Who Schedule may choose is RUNNING, and a process of the ring.
LEMMA NextIsRunning ==
  ASSUME NEW s, NEW st, NEW p, NEW q \in FindNextTask(s, st, p)
  PROVE  /\ q \in Procs
         /\ st[q] = "RUNNING"
         /\ \E i \in DOMAIN s : s[i] = q
BY DEF FindNextTask

\* ListAdd behind a process of a list that holds each of its processes once,
\* and not the added one, yields such a list of them and the added one.
LEMMA ListAddHolds ==
  ASSUME NEW s \in Seq(Procs), NEW added \in Procs, NEW prev \in Procs,
         \E i \in DOMAIN s : s[i] = prev,
         \A i \in DOMAIN s : s[i] # added,
         \A i, j \in DOMAIN s : s[i] = s[j] => i = j
  PROVE  LET t == ListAdd(s, added, prev)
         IN  /\ \A i, j \in DOMAIN t : t[i] = t[j] => i = j
             /\ \A i \in DOMAIN t : t[i] = added \/ \E j \in DOMAIN s : s[j] = t[i]
             /\ \A j \in DOMAIN s : \E i \in DOMAIN t : t[i] = s[j]
             /\ \E i \in DOMAIN t : t[i] = added
<1> DEFINE k == Position(s, prev)
           t == ListAdd(s, added, prev)
<1>1. k \in 1 .. Len(s)
  BY PositionType
<1>2. DOMAIN t = 1 .. Len(s) + 1
  BY DEF ListAdd
<1>3. /\ \A i \in 1 .. k : t[i] = s[i]
      /\ t[k + 1] = added
      /\ \A i \in k + 2 .. Len(s) + 1 : t[i] = s[i - 1]
  BY <1>1 DEF ListAdd
<1> HIDE DEF k, t
<1>4. \A i \in DOMAIN t : t[i] = added \/ \E j \in DOMAIN s : s[j] = t[i]
  <2> SUFFICES ASSUME NEW i \in DOMAIN t
               PROVE  t[i] = added \/ \E j \in DOMAIN s : s[j] = t[i]
    OBVIOUS
  <2>1. CASE i <= k
    BY <1>1, <1>2, <1>3, <2>1
  <2>2. CASE i = k + 1
    BY <1>3, <2>2
  <2>3. CASE i > k + 1
    <3>1. i - 1 \in DOMAIN s /\ t[i] = s[i - 1]
      BY <1>1, <1>2, <1>3, <2>3
    <3> QED
      BY <3>1
  <2> QED
    BY <1>1, <1>2, <2>1, <2>2, <2>3
<1>5. \A i, j \in DOMAIN t : t[i] = t[j] => i = j
  BY <1>1, <1>2, <1>3
<1>6. \A j \in DOMAIN s : \E i \in DOMAIN t : t[i] = s[j]
  <2> SUFFICES ASSUME NEW j \in DOMAIN s PROVE \E i \in DOMAIN t : t[i] = s[j]
    OBVIOUS
  <2>1. CASE j <= k
    BY <1>1, <1>2, <1>3, <2>1
  <2>2. CASE j > k
    <3>1. j + 1 \in DOMAIN t /\ t[j + 1] = s[j]
      BY <1>1, <1>2, <1>3, <2>2
    <3> QED
      BY <3>1
  <2> QED
    BY <1>1, <2>1, <2>2
<1>7. \E i \in DOMAIN t : t[i] = added
  BY <1>1, <1>2, <1>3
<1> QED
  BY <1>4, <1>5, <1>6, <1>7 DEF t

\* A switch from one of its processes keeps the invariant: st differs from
\* pstate at most in the current process, which is left where st says.
LEMMA ScheduleKeeps ==
  ASSUME IInv, NEW st, NEW point, Schedule(st, point),
         irr' \subseteq Lines, isr' \subseteq {0},
         \/ st = pstate /\ point = "HPETHandler"
         \/ st = [pstate EXCEPT ![currentProcess] = "SLEEP"] /\ point = "sleep"
         \/ st = [pstate EXCEPT ![currentProcess] = "ZOMBIE"] /\ point = "sysExit",
         cpu = "task"
  PROVE  IInv'
<1> USE DEF IInv
<1>1. st \in [Procs -> States] /\ point \in Points
  BY DEF TypeOK, States, Points, Resumable
<1>2. TypeOK'
  <2>1. currentProcess' \in Procs /\ cpu' \in CpuModes
    BY NextIsRunning DEF TypeOK, CpuModes, Schedule
  <2>2. irr' \subseteq Lines /\ isr' \subseteq Lines
    BY DEF Lines
  <2> QED
    BY <1>1, <2>1, <2>2 DEF TypeOK, PicTypeOK, Schedule
<1>3. RunsOnlyRunning'
  BY NextIsRunning DEF RunsOnlyRunning, Schedule
<1>4. ParkedWhereItStopped'
  <2>1. pstate[currentProcess] = "RUNNING"
    BY DEF RunsOnlyRunning
  <2>2. cpu' # "task"
    BY DEF Schedule
  <2> QED
    BY <1>1, <2>1, <2>2 DEF ParkedWhereItStopped, Schedule, TypeOK, Resumable
<1>5. NoLineLeftInService' /\ OnlyTimerInService'
  BY DEF NoLineLeftInService, OnlyTimerInService, Schedule
<1>6. RingHoldsEachOnce'
  <2>1. Allocated' = Allocated
    BY DEF Allocated, Schedule, RunsOnlyRunning, TypeOK
  <2> QED
    BY <2>1 DEF RingHoldsEachOnce, Schedule
<1> QED
  BY <1>2, <1>3, <1>4, <1>5, <1>6

\* A fork keeps the parts of the invariant that speak of processes.
LEMMA DoForkKeeps ==
  ASSUME IInv, NEW child \in Procs, DoFork(child), cpu = "task",
         UNCHANGED <<currentProcess, cpu, hpetEnabled, irr, isr>>
  PROVE  IInv'
<1> USE DEF IInv
<1>1. /\ pstate[currentProcess] = "RUNNING"
      /\ currentProcess # child
      /\ currentProcess \in Allocated
  BY DEF RunsOnlyRunning, DoFork, CopyProcess, TypeOK, Allocated
<1>2. \E i \in DOMAIN processList : processList[i] = currentProcess
  BY <1>1 DEF RingHoldsEachOnce
<1>3. \A i \in DOMAIN processList : processList[i] # child
  BY DEF RingHoldsEachOnce, Allocated, DoFork, CopyProcess
<1>4. Allocated' = Allocated \cup {child}
  BY <1>1 DEF Allocated, DoFork, CopyProcess, TypeOK
<1>5. TypeOK'
  <2>1. processList' \in Seq(Procs)
    BY <1>2, ListAddType DEF TypeOK, DoFork, CopyProcess
  <2>2. pid' \in [Procs -> Nat]
    BY DEF TypeOK, DoFork, CopyProcess, NewProcessId
  <2> QED
    BY <1>1, <2>1, <2>2 DEF TypeOK, PicTypeOK, DoFork, CopyProcess, States, Points, Resumable
<1>6. RunsOnlyRunning'
  BY <1>1 DEF RunsOnlyRunning, DoFork, CopyProcess, TypeOK
<1>7. ParkedWhereItStopped'
  BY <1>1 DEF ParkedWhereItStopped, DoFork, CopyProcess, TypeOK, Resumable
<1>8. NoLineLeftInService' /\ OnlyTimerInService'
  BY DEF NoLineLeftInService, OnlyTimerInService
<1>9. RingHoldsEachOnce'
  <2>1. \A i, j \in DOMAIN processList : processList[i] = processList[j] => i = j
    BY DEF RingHoldsEachOnce
  <2>2. processList \in Seq(Procs) /\ currentProcess \in Procs
    BY DEF TypeOK
  <2>3. /\ \A i, j \in DOMAIN processList' :
             processList'[i] = processList'[j] => i = j
        /\ \A i \in DOMAIN processList' :
             \/ processList'[i] = child
             \/ \E j \in DOMAIN processList : processList[j] = processList'[i]
        /\ \A j \in DOMAIN processList :
             \E i \in DOMAIN processList' : processList'[i] = processList[j]
        /\ \E i \in DOMAIN processList' : processList'[i] = child
    BY <1>2, <1>3, <2>1, <2>2, ListAddHolds DEF DoFork, CopyProcess
  <2> QED
    BY <1>4, <2>3 DEF RingHoldsEachOnce
<1> QED
  BY <1>5, <1>6, <1>7, <1>8, <1>9

LEMMA InitIInv == Init => IInv
<1> SUFFICES ASSUME Init PROVE IInv
  OBVIOUS
<1>1. TypeOK
  <2>1. processList \in Seq(Procs)
    BY ProcsAssumption DEF Init
  <2>2. pstate \in [Procs -> States] /\ resume \in [Procs -> Points]
    BY DEF Init, States, Points
  <2>3. pid \in [Procs -> Nat] /\ parent \in [Procs -> Procs \cup {0}]
    BY DEF Init
  <2> QED
    BY <2>1, <2>2, <2>3, ProcsAssumption DEF Init, TypeOK, PicTypeOK, CpuModes
<1>2. RunsOnlyRunning /\ NoLineLeftInService /\ OnlyTimerInService
  BY ProcsAssumption
  DEF Init, RunsOnlyRunning, NoLineLeftInService, OnlyTimerInService
<1>3. ParkedWhereItStopped
  BY DEF Init, ParkedWhereItStopped
<1>4. RingHoldsEachOnce
  BY ProcsAssumption DEF Init, RingHoldsEachOnce, Allocated
<1> QED
  BY <1>1, <1>2, <1>3, <1>4 DEF IInv

LEMMA NextIInv == IInv /\ [Next]_schedVars => IInv'
<1> SUFFICES ASSUME IInv, [Next]_schedVars PROVE IInv'
  OBVIOUS
<1>1. \* A step that leaves the processes alone and, in a process's own code,
      \* no line in service.
      ASSUME UNCHANGED <<processList, pstate, currentProcess, resume, cpu>>,
             TypeOK', NoLineLeftInService', OnlyTimerInService'
      PROVE  IInv'
  BY <1>1 DEF IInv, RunsOnlyRunning, ParkedWhereItStopped, RingHoldsEachOnce, Allocated
<1>2. CASE Tick
  BY <1>1, <1>2 DEF IInv, Tick, TypeOK, PicTypeOK, NoLineLeftInService,
                    OnlyTimerInService, Lines
<1>3. CASE KeyPress
  BY <1>1, <1>3 DEF IInv, KeyPress, TypeOK, PicTypeOK, NoLineLeftInService,
                    OnlyTimerInService, Lines
<1>4. CASE HPETHandler
  <2>1. isr' \subseteq {0} /\ irr' \subseteq Lines /\ cpu = "task"
    BY <1>4 DEF IInv, HPETHandler, Acknowledge, InServiceWith, MasterLine,
                NoLineLeftInService, TypeOK, PicTypeOK
  <2> QED
    BY <1>4, <2>1, ScheduleKeeps DEF HPETHandler
<1>5. CASE doKBCInterrupt
  <2>1. isr = {} /\ cpu = "task"
    BY <1>5 DEF IInv, doKBCInterrupt, Acknowledge, NoLineLeftInService
  <2>2. isr' = {}
    BY <1>5, <2>1, LinesOfHandlers
    DEF doKBCInterrupt, InServiceWith, MasterLine, SendEndOfInterrupt
  <2> QED
    BY <1>1, <1>5, <2>2 DEF IInv, doKBCInterrupt, Acknowledge, TypeOK, PicTypeOK,
                            NoLineLeftInService, OnlyTimerInService
<1>6. CASE Resume
  <2>1. pstate[currentProcess] = "RUNNING" /\ currentProcess \in Procs
    BY <1>6 DEF IInv, Resume, RunsOnlyRunning, TypeOK
  <2>2. resume[currentProcess] \in Resumable /\ isr \subseteq {0}
    BY <1>6, <2>1 DEF IInv, Resume, ParkedWhereItStopped, OnlyTimerInService
  <2>3. isr' = {}
    BY <1>6, <2>2, LinesOfHandlers DEF Resume, ServiceAfter, SendEndOfInterrupt
  <2>4. TypeOK'
    BY <1>6, <2>3 DEF IInv, Resume, TypeOK, PicTypeOK, Points, CpuModes
  <2>5. ParkedWhereItStopped'
    BY <1>6, <2>1 DEF IInv, Resume, TypeOK, ParkedWhereItStopped
  <2> QED
    BY <1>6, <2>1, <2>3, <2>4, <2>5
    DEF IInv, Resume, RunsOnlyRunning, NoLineLeftInService, OnlyTimerInService,
        RingHoldsEachOnce, Allocated
<1>7. ASSUME NEW child \in Procs, sysFork(child) PROVE IInv'
  <2>1. isr' = isr
    BY <1>7, LinesOfHandlers DEF sysFork, SyscallReturns, SendEndOfInterrupt
  <2> QED
    BY <1>7, <2>1, DoForkKeeps DEF sysFork
<1>8. ASSUME NEW child \in Procs, KernelThread(child) PROVE IInv'
  BY <1>8, DoForkKeeps DEF KernelThread
<1>9. CASE SchedulerStart
  BY <1>1, <1>9 DEF IInv, SchedulerStart, HPETStartPeriodicTimer, TypeOK, PicTypeOK,
                    NoLineLeftInService, OnlyTimerInService
<1>10. CASE sysExit
  <2>1. irr' \subseteq Lines /\ isr' \subseteq {0} /\ cpu = "task"
    BY <1>10 DEF IInv, sysExit, TypeOK, PicTypeOK, NoLineLeftInService
  <2> QED
    BY <1>10, <2>1, ScheduleKeeps DEF sysExit, ExitState
<1>11. CASE sleep
  <2>1. irr' \subseteq Lines /\ isr' \subseteq {0} /\ cpu = "task"
    BY <1>11 DEF IInv, sleep, TypeOK, PicTypeOK, NoLineLeftInService
  <2> QED
    BY <1>11, <2>1, ScheduleKeeps DEF sleep
<1>12. ASSUME NEW p \in Procs, wakeup(p) PROVE IInv'
  <2>1. resume[p] = "sleep" /\ p # currentProcess
    BY <1>12 DEF IInv, wakeup, ParkedWhereItStopped, RunsOnlyRunning
  <2>2. TypeOK' /\ Allocated' = Allocated
    BY <1>12 DEF IInv, wakeup, TypeOK, PicTypeOK, States, Allocated
  <2>3. ParkedWhereItStopped'
    BY <1>12, <2>1 DEF IInv, wakeup, ParkedWhereItStopped, TypeOK, Resumable
  <2> QED
    BY <1>12, <2>1, <2>2, <2>3
    DEF IInv, wakeup, RunsOnlyRunning, NoLineLeftInService, OnlyTimerInService,
        RingHoldsEachOnce, TypeOK
<1>13. CASE UNCHANGED schedVars
  BY <1>1, <1>13 DEF IInv, schedVars, TypeOK, PicTypeOK, NoLineLeftInService,
                     OnlyTimerInService
<1> QED
  BY <1>2, <1>3, <1>4, <1>5, <1>6, <1>7, <1>8, <1>9, <1>10, <1>11, <1>12, <1>13
  DEF Next

LEMMA SpecIInv == Spec => []IInv
BY InitIInv, NextIInv, PTL DEF Spec

\* Every variable keeps its type, for every number of processes.
THEOREM TypeCorrect == Spec => []TypeOK
BY SpecIInv, PTL DEF IInv

\* No process is executed that sleeps or has exited.
THEOREM OnlyRunningExecutes == Spec => []RunsOnlyRunning
BY SpecIInv, PTL DEF IInv

\* Every way back to a process's own code has sent the end of interrupt, so
\* the timer is never held back there.
THEOREM TimerNeverHeldBack == Spec => []NoLineLeftInService
BY SpecIInv, PTL DEF IInv

\* A process off the processor is left at the point its state says.
THEOREM LeftWhereStateSays == Spec => []ParkedWhereItStopped
BY SpecIInv, PTL DEF IInv

\* The ring holds every process ever created, each of them once.
THEOREM RingComplete == Spec => []RingHoldsEachOnce
BY SpecIInv, PTL DEF IInv

-----------------------------------------------------------------------------
(***************************************************************************)
(* Scheduler implements the safety part of Tasks, for every set of         *)
(* processes: each step of the kernel is one the abstract specification    *)
(* allows, or changes nothing that programs can see.                       *)
(***************************************************************************)

\* The search finds someone if anybody in the ring is RUNNING.
LEMMA SearchEnds ==
  ASSUME NEW s \in Seq(Procs), NEW st, NEW p, NEW q \in Procs,
         \E i \in DOMAIN s : s[i] = p,
         \E i \in DOMAIN s : s[i] = q, st[q] = "RUNNING"
  PROVE  FindNextTask(s, st, p) # {}
<1> DEFINE running == {r \in Procs : st[r] = "RUNNING" /\ \E i \in DOMAIN s : s[i] = r}
           T == {Distance(s, p, r) : r \in running}
<1>1. \A r \in running : Distance(s, p, r) \in Nat
  <2> SUFFICES ASSUME NEW r \in running PROVE Distance(s, p, r) \in Nat
    OBVIOUS
  <2>1. Position(s, p) \in 1 .. Len(s) /\ Position(s, r) \in 1 .. Len(s)
    BY PositionType
  <2>2. Len(s) \in Nat
    OBVIOUS
  <2> QED
    BY <2>1, <2>2 DEF Distance
<1>2. T \subseteq Nat /\ T # {}
  BY <1>1
<1>3. PICK d \in T : \A e \in T : d <= e
  BY <1>2, LeastNumber
<1>4. PICK r \in running : d = Distance(s, p, r)
  OBVIOUS
<1>5. r \in FindNextTask(s, st, p)
  BY <1>3, <1>4 DEF FindNextTask
<1> QED
  BY <1>5

-----------------------------------------------------------------------------
(***************************************************************************)
(* The mapping                                                             *)
(***************************************************************************)
Holder == IF cpu = "FindNextTask" THEN 0 ELSE currentProcess
Phases == [p \in Procs |-> Phase(p)]

\* The phase of a process names its state, before a step and behind it.
LEMMA PhaseNames ==
  ASSUME TypeOK, NEW p \in Procs
  PROVE  /\ Phases[p] = "unborn"  <=> pstate[p] = "FREE"
         /\ Phases[p] = "ready"   <=> pstate[p] = "RUNNING"
         /\ Phases[p] = "waiting" <=> pstate[p] = "SLEEP"
         /\ Phases[p] = "gone"    <=> pstate[p] = "ZOMBIE"
  BY DEF Phases, Phase, TypeOK, States

LEMMA PhaseNamesNext ==
  ASSUME TypeOK', NEW p \in Procs
  PROVE  /\ Phases'[p] = "unborn"  <=> pstate'[p] = "FREE"
         /\ Phases'[p] = "ready"   <=> pstate'[p] = "RUNNING"
         /\ Phases'[p] = "waiting" <=> pstate'[p] = "SLEEP"
         /\ Phases'[p] = "gone"    <=> pstate'[p] = "ZOMBIE"
  BY DEF Phases, Phase, TypeOK, States

\* What a step does to a single process it does to the phases.
LEMMA OnePhaseChanges ==
  ASSUME TypeOK, TypeOK', NEW p \in Procs, NEW state, NEW to,
         pstate' = [pstate EXCEPT ![p] = state],
         \/ state = "RUNNING" /\ to = "ready"
         \/ state = "SLEEP" /\ to = "waiting"
         \/ state = "ZOMBIE" /\ to = "gone"
  PROVE  Phases' = [Phases EXCEPT ![p] = to]
<1>1. \A q \in Procs \ {p} : Phases'[q] = Phases[q]
  <2> SUFFICES ASSUME NEW q \in Procs, q # p PROVE Phases'[q] = Phases[q]
    OBVIOUS
  <2>1. pstate'[q] = pstate[q] /\ pstate[q] \in States
    BY DEF TypeOK
  <2> QED
    BY <2>1, PhaseNames, PhaseNamesNext DEF States
<1>2. Phases'[p] = to
  <2>1. pstate'[p] = state
    BY DEF TypeOK
  <2> QED
    BY <2>1, PhaseNamesNext
<1>3. Phases = [q \in Procs |-> Phases[q]] /\ Phases' = [q \in Procs |-> Phases'[q]]
  BY DEF Phases
<1> QED
  BY <1>1, <1>2, <1>3

LEMMA PhasesStay ==
  ASSUME pstate' = pstate
  PROVE  Phases' = Phases
  BY DEF Phases, Phase

-----------------------------------------------------------------------------
\* Whoever Schedule takes up is ready; it takes up nobody only if nobody is.
LEMMA SchedulePassesOn ==
  ASSUME IInv, TypeOK', NEW st, NEW point, Schedule(st, point), cpu = "task",
         \A p \in Procs : st[p] # "FREE" => pstate[p] # "FREE"
  PROVE  Holder' \in Abstract!Holders(Phases')
<1>1. processList \in Seq(Procs) /\ currentProcess \in Procs
  BY DEF IInv, TypeOK
<1>2. \E i \in DOMAIN processList : processList[i] = currentProcess
  BY DEF IInv, TypeOK, RunsOnlyRunning, RingHoldsEachOnce, Allocated
<1>3. CASE cpu' = "resumed"
  <2>1. /\ currentProcess' \in FindNextTask(processList, st, currentProcess)
        /\ Holder' = currentProcess' /\ pstate' = st
    BY <1>3 DEF Schedule, Holder
  <2>2. Holder' \in Procs /\ pstate'[Holder'] = "RUNNING"
    BY <2>1, NextIsRunning
  <2> QED
    BY <2>2, PhaseNamesNext DEF Abstract!Holders, Abstract!Ready
<1>4. CASE cpu' = "FindNextTask"
  <2>1. /\ FindNextTask(processList, st, currentProcess) = {}
        /\ Holder' = 0 /\ pstate' = st
    BY <1>4 DEF Schedule, Holder
  <2>2. ASSUME NEW q \in Procs, st[q] = "RUNNING" PROVE FALSE
    <3>1. \E i \in DOMAIN processList : processList[i] = q
      BY <2>2 DEF IInv, RingHoldsEachOnce, Allocated
    <3> QED
      BY <1>1, <1>2, <2>1, <2>2, <3>1, SearchEnds
  <2>3. Abstract!Ready(Phases') = {}
    BY <2>1, <2>2, PhaseNamesNext DEF Abstract!Ready
  <2> QED
    BY <2>1, <2>3 DEF Abstract!Holders
<1> QED
  BY <1>3, <1>4 DEF Schedule

\* A process that stops in Schedule leaves the processor as Stop says.
LEMMA StopsInSchedule ==
  ASSUME IInv, TypeOK', NEW state, NEW to, NEW point, cpu = "task",
         Schedule([pstate EXCEPT ![currentProcess] = state], point),
         \/ state = "SLEEP" /\ to = "waiting"
         \/ state = "ZOMBIE" /\ to = "gone"
  PROVE  Abstract!TaskNext
<1>1. /\ currentProcess \in Procs /\ TypeOK /\ pstate \in [Procs -> States]
      /\ pstate[currentProcess] = "RUNNING"
  BY DEF IInv, TypeOK, RunsOnlyRunning
<1>2. Holder = currentProcess /\ Holder # 0
  BY <1>1, ProcsAssumption DEF Holder
<1>3. Phases' = [Phases EXCEPT ![Holder] = to]
  BY <1>1, <1>2, OnePhaseChanges DEF Schedule
<1>4. Holder' \in Abstract!Holders(Phases')
  <2> DEFINE st == [pstate EXCEPT ![currentProcess] = state]
  <2>1. \A p \in Procs : st[p] # "FREE" => pstate[p] # "FREE"
    BY <1>1
  <2>2. Schedule(st, point)
    OBVIOUS
  <2> HIDE DEF st
  <2> QED
    BY <2>1, <2>2, SchedulePassesOn
<1>5. Abstract!Stop(to)
  BY <1>2, <1>3, <1>4 DEF Abstract!Stop, Holder, Phases
<1> QED
  BY <1>5 DEF Abstract!TaskNext

\* Fork makes a task that waits for its turn.
LEMMA ForkCreates ==
  ASSUME IInv, TypeOK', NEW child \in Procs, DoFork(child), cpu = "task",
         UNCHANGED <<currentProcess, cpu>>
  PROVE  Abstract!TaskNext
<1>1. /\ TypeOK /\ pstate[currentProcess] = "RUNNING" /\ currentProcess \in Procs
      /\ pstate[child] = "FREE"
  BY DEF IInv, TypeOK, RunsOnlyRunning, DoFork, CopyProcess
<1>2. Phases' = [Phases EXCEPT ![child] = "ready"]
  BY <1>1, OnePhaseChanges DEF DoFork, CopyProcess
<1>3. Holder # 0 /\ Holder' = Holder /\ Phases[child] = "unborn"
  BY <1>1, ProcsAssumption, PhaseNames DEF Holder
<1>4. Abstract!Create(child)
  BY <1>2, <1>3 DEF Abstract!Create, Holder, Phases
<1> QED
  BY <1>4 DEF Abstract!TaskNext

LEMMA InitIsTaskInit == Init => Abstract!TaskInit
<1> SUFFICES ASSUME Init PROVE Abstract!TaskInit
  OBVIOUS
<1>1. Holder = InitProc
  BY DEF Init, Holder
<1>2. Phases = [p \in Procs |-> IF p = InitProc THEN "ready" ELSE "unborn"]
  BY DEF Init, Phases, Phase
<1> QED
  BY <1>1, <1>2 DEF Abstract!TaskInit, Holder, Phases

LEMMA NextIsTaskNext ==
  IInv /\ IInv' /\ [Next]_schedVars => [Abstract!TaskNext]_(Abstract!taskVars)
<1> SUFFICES ASSUME IInv, IInv', [Next]_schedVars
             PROVE  [Abstract!TaskNext]_(Abstract!taskVars)
  OBVIOUS
<1> USE DEF IInv
<1>1. \* A step nobody sees.
      ASSUME pstate' = pstate, Holder' = Holder
      PROVE  UNCHANGED Abstract!taskVars
  BY <1>1, PhasesStay DEF Abstract!taskVars, Holder, Phases
<1>2. CASE Tick
  BY <1>1, <1>2 DEF Tick, Holder
<1>3. CASE KeyPress
  BY <1>1, <1>3 DEF KeyPress, Holder
<1>4. CASE HPETHandler
  <2>1. cpu = "task" /\ Schedule(pstate, "HPETHandler") /\ pstate' = pstate
    BY <1>4 DEF HPETHandler, Acknowledge, Schedule
  <2>2. Holder # 0
    BY <2>1, ProcsAssumption DEF TypeOK, Holder
  <2>3. Holder' \in Abstract!Holders(Phases') /\ Phases' = Phases
    BY <2>1, SchedulePassesOn, PhasesStay
  <2>4. Abstract!Preempt
    BY <2>2, <2>3 DEF Abstract!Preempt, Holder, Phases
  <2> QED
    BY <2>4 DEF Abstract!TaskNext
<1>5. CASE doKBCInterrupt
  BY <1>1, <1>5 DEF doKBCInterrupt, Holder
<1>6. CASE Resume
  BY <1>1, <1>6 DEF Resume, Holder
<1>7. ASSUME NEW child \in Procs, sysFork(child) PROVE Abstract!TaskNext
  BY <1>7, ForkCreates DEF sysFork
<1>8. ASSUME NEW child \in Procs, KernelThread(child) PROVE Abstract!TaskNext
  BY <1>8, ForkCreates DEF KernelThread
<1>9. CASE SchedulerStart
  BY <1>1, <1>9 DEF SchedulerStart, Holder
<1>10. CASE sysExit
  BY <1>10, StopsInSchedule DEF sysExit, ExitState
<1>11. CASE sleep
  BY <1>11, StopsInSchedule DEF sleep
<1>12. ASSUME NEW p \in Procs, wakeup(p) PROVE Abstract!TaskNext
  <2>1. /\ pstate[p] = "SLEEP" /\ pstate' = [pstate EXCEPT ![p] = "RUNNING"]
        /\ cpu = "task" /\ UNCHANGED <<cpu, currentProcess>>
    BY <1>12 DEF wakeup
  <2>2. Phases' = [Phases EXCEPT ![p] = "ready"] /\ Phases[p] = "waiting"
    BY <2>1, OnePhaseChanges, PhaseNames
  <2>3. Holder # 0 /\ Holder' = Holder
    BY <2>1, ProcsAssumption DEF TypeOK, Holder
  <2>4. Abstract!Wake(p)
    BY <2>2, <2>3 DEF Abstract!Wake, Holder, Phases
  <2> QED
    BY <2>4 DEF Abstract!TaskNext
<1>13. CASE UNCHANGED schedVars
  BY <1>1, <1>13 DEF schedVars, Holder
<1> QED
  BY <1>2, <1>3, <1>4, <1>5, <1>6, <1>7, <1>8, <1>9, <1>10, <1>11, <1>12, <1>13
  DEF Next

\* The kernel's forks, switches, sleeps, wakeups and exits are what Tasks
\* promises to programs: a task runs only if it is ready, and the processor is
\* withheld only when none is.
THEOREM SchedulerImplementsTasks == Spec => ImplementsTasks
<1>1. Init => Abstract!TaskInit
  BY InitIsTaskInit
<1>2. IInv /\ IInv' /\ [Next]_schedVars => [Abstract!TaskNext]_(Abstract!taskVars)
  BY NextIsTaskNext
<1> QED
  BY <1>1, <1>2, SpecIInv, PTL DEF Spec, ImplementsTasks, Abstract!TaskSpec
=============================================================================
