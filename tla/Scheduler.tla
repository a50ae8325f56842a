------------------------------ MODULE Scheduler ------------------------------
(***************************************************************************)
(* The task scheduler of scheduler.c with the operations of process.c that *)
(* create and end processes, the timer handler of hpet.c and the keyboard  *)
(* handler of kbc.c: one processor, preempted by the timer through the     *)
(* interrupt controllers of module Pic.                                    *)
(*                                                                         *)
(* Every interrupt and system call enters with the interrupt flag clear    *)
(* and runs to its end or to a task switch, so a handler is one step.  The *)
(* points where a switched-out process takes up again are states of their  *)
(* own, because the timer ticks on while the resumed handler still owes    *)
(* its end of interrupt.                                                   *)
(*                                                                         *)
(* What the disk driver does with sleep() and wakeup() is left open here   *)
(* (a process that does not belong to Busy may sleep at any time, and any  *)
(* sleeper may be woken at any time) and made concrete in module Ata.      *)
(***************************************************************************)
EXTENDS Pic, Sequences, FiniteSets

CONSTANTS Procs,    \* the processes the kernel heap has room for
          InitProc, \* the one ProcessInit builds out of the boot code
          Busy      \* those whose program neither exits nor waits for the disk

\* 0 is the null pointer, which is no process.
ASSUME ProcsAssumption == InitProc \in Procs /\ 0 \notin Procs /\ Busy \subseteq Procs

VARIABLES processList,    \* the ring of processes, its guard left out
          pstate,         \* Process.state, or FREE: not allocated
          pid,            \* Process.pid
          parent,         \* Process.parent
          currentProcess,
          resume,         \* where Schedule left a process: ThreadInfo.rip
          cpu,            \* what the processor executes, see CpuModes
          hpetEnabled     \* the main counter of the timer runs

schedVars == <<processList, pstate, pid, parent, currentProcess, resume, cpu,
               hpetEnabled, irr, isr>>

(***************************************************************************)
(* "task"         the current process runs its own code, interrupts on     *)
(* "resumed"      it came out of Schedule inside a handler, interrupts off *)
(* "FindNextTask" the loop of FindNextTask finds nobody, interrupts off    *)
(***************************************************************************)
CpuModes == {"task", "resumed", "FindNextTask"}

States    == {"FREE", "RUNNING", "SLEEP", "ZOMBIE"}
Resumable == {"HPETHandler", "sleep", "return_from_sys_fork"}
Points    == Resumable \cup {"none", "sysExit"}

Allocated == {p \in Procs : pstate[p] # "FREE"}

TypeOK ==
  /\ PicTypeOK
  /\ processList \in Seq(Procs)
  /\ pstate \in [Procs -> States]
  /\ pid \in [Procs -> Nat]
  /\ parent \in [Procs -> Procs \cup {0}]
  /\ currentProcess \in Procs
  /\ resume \in [Procs -> Points]
  /\ cpu \in CpuModes
  /\ hpetEnabled \in BOOLEAN

-----------------------------------------------------------------------------
(***************************************************************************)
(* The ring of processes                                                   *)
(***************************************************************************)
Position(s, p) == CHOOSE i \in DOMAIN s : s[i] = p

\* Mutant: the new process takes the place of its parent in the ring.
ListAddOverwrites(s, added, prev) ==
  Append([s EXCEPT ![Position(s, prev)] = added], added)

\* ListAdd: the list s with "added" right behind "prev".
ListAdd(s, added, prev) ==
  [i \in 1 .. Len(s) + 1 |->
     IF i <= Position(s, prev) THEN s[i]
     ELSE IF i = Position(s, prev) + 1 THEN added ELSE s[i - 1]]

\* How many steps along the ring lead from p to q: a whole round if p = q.
Distance(s, p, q) ==
  LET d == Position(s, q) - Position(s, p) IN IF d > 0 THEN d ELSE d + Len(s)

\* Mutant: the state of the candidate is not looked at.
FindNextTaskAnyState(s, st, p) ==
  LET c == {s[i] : i \in DOMAIN s}
  IN  {q \in c : \A r \in c : Distance(s, p, q) <= Distance(s, p, r)}

\* Mutant: the search starts at the head of the list instead of behind p.
FindNextTaskFromHead(s, st, p) ==
  LET c == {s[i] : i \in {j \in DOMAIN s : st[s[j]] = "RUNNING"}}
  IN  {q \in c : \A r \in c : Position(s, q) <= Position(s, r)}

\* Mutant: the guard of the ring is taken for a process.
FindNextTaskMeetsGuard(s, st, p) ==
  IF Position(s, p) = Len(s) THEN {0} ELSE {s[Position(s, p) + 1]}

(***************************************************************************)
(* The first RUNNING process behind p in the ring s, p itself the last to  *)
(* be tried; empty when there is none, which is where the loop never ends. *)
(***************************************************************************)
FindNextTask(s, st, p) ==
  LET running == {q \in Procs : st[q] = "RUNNING" /\ \E i \in DOMAIN s : s[i] = q}
  IN  {q \in running : \A r \in running : Distance(s, p, q) <= Distance(s, p, r)}

(***************************************************************************)
(* Schedule, called at the point "point" with the states st: the current   *)
(* process is left at that point and the next one taken up where it was    *)
(* left, which is the same process at the same point if it is its own next.*)
(***************************************************************************)
Schedule(st, point) ==
  LET next == FindNextTask(processList, st, currentProcess)
  IN  /\ pstate' = st
      /\ resume' = [resume EXCEPT ![currentProcess] = point]
      /\ \/ /\ currentProcess' \in next
            /\ cpu' = "resumed"
         \/ /\ next = {}
            /\ cpu' = "FindNextTask"
            /\ UNCHANGED currentProcess
      /\ UNCHANGED <<processList, pid, parent, hpetEnabled>>

-----------------------------------------------------------------------------
(***************************************************************************)
(* Interrupts.  The processor takes the line the controllers present when  *)
(* its interrupt flag is set; the handler's code is part of the step.      *)
(***************************************************************************)
Acknowledge(l) ==
  /\ cpu = "task"
  /\ Presented(l)
  /\ irr' = irr \ {l}

\* The periodic comparator fires.  A tick while one is latched is lost.
Tick ==
  /\ hpetEnabled
  /\ 0 \notin irr
  /\ irr' = irr \cup {0}
  /\ UNCHANGED <<processList, pstate, pid, parent, currentProcess, resume, cpu,
                 hpetEnabled, isr>>

KeyPress ==
  /\ 1 \notin irr
  /\ irr' = irr \cup {1}
  /\ UNCHANGED <<processList, pstate, pid, parent, currentProcess, resume, cpu,
                 hpetEnabled, isr>>

HPETHandler ==
  /\ Acknowledge(0)
  /\ isr' = InServiceWith(0)
  /\ Schedule(pstate, "HPETHandler")

\* doKBCInterrupt; the character it prints is not part of this state.
doKBCInterrupt ==
  /\ Acknowledge(1)
  /\ isr' = SendEndOfInterrupt(InServiceWith(1), KBC_INTERRUPT_NUM)
  /\ UNCHANGED <<processList, pstate, pid, parent, currentProcess, resume, cpu,
                 hpetEnabled>>

\* Mutant: sleep() returns without the end of interrupt of the timer.
ServiceAfterSleepForgets(point) ==
  IF point \in Resumable \ {"sleep"}
  THEN SendEndOfInterrupt(isr, HPET_INTERRUPT_NUM) ELSE isr

(***************************************************************************)
(* The end of interrupt a resumed process sends: HPETHandler and sleep     *)
(* after their call of Schedule, return_from_sys_fork in its first lines.  *)
(* sysExit has no code behind its call; were it resumed, SyscallHandler    *)
(* would only send the one of the system call, which concerns no line.     *)
(***************************************************************************)
ServiceAfter(point) ==
  IF point \in Resumable THEN SendEndOfInterrupt(isr, HPET_INTERRUPT_NUM)
  ELSE SendEndOfInterrupt(isr, SYSCALL_INTERRUPT_NUM)

\* The rest of the handler the current process was left in, up to its iretq.
Resume ==
  /\ cpu = "resumed"
  /\ cpu' = "task"
  /\ isr' = ServiceAfter(resume[currentProcess])
  /\ resume' = [resume EXCEPT ![currentProcess] = "none"]
  /\ UNCHANGED <<processList, pstate, pid, parent, currentProcess, hpetEnabled, irr>>

-----------------------------------------------------------------------------
(***************************************************************************)
(* System calls, KernelThread and SchedulerStart: the current process runs *)
(* its own code and calls the kernel.                                      *)
(***************************************************************************)

NewProcessId(n) == n + 1

(***************************************************************************)
(* The child starts as a copy of its parent, state included, right behind  *)
(* it in the ring.  No process is ever freed, and Procs bounds how many are*)
(* created, as the kernel heap does.                                       *)
(***************************************************************************)
CopyProcess(child) ==
  /\ pstate[child] = "FREE"
  /\ processList' = ListAdd(processList, child, currentProcess)
  /\ pstate' = [pstate EXCEPT ![child] = pstate[currentProcess]]
  /\ pid' = [pid EXCEPT ![child] = NewProcessId(pid[currentProcess])]

\* The child's saved context is the return from the system call.
DoFork(child) ==
  /\ CopyProcess(child)
  /\ parent' = [parent EXCEPT ![child] = currentProcess]
  /\ resume' = [resume EXCEPT ![child] = "return_from_sys_fork"]

\* The end of interrupt of a system call number concerns no line.
SyscallReturns == isr' = SendEndOfInterrupt(isr, SYSCALL_INTERRUPT_NUM)

sysFork(child) ==
  /\ cpu = "task"
  /\ DoFork(child)
  /\ SyscallReturns
  /\ UNCHANGED <<currentProcess, cpu, hpetEnabled, irr>>

\* Called by the boot code, before the timer is started.
KernelThread(child) ==
  /\ cpu = "task"
  /\ ~hpetEnabled
  /\ DoFork(child)
  /\ UNCHANGED <<currentProcess, cpu, hpetEnabled, irr, isr>>

\* The main counter starts, and with it the periodic interrupt.
HPETStartPeriodicTimer == hpetEnabled' = TRUE

SchedulerStart ==
  /\ cpu = "task"
  /\ ~hpetEnabled
  /\ HPETStartPeriodicTimer
  /\ UNCHANGED <<processList, pstate, pid, parent, currentProcess, resume, cpu, irr, isr>>

\* Mutant: sysExit parks the process the way sleep does.
ExitStateAsleep == "SLEEP"

ExitState == "ZOMBIE"

sysExit ==
  /\ cpu = "task"
  /\ currentProcess \notin Busy
  /\ Schedule([pstate EXCEPT ![currentProcess] = ExitState], "sysExit")
  /\ UNCHANGED <<irr, isr>>

sleep ==
  /\ cpu = "task"
  /\ currentProcess \notin Busy
  /\ Schedule([pstate EXCEPT ![currentProcess] = "SLEEP"], "sleep")
  /\ UNCHANGED <<irr, isr>>

\* Called by a handler, hence between two steps of the current process.
wakeup(p) ==
  /\ cpu = "task"
  /\ pstate[p] = "SLEEP"
  /\ pstate' = [pstate EXCEPT ![p] = "RUNNING"]
  /\ UNCHANGED <<processList, pid, parent, currentProcess, resume, cpu, hpetEnabled,
                 irr, isr>>

-----------------------------------------------------------------------------
\* ProcessInit: the boot code becomes the first process, PID_INITIAL.
Init ==
  /\ processList = <<InitProc>>
  /\ pstate = [p \in Procs |-> IF p = InitProc THEN "RUNNING" ELSE "FREE"]
  /\ pid = [p \in Procs |-> 0]
  /\ parent = [p \in Procs |-> 0]
  /\ currentProcess = InitProc
  /\ resume = [p \in Procs |-> "none"]
  /\ cpu = "task"
  /\ hpetEnabled = FALSE
  /\ irr = {}
  /\ isr = {}

Next ==
  \/ Tick
  \/ KeyPress
  \/ HPETHandler
  \/ doKBCInterrupt
  \/ Resume
  \/ \E child \in Procs : sysFork(child)
  \/ \E child \in Procs : KernelThread(child)
  \/ SchedulerStart
  \/ sysExit
  \/ sleep
  \/ \E p \in Procs : wakeup(p)

Spec == Init /\ [][Next]_schedVars

(***************************************************************************)
(* Fairness: the boot code starts the timer, the timer is periodic, a      *)
(* processor that accepts interrupts takes one that is presented, and      *)
(* straight-line handler code is executed.                                 *)
(***************************************************************************)
Fairness ==
  /\ WF_schedVars(SchedulerStart)
  /\ WF_schedVars(Tick)
  /\ WF_schedVars(HPETHandler)
  /\ WF_schedVars(Resume)

FairSpec == Spec /\ Fairness

-----------------------------------------------------------------------------
(***************************************************************************)
(* Properties                                                              *)
(***************************************************************************)

\* The processor only ever executes a process in the RUNNING state: none
\* that sleeps or has exited is switched to (Schedule, FindNextTask).
RunsOnlyRunning == cpu # "FindNextTask" => pstate[currentProcess] = "RUNNING"

\* Whatever way a process was left and taken up again, no line is in service
\* when it is back in its own code: a forgotten end of interrupt would hold
\* back the timer, and with it every other process, for good.
NoLineLeftInService == cpu = "task" => isr = {}

\* A process that is off the processor is left where its state says: a sleeper
\* in sleep(), one that exited in sysExit(), and one that can be switched to
\* at a point that sends the timer's end of interrupt.
ParkedWhereItStopped ==
  \A p \in Procs :
    /\ pstate[p] = "SLEEP" => resume[p] = "sleep"
    /\ pstate[p] = "ZOMBIE" <=> resume[p] = "sysExit"
    /\ pstate[p] = "RUNNING" /\ ~(p = currentProcess /\ cpu = "task")
         => resume[p] \in Resumable

\* The ring holds every process that was created, each of them once, in
\* whatever order processes fork (ListAdd in CopyProcess).
RingHoldsEachOnce ==
  /\ \A p \in Allocated : \E i \in DOMAIN processList : processList[i] = p
  /\ \A i, j \in DOMAIN processList :
       processList[i] = processList[j] => i = j
  /\ \A i \in DOMAIN processList : processList[i] \in Allocated

\* A process that can run gets the processor, however the others fork, sleep,
\* exit and wake (round robin of FindNextTask); Schedule "resumes the processing
\* of the next task" (scheduler.c:41), its search for one comes to an end.
EveryRunnerIsServed ==
  \A p \in Procs :
    pstate[p] = "RUNNING" ~> (currentProcess = p /\ cpu = "task")
=============================================================================
