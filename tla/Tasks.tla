-------------------------------- MODULE Tasks --------------------------------
(***************************************************************************)
(* What multitasking promises to the programs, with no ring, no saved      *)
(* context and no interrupt controller: every process is in one phase, at  *)
(* most one of those that are ready has the processor, the processor is    *)
(* never withheld while one is ready, and each one that stays ready gets   *)
(* its turn.  Module Scheduler implements it.                              *)
(***************************************************************************)
CONSTANTS Task,    \* everything that may ever become a process
          First,   \* the one that is there from the start
          Nobody   \* holds the processor when no task is ready

VARIABLES phase,  \* [Task -> {"unborn", "ready", "waiting", "gone"}]
          holder  \* who has the processor

taskVars == <<phase, holder>>

Ready(ph) == {t \in Task : ph[t] = "ready"}

\* Who may have the processor when the phases are ph.
Holders(ph) == IF Ready(ph) = {} THEN {Nobody} ELSE Ready(ph)

TaskInit ==
  /\ phase = [t \in Task |-> IF t = First THEN "ready" ELSE "unborn"]
  /\ holder = First

\* The holder creates t, which has to wait for its turn.
Create(t) ==
  /\ holder # Nobody
  /\ phase[t] = "unborn"
  /\ phase' = [phase EXCEPT ![t] = "ready"]
  /\ UNCHANGED holder

\* The processor passes to a ready task, perhaps the one that had it.
Preempt ==
  /\ holder # Nobody
  /\ holder' \in Holders(phase)
  /\ UNCHANGED phase

\* The holder stops, to wait or for good, and the processor passes on.
Stop(to) ==
  /\ holder # Nobody
  /\ phase' = [phase EXCEPT ![holder] = to]
  /\ holder' \in Holders(phase')

\* A waiting task becomes ready while another one has the processor.
Wake(t) ==
  /\ holder # Nobody
  /\ phase[t] = "waiting"
  /\ phase' = [phase EXCEPT ![t] = "ready"]
  /\ UNCHANGED holder

TaskNext ==
  \/ \E t \in Task : Create(t) \/ Wake(t)
  \/ Preempt
  \/ \E to \in {"waiting", "gone"} : Stop(to)

\* The step that gives the processor to t.
Serve(t) == holder # t /\ TaskNext /\ holder' = t

TaskSpec == TaskInit /\ [][TaskNext]_taskVars

FairTaskSpec == TaskSpec /\ \A t \in Task : SF_taskVars(phase[t] = "ready" /\ Serve(t))
=============================================================================
