------------------------- MODULE SchedulerRefinement -------------------------
(***************************************************************************)
(* Scheduler implements Tasks: a task is ready exactly when its process is *)
(* RUNNING, and the process the kernel calls current has the processor     *)
(* unless the kernel is looking for one.                                   *)
(***************************************************************************)
EXTENDS Scheduler

Phase(p) ==
  CASE pstate[p] = "FREE"    -> "unborn"
    [] pstate[p] = "RUNNING" -> "ready"
    [] pstate[p] = "SLEEP"   -> "waiting"
    [] pstate[p] = "ZOMBIE"  -> "gone"

Abstract ==
  INSTANCE Tasks WITH Task   <- Procs,
                      First  <- InitProc,
                      Nobody <- 0,
                      phase  <- [p \in Procs |-> Phase(p)],
                      holder <- IF cpu = "FindNextTask" THEN 0 ELSE currentProcess

\* The kernel's task switching is what Tasks promises (safety).
ImplementsTasks == Abstract!TaskSpec

\* And every task that stays ready has its turn, as Tasks promises.
ImplementsFairTasks == Abstract!FairTaskSpec
=============================================================================
