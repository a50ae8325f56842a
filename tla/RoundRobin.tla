----------------------------- MODULE RoundRobin -----------------------------
(***************************************************************************)
(* Scheduler with a history variable that remembers whom each waiting      *)
(* process has seen getting the processor, and what round robin promises   *)
(* in terms of it.                                                         *)
(***************************************************************************)
EXTENDS Scheduler

VARIABLE overtakers \* [Procs -> processes given the processor while it waited]

roundRobinVars == <<schedVars, overtakers>>

\* The step gives the processor to another process than the one that had it.
Switches == currentProcess' # currentProcess

RoundRobinInit == Init /\ overtakers = [p \in Procs |-> {}]

RoundRobinNext ==
  /\ Next
  /\ overtakers' =
       [p \in Procs |->
          IF pstate'[p] # "RUNNING" \/ p = currentProcess' THEN {}
          ELSE overtakers[p] \cup (IF Switches THEN {currentProcess'} ELSE {})]

RoundRobinSpec == RoundRobinInit /\ [][RoundRobinNext]_roundRobinVars

\* Round robin: while a process that can run waits for the processor, no other
\* one is given it twice, whoever forks, sleeps, wakes or exits in between.
NobodyOvertakesTwice ==
  [][Switches => \A p \in Procs :
       pstate[p] = "RUNNING" /\ p # currentProcess /\ p # currentProcess'
         => currentProcess' \notin overtakers[p]]_roundRobinVars
=============================================================================
