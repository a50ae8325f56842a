-------------------------- MODULE RoundRobinProofs --------------------------
(***************************************************************************)
(* Round robin, for every set of processes.                                *)
(*                                                                         *)
(* The argument: those who have overtaken a waiting process p lie on the   *)
(* ring between p and the current process.  FindNextTask never passes p by,*)
(* so whoever is next lies beyond the current process, seen from p; and a  *)
(* child is inserted right behind the current process, beyond it too.      *)
(***************************************************************************)
EXTENDS RoundRobin, SchedulerProofs

InRing(s, x) == \E i \in DOMAIN s : s[i] = x

EachOnce(s) == \A i, j \in DOMAIN s : s[i] = s[j] => i = j

\* The inductive invariant.
OvertakersLieBehind ==
  /\ overtakers \in [Procs -> SUBSET Procs]
  /\ \A p \in Procs :
       /\ pstate[p] # "RUNNING" \/ p = currentProcess => overtakers[p] = {}
       /\ \A x \in overtakers[p] :
            /\ InRing(processList, x)
            /\ Distance(processList, p, x) <= Distance(processList, p, currentProcess)

\* How far it is along the ring.
LEMMA DistanceIs ==
  ASSUME NEW s \in Seq(Procs), NEW p, NEW q, InRing(s, p), InRing(s, q)
  PROVE  /\ Position(s, p) \in 1 .. Len(s) /\ Position(s, q) \in 1 .. Len(s)
         /\ Distance(s, p, q) = IF Position(s, q) > Position(s, p)
                                THEN Position(s, q) - Position(s, p)
                                ELSE Position(s, q) - Position(s, p) + Len(s)
<1>1. Position(s, p) \in 1 .. Len(s) /\ Position(s, q) \in 1 .. Len(s)
  BY PositionType DEF InRing
<1> DEFINE a == Position(s, p)
           b == Position(s, q)
<1>2. Distance(s, p, q) = IF b - a > 0 THEN b - a ELSE b - a + Len(s)
  BY DEF Distance
<1> HIDE DEF a, b
<1>3. a \in Nat /\ b \in Nat /\ Len(s) \in Nat
  BY <1>1 DEF a, b
<1> QED
  BY <1>1, <1>2, <1>3 DEF a, b

\* Whoever the search from c finds before p lies, seen from p, beyond c.
LEMMA FoundBeyond ==
  ASSUME NEW s \in Seq(Procs), NEW p, NEW c, NEW q,
         InRing(s, p), InRing(s, c), InRing(s, q), p # c, p # q,
         Distance(s, c, q) <= Distance(s, c, p)
  PROVE  Distance(s, p, c) < Distance(s, p, q)
         \/ c = q
<1> DEFINE i == Position(s, p)
           j == Position(s, c)
           k == Position(s, q)
<1>1. /\ s[i] = p /\ s[j] = c /\ s[k] = q
      /\ i \in 1 .. Len(s) /\ j \in 1 .. Len(s) /\ k \in 1 .. Len(s)
  BY PositionType DEF InRing
<1>2. /\ Distance(s, p, c) = IF j > i THEN j - i ELSE j - i + Len(s)
      /\ Distance(s, p, q) = IF k > i THEN k - i ELSE k - i + Len(s)
      /\ Distance(s, c, q) = IF k > j THEN k - j ELSE k - j + Len(s)
      /\ Distance(s, c, p) = IF i > j THEN i - j ELSE i - j + Len(s)
  BY DistanceIs
<1> HIDE DEF i, j, k
<1>3. i # j /\ i # k /\ (j = k => c = q)
  BY <1>1
<1> QED
  BY <1>1, <1>2, <1>3

\* Where the others stand once a process is inserted behind c.
LEMMA PositionMoves ==
  ASSUME NEW s \in Seq(Procs), NEW added \in Procs, NEW c \in Procs, InRing(s, c),
         \A i \in DOMAIN s : s[i] # added, EachOnce(s), NEW y, InRing(s, y)
  PROVE  LET t == ListAdd(s, added, c)
         IN  /\ InRing(t, y)
             /\ Position(t, y) = IF Position(s, y) <= Position(s, c) THEN Position(s, y)
                                 ELSE Position(s, y) + 1
<1> DEFINE t == ListAdd(s, added, c)
           k == Position(s, c)
           i == Position(s, y)
<1>1. k \in 1 .. Len(s) /\ i \in 1 .. Len(s) /\ s[i] = y
  BY PositionType DEF InRing
<1>2. EachOnce(t)
  BY ListAddHolds DEF EachOnce, InRing
<1>3. DOMAIN t = 1 .. Len(s) + 1
      /\ \A m \in 1 .. Len(s) + 1 :
           t[m] = IF m <= k THEN s[m] ELSE IF m = k + 1 THEN added ELSE s[m - 1]
  BY DEF ListAdd
<1> HIDE DEF t, k, i
<1> DEFINE m == IF i <= k THEN i ELSE i + 1
<1>4. m \in DOMAIN t /\ t[m] = y
  BY <1>1, <1>3
<1> HIDE DEF m
<1>5. InRing(t, y)
  BY <1>4 DEF InRing
<1>6. Position(t, y) = m
  <2>1. Position(t, y) \in DOMAIN t /\ t[Position(t, y)] = y
    BY <1>5, PositionType DEF InRing
  <2> QED
    BY <2>1, <1>2, <1>4 DEF EachOnce
<1> QED
  BY <1>5, <1>6 DEF t, k, i, m

\* A process that is inserted behind c comes between nobody and c.
LEMMA InsertedBeyond ==
  ASSUME NEW s \in Seq(Procs), NEW added \in Procs, NEW c \in Procs, InRing(s, c),
         \A i \in DOMAIN s : s[i] # added, EachOnce(s),
         NEW p, InRing(s, p), p # c, NEW x, InRing(s, x),
         Distance(s, p, x) <= Distance(s, p, c)
  PROVE  LET t == ListAdd(s, added, c)
         IN  InRing(t, x) /\ Distance(t, p, x) <= Distance(t, p, c)
<1> DEFINE t  == ListAdd(s, added, c)
           n  == Len(s)
           i  == Position(s, p)
           j  == Position(s, x)
           k  == Position(s, c)
           i2 == Position(t, p)
           j2 == Position(t, x)
           k2 == Position(t, c)
<1>1. InRing(t, p) /\ InRing(t, x) /\ InRing(t, c)
  BY PositionMoves
<1>2. /\ i2 = IF i <= k THEN i ELSE i + 1
      /\ j2 = IF j <= k THEN j ELSE j + 1
      /\ k2 = IF k <= k THEN k ELSE k + 1
  BY PositionMoves
<1>3. t \in Seq(Procs) /\ Len(t) = n + 1
  BY ListAddType DEF InRing
<1>4. /\ i \in 1 .. n /\ j \in 1 .. n /\ k \in 1 .. n
      /\ Distance(s, p, x) = IF j > i THEN j - i ELSE j - i + n
      /\ Distance(s, p, c) = IF k > i THEN k - i ELSE k - i + n
  BY DistanceIs
<1>5. s[i] = p /\ s[k] = c
  BY PositionType DEF InRing
<1> HIDE DEF t, n, i, j, k, i2, j2, k2
<1>6. /\ Distance(t, p, x) = IF j2 > i2 THEN j2 - i2 ELSE j2 - i2 + Len(t)
      /\ Distance(t, p, c) = IF k2 > i2 THEN k2 - i2 ELSE k2 - i2 + Len(t)
  BY <1>1, <1>3, DistanceIs DEF i2, j2, k2
<1>7. i # k
  BY <1>5
<1>8. n \in Nat /\ i \in Nat /\ j \in Nat /\ k \in Nat
  BY <1>4 DEF n
<1>9. Distance(t, p, x) <= Distance(t, p, c)
  BY <1>2, <1>3, <1>4, <1>6, <1>7, <1>8
<1> QED
  BY <1>1, <1>9 DEF t

\* The history variable after a step.
Remembers ==
  overtakers' =
    [p \in Procs |->
       IF pstate'[p] # "RUNNING" \/ p = currentProcess' THEN {}
       ELSE overtakers[p] \cup (IF Switches THEN {currentProcess'} ELSE {})]

Passed == \* nobody who has overtaken a waiting process is given the processor
  Switches => \A p \in Procs :
    pstate[p] = "RUNNING" /\ p # currentProcess /\ p # currentProcess'
      => currentProcess' \notin overtakers[p]

\* Who can run stands in the ring.
LEMMA RunnersAreInRing ==
  ASSUME IInv, NEW p \in Procs, pstate[p] = "RUNNING"
  PROVE  InRing(processList, p)
BY DEF IInv, RingHoldsEachOnce, Allocated, InRing

\* A call of Schedule: the next one lies beyond all who have overtaken.
LEMMA SchedulePassesNobody ==
  ASSUME IInv, OvertakersLieBehind, Remembers, cpu = "task",
         NEW st, NEW point, Schedule(st, point),
         \A p \in Procs \ {currentProcess} : st[p] = pstate[p]
  PROVE  OvertakersLieBehind' /\ Passed
<1> DEFINE s == processList
           c == currentProcess
           d == currentProcess'
<1>1. /\ s \in Seq(Procs) /\ c \in Procs /\ InRing(s, c)
      /\ processList' = s /\ pstate' = st
      /\ overtakers \in [Procs -> SUBSET Procs]
  BY RunnersAreInRing DEF IInv, TypeOK, RunsOnlyRunning, Schedule, OvertakersLieBehind
<1>2. /\ d \in Procs /\ InRing(s, d)
      /\ d = c \/ d \in FindNextTask(s, st, c)
  BY <1>1, NextIsRunning DEF Schedule, InRing
<1>3. ASSUME NEW p \in Procs, st[p] = "RUNNING", p # c, p # d, d # c
      PROVE  /\ InRing(s, p) /\ Distance(s, p, c) < Distance(s, p, d)
             /\ d \notin overtakers[p]
  <2>1. pstate[p] = "RUNNING"
    BY <1>3
  <2>2. InRing(s, p)
    BY <2>1, RunnersAreInRing
  <2>3. Distance(s, c, d) <= Distance(s, c, p)
    BY <1>2, <1>3, <2>2 DEF FindNextTask, InRing
  <2>4. Distance(s, p, c) < Distance(s, p, d)
    BY <1>1, <1>2, <1>3, <2>2, <2>3, FoundBeyond
  <2>5. Distance(s, p, c) \in Int /\ Distance(s, p, d) \in Int
    BY <1>1, <1>2, <2>2, DistanceIs
  <2>6. d \in overtakers[p] => Distance(s, p, d) <= Distance(s, p, c)
    BY DEF OvertakersLieBehind
  <2> QED
    BY <2>2, <2>4, <2>5, <2>6
<1>4. overtakers' \in [Procs -> SUBSET Procs]
  BY <1>1, <1>2 DEF Remembers
<1>5. ASSUME NEW p \in Procs, NEW x \in overtakers'[p]
      PROVE  InRing(s, x) /\ Distance(s, p, x) <= Distance(s, p, d)
  <2>1. st[p] = "RUNNING" /\ p # d
        /\ overtakers'[p] = overtakers[p] \cup (IF Switches THEN {d} ELSE {})
    BY <1>1, <1>5 DEF Remembers
  <2>2. InRing(s, p)
    BY <1>1, <2>1, RunnersAreInRing
  <2>3. Distance(s, p, d) \in Int /\ Distance(s, p, c) \in Int
    BY <1>1, <1>2, <2>2, DistanceIs
  <2>4. CASE x = d
    BY <1>2, <2>3, <2>4
  <2>5. CASE x # d
    <3>1. x \in overtakers[p]
      BY <2>1, <2>5
    <3>2. p # c /\ InRing(s, x) /\ Distance(s, p, x) <= Distance(s, p, c)
      BY <3>1 DEF OvertakersLieBehind
    <3>3. Distance(s, p, x) \in Int
      BY <1>1, <2>2, <3>2, DistanceIs
    <3>4. d = c \/ Distance(s, p, c) < Distance(s, p, d)
      BY <1>3, <2>1, <3>2
    <3> QED
      BY <2>3, <3>2, <3>3, <3>4
  <2> QED
    BY <2>4, <2>5
<1>6. OvertakersLieBehind'
  <2>1. \A p \in Procs : pstate'[p] # "RUNNING" \/ p = d => overtakers'[p] = {}
    BY DEF Remembers
  <2> QED
    BY <1>1, <1>4, <1>5, <2>1 DEF OvertakersLieBehind, InRing
<1>7. Passed
  BY <1>3 DEF Passed, Switches
<1> QED
  BY <1>6, <1>7

\* A step that keeps the current process and the ring.
LEMMA RingStays ==
  ASSUME IInv, OvertakersLieBehind, Remembers, UNCHANGED <<processList, currentProcess>>,
         \A p \in Procs : pstate'[p] = pstate[p] \/ pstate[p] # "RUNNING"
  PROVE  OvertakersLieBehind' /\ Passed
<1>1. \A p \in Procs : overtakers'[p] \subseteq overtakers[p]
                       /\ (pstate'[p] # "RUNNING" \/ p = currentProcess' => overtakers'[p] = {})
  BY DEF Remembers, Switches
<1>2. overtakers' \in [Procs -> SUBSET Procs]
  BY <1>1 DEF Remembers, Switches, OvertakersLieBehind
<1>3. ~Switches
  BY DEF Switches
<1> QED
  BY <1>1, <1>2, <1>3 DEF OvertakersLieBehind, Passed, InRing

\* A fork: the child stands beyond the current process.
LEMMA ForkPassesNobody ==
  ASSUME IInv, OvertakersLieBehind, Remembers, NEW child \in Procs, DoFork(child),
         cpu = "task", UNCHANGED currentProcess
  PROVE  OvertakersLieBehind' /\ Passed
<1> DEFINE s == processList
           c == currentProcess
<1>1. /\ s \in Seq(Procs) /\ c \in Procs /\ InRing(s, c) /\ EachOnce(s)
      /\ overtakers \in [Procs -> SUBSET Procs]
  BY RunnersAreInRing
  DEF IInv, TypeOK, RunsOnlyRunning, OvertakersLieBehind, RingHoldsEachOnce, EachOnce
<1>2. /\ \A i \in DOMAIN s : s[i] # child
      /\ processList' = ListAdd(s, child, c)
      /\ pstate[child] # "RUNNING"
      /\ \A p \in Procs \ {child} : pstate'[p] = pstate[p]
  BY DEF IInv, RingHoldsEachOnce, Allocated, DoFork, CopyProcess, TypeOK
<1>3. ASSUME NEW p \in Procs
      PROVE  /\ overtakers'[p] \subseteq overtakers[p]
             /\ pstate'[p] # "RUNNING" \/ p = c => overtakers'[p] = {}
  BY DEF Remembers, Switches
<1>4. overtakers' \in [Procs -> SUBSET Procs]
  BY <1>1, <1>3 DEF Remembers, Switches
<1>5. ASSUME NEW p \in Procs, NEW x \in overtakers'[p]
      PROVE  InRing(processList', x)
             /\ Distance(processList', p, x) <= Distance(processList', p, c)
  <2>1. x \in overtakers[p] /\ p # c
    BY <1>3
  <2>2. /\ pstate[p] = "RUNNING" /\ InRing(s, x)
        /\ Distance(s, p, x) <= Distance(s, p, c)
    BY <2>1 DEF OvertakersLieBehind
  <2>3. InRing(s, p)
    BY <2>2, RunnersAreInRing
  <2> QED
    BY <1>1, <1>2, <2>1, <2>2, <2>3, InsertedBeyond
<1>6. ~Switches
  BY DEF Switches
<1> QED
  BY <1>3, <1>4, <1>5, <1>6 DEF OvertakersLieBehind, Passed, InRing

LEMMA OvertakersInitially ==
  RoundRobinInit => OvertakersLieBehind
BY DEF RoundRobinInit, OvertakersLieBehind

LEMMA OvertakersStep ==
  IInv /\ OvertakersLieBehind /\ [RoundRobinNext]_roundRobinVars => OvertakersLieBehind' /\ Passed
<1> SUFFICES ASSUME IInv, OvertakersLieBehind, [RoundRobinNext]_roundRobinVars
             PROVE  OvertakersLieBehind' /\ Passed
  OBVIOUS
<1>1. CASE UNCHANGED roundRobinVars
  BY <1>1 DEF roundRobinVars, schedVars, OvertakersLieBehind, Passed, Switches, InRing
<1> SUFFICES ASSUME Next, Remembers
             PROVE  OvertakersLieBehind' /\ Passed
  BY <1>1 DEF RoundRobinNext, Remembers
<1>2. CASE Tick \/ KeyPress \/ doKBCInterrupt \/ Resume \/ SchedulerStart
  BY <1>2, RingStays DEF Tick, KeyPress, doKBCInterrupt, Resume, SchedulerStart
<1>3. ASSUME NEW p \in Procs, wakeup(p)
      PROVE  OvertakersLieBehind' /\ Passed
  <2>1. \A q \in Procs : pstate'[q] = pstate[q] \/ pstate[q] # "RUNNING"
    BY <1>3 DEF wakeup, IInv, TypeOK
  <2> QED
    BY <1>3, <2>1, RingStays DEF wakeup
<1>4. ASSUME NEW child \in Procs, sysFork(child) \/ KernelThread(child)
      PROVE  OvertakersLieBehind' /\ Passed
  BY <1>4, ForkPassesNobody DEF sysFork, KernelThread
<1>5. CASE HPETHandler
  BY <1>5, SchedulePassesNobody DEF HPETHandler, Acknowledge
<1>6. CASE sysExit
  BY <1>6, SchedulePassesNobody DEF sysExit, IInv, TypeOK
<1>7. CASE sleep
  BY <1>7, SchedulePassesNobody DEF sleep, IInv, TypeOK
<1> QED
  BY <1>2, <1>3, <1>4, <1>5, <1>6, <1>7 DEF Next

\* While a process that can run waits for the processor, no other one is given
\* it twice, whatever the others do, and however many there are (FindNextTask,
\* ListAdd in CopyProcess).
THEOREM RoundRobin == RoundRobinSpec => NobodyOvertakesTwice
<1>1. RoundRobinInit => IInv /\ OvertakersLieBehind
  BY InitIInv, OvertakersInitially DEF RoundRobinInit
<1>2. IInv /\ OvertakersLieBehind /\ [RoundRobinNext]_roundRobinVars
        => (IInv /\ OvertakersLieBehind)'
  <2>1. [RoundRobinNext]_roundRobinVars => [Next]_schedVars
    BY DEF RoundRobinNext, roundRobinVars
  <2> QED
    BY <2>1, NextIInv, OvertakersStep
<1>3. IInv /\ OvertakersLieBehind /\ [RoundRobinNext]_roundRobinVars
        => [Passed]_roundRobinVars
  BY OvertakersStep
<1>4. RoundRobinSpec => [][Passed]_roundRobinVars
  BY <1>1, <1>2, <1>3, PTL DEF RoundRobinSpec
<1> QED
  BY <1>4 DEF Passed, NobodyOvertakesTwice

=============================================================================
