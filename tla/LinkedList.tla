----------------------------- MODULE LinkedList -----------------------------
(***************************************************************************)
(* The doubly linked lists of list.c, which hold the processes, and the    *)
(* queues of queue.c made from them.  A list is a ring through a guard; the*)
(* links of all nodes are two functions, prev and next.  Module            *)
(* LinkedListProofs shows which sequence of nodes each operation leaves.   *)
(***************************************************************************)
EXTENDS Integers, Sequences

CONSTANT Nodes \* every struct List there is, guards included

Links == [prev : [Nodes -> Nodes], next : [Nodes -> Nodes]]

-----------------------------------------------------------------------------
(***************************************************************************)
(* list.c                                                                  *)
(***************************************************************************)
LIST_INIT(l, guard) == [prev |-> [l.prev EXCEPT ![guard] = guard],
                        next |-> [l.next EXCEPT ![guard] = guard]]

ListAdd(l, added, prev) ==
  LET next == l.next[prev]
  IN  [prev |-> [l.prev EXCEPT ![added] = prev, ![next] = added],
       next |-> [l.next EXCEPT ![prev] = added, ![added] = next]]

ListDelete(l, deleted) ==
  LET prev == l.prev[deleted]
      next == l.next[deleted]
  IN  [prev |-> [l.prev EXCEPT ![next] = prev],
       next |-> [l.next EXCEPT ![prev] = next]]

-----------------------------------------------------------------------------
(***************************************************************************)
(* queue.c: a queue q is its guard and the number of its entries.          *)
(***************************************************************************)
QueuePush(l, q, pushed) == ListAdd(l, pushed, l.prev[q.guard])
AfterPush(q)            == [q EXCEPT !.size = q.size + 1]

QUEUE_FRONT(l, q) == IF q.size = 0 THEN 0 ELSE l.next[q.guard]

QueuePop(l, q) == IF q.size = 0 THEN l ELSE ListDelete(l, l.next[q.guard])
AfterPop(q)    == IF q.size = 0 THEN q ELSE [q EXCEPT !.size = q.size - 1]

-----------------------------------------------------------------------------
(***************************************************************************)
(* What a ring stands for                                                  *)
(***************************************************************************)

\* The i-th node of the ring that holds s: the guard before and behind it.
At(guard, s, i) == IF i \in 1 .. Len(s) THEN s[i] ELSE guard

Distinct(s) == \A i, j \in 1 .. Len(s) : s[i] = s[j] => i = j

\* The ring of the guard holds s, in both directions.
Holds(l, guard, s) ==
  /\ s \in Seq(Nodes \ {guard})
  /\ Distinct(s)
  /\ \A i \in 0 .. Len(s) : /\ l.next[At(guard, s, i)] = At(guard, s, i + 1)
                            /\ l.prev[At(guard, s, i + 1)] = At(guard, s, i)

Queues == [guard : Nodes, size : Nat]

QueueHolds(l, q, s) == Holds(l, q.guard, s) /\ q.size = Len(s)

\* s with "added" behind its k-th element, and without its k-th element.
Inserted(s, k, added) ==
  [i \in 1 .. Len(s) + 1 |-> IF i <= k THEN s[i] ELSE IF i = k + 1 THEN added ELSE s[i - 1]]
Removed(s, k) == [i \in 1 .. Len(s) - 1 |-> IF i < k THEN s[i] ELSE s[i + 1]]
=============================================================================
