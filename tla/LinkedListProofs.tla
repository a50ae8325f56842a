-------------------------- MODULE LinkedListProofs --------------------------
(***************************************************************************)
(* What list.c and queue.c do to the sequence a ring holds, for every      *)
(* length of it and every set of nodes.                                    *)
(***************************************************************************)
EXTENDS LinkedList, SequenceTheorems, TLAPS

\* Behind LIST_INIT the ring of the guard is empty.
THEOREM InitIsEmpty ==
  ASSUME NEW l \in Links, NEW guard \in Nodes
  PROVE  Holds(LIST_INIT(l, guard), guard, <<>>)
BY DEF Holds, LIST_INIT, At, Distinct, Links

\* The nodes of a ring are nodes.
LEMMA RingNodes ==
  ASSUME NEW guard \in Nodes, NEW s \in Seq(Nodes \ {guard})
  PROVE  \A i \in Int : At(guard, s, i) \in Nodes
BY DEF At

\* Different places of a ring hold different nodes; the guard is at both ends.
LEMMA RingDistinct ==
  ASSUME NEW guard \in Nodes, NEW s \in Seq(Nodes \ {guard}), Distinct(s)
  PROVE  /\ \A i, j \in 0 .. Len(s) : At(guard, s, i) = At(guard, s, j) => i = j
         /\ \A i, j \in 1 .. Len(s) + 1 : At(guard, s, i) = At(guard, s, j) => i = j
<1>1. \A i \in 1 .. Len(s) : s[i] \in Nodes \ {guard}
  OBVIOUS
<1>2. Len(s) \in Nat
  OBVIOUS
<1> QED
  BY <1>1, <1>2 DEF At, Distinct

\* The sequence behind an insertion: still one of distinct nodes.
LEMMA InsertedOK ==
  ASSUME NEW guard \in Nodes, NEW s \in Seq(Nodes \ {guard}), Distinct(s),
         NEW k \in 0 .. Len(s), NEW added \in Nodes \ {guard},
         \A i \in 1 .. Len(s) : s[i] # added
  PROVE  /\ Inserted(s, k, added) \in Seq(Nodes \ {guard})
         /\ Len(Inserted(s, k, added)) = Len(s) + 1
         /\ Distinct(Inserted(s, k, added))
<1> DEFINE t == Inserted(s, k, added)
<1>1. Len(s) \in Nat /\ \A i \in 1 .. Len(s) : s[i] \in Nodes \ {guard}
  OBVIOUS
<1>2. \A i \in 1 .. Len(s) + 1 : t[i] \in Nodes \ {guard}
  BY <1>1 DEF Inserted
<1>3. t \in Seq(Nodes \ {guard}) /\ Len(t) = Len(s) + 1
  BY <1>1, <1>2 DEF Inserted
<1>4. Distinct(t)
  BY <1>1, <1>3 DEF Inserted, Distinct
<1> QED
  BY <1>3, <1>4

\* Where the nodes of the ring are behind an insertion.
LEMMA InsertedAt ==
  ASSUME NEW guard \in Nodes, NEW s \in Seq(Nodes \ {guard}), Distinct(s),
         NEW k \in 0 .. Len(s), NEW added \in Nodes \ {guard},
         \A i \in 1 .. Len(s) : s[i] # added
  PROVE  \A i \in 0 .. Len(s) + 2 :
           At(guard, Inserted(s, k, added), i) =
             IF i <= k THEN At(guard, s, i)
             ELSE IF i = k + 1 THEN added ELSE At(guard, s, i - 1)
<1>1. Len(s) \in Nat
  OBVIOUS
<1>2. Len(Inserted(s, k, added)) = Len(s) + 1
  BY InsertedOK
<1> QED
  BY <1>1, <1>2 DEF At, Inserted

\* ListAdd puts the new node right behind the one it is given, whatever the
\* links of the new node were before: CopyProcess (process.c:221) has copied
\* the parent's.  It is the sequence ListAdd of module Scheduler yields.
THEOREM AddInsertsBehind ==
  ASSUME NEW l \in Links, NEW guard \in Nodes, NEW s, Holds(l, guard, s),
         NEW k \in 0 .. Len(s), NEW added \in Nodes \ {guard},
         \A i \in 1 .. Len(s) : s[i] # added
  PROVE  Holds(ListAdd(l, added, At(guard, s, k)), guard, Inserted(s, k, added))
<1> DEFINE t == Inserted(s, k, added)
           a(i) == At(guard, s, i)
           m == ListAdd(l, added, a(k))
<1>1. /\ s \in Seq(Nodes \ {guard}) /\ Distinct(s) /\ Len(s) \in Nat
      /\ \A i \in 0 .. Len(s) : l.next[a(i)] = a(i + 1) /\ l.prev[a(i + 1)] = a(i)
  BY DEF Holds
<1>2. t \in Seq(Nodes \ {guard}) /\ Len(t) = Len(s) + 1 /\ Distinct(t)
  BY <1>1, InsertedOK
<1>3. \A i \in 0 .. Len(s) + 2 :
        At(guard, t, i) = IF i <= k THEN a(i) ELSE IF i = k + 1 THEN added ELSE a(i - 1)
  BY <1>1, InsertedAt
<1>4. \A i \in Int : a(i) \in Nodes
  BY <1>1, RingNodes
<1>5. /\ \A i, j \in 0 .. Len(s) : a(i) = a(j) => i = j
      /\ \A i, j \in 1 .. Len(s) + 1 : a(i) = a(j) => i = j
  BY <1>1, RingDistinct
<1>6. \A i \in 0 .. Len(s) + 1 : a(i) # added
  BY <1>1 DEF At
<1>7. /\ \A n \in Nodes : m.next[n] = IF n = added THEN a(k + 1) ELSE IF n = a(k) THEN added ELSE l.next[n]
      /\ \A n \in Nodes : m.prev[n] = IF n = a(k + 1) THEN added ELSE IF n = added THEN a(k) ELSE l.prev[n]
  <2>1. l.next[a(k)] = a(k + 1)
    BY <1>1
  <2> QED
    BY <2>1, <1>4, <1>6 DEF ListAdd, Links
<1> HIDE DEF m, t, a
<1>8. \A i \in 0 .. Len(t) :
        /\ i \in 0 .. Len(s) + 2 /\ i + 1 \in 0 .. Len(s) + 2 /\ k \in Int
        /\ i < k => i \in 0 .. Len(s) /\ i + 1 \in 1 .. Len(s) + 1
  BY <1>1, <1>2
<1>9. ASSUME NEW i \in 0 .. Len(t)
      PROVE  m.next[At(guard, t, i)] = At(guard, t, i + 1) /\ m.prev[At(guard, t, i + 1)] = At(guard, t, i)
  <2>1. CASE i < k
    <3>1. At(guard, t, i) = a(i) /\ At(guard, t, i + 1) = a(i + 1) /\ i \in 0 .. Len(s) /\ i + 1 \in 1 .. Len(s) + 1
      BY <2>1, <1>3, <1>8
    <3>2. a(i) # a(k) /\ a(i + 1) # a(k + 1) /\ a(i) # added /\ a(i + 1) # added
      BY <3>1, <2>1, <1>1, <1>5, <1>6
    <3> QED
      BY <3>1, <3>2, <1>1, <1>4, <1>7
  <2>2. CASE i = k
    <3>1. At(guard, t, i) = a(k) /\ At(guard, t, i + 1) = added
      BY <2>2, <1>3, <1>8
    <3>2. a(k) # added /\ a(k + 1) # added /\ a(k) \in Nodes /\ a(k + 1) \in Nodes
      BY <1>1, <1>4, <1>6
    <3> QED
      BY <3>1, <3>2, <1>7
  <2>3. CASE i = k + 1
    <3>1. At(guard, t, i) = added /\ At(guard, t, i + 1) = a(k + 1)
      BY <2>3, <1>1, <1>2, <1>3
    <3>2. a(k + 1) # added /\ a(k + 1) \in Nodes
      BY <1>1, <1>4, <1>6
    <3> QED
      BY <3>1, <3>2, <1>7
  <2>4. CASE i > k + 1
    <3>1. At(guard, t, i) = a(i - 1) /\ At(guard, t, i + 1) = a(i) /\ i - 1 \in 0 .. Len(s) /\ i \in 1 .. Len(s) + 1
      BY <2>4, <1>1, <1>2, <1>3
    <3>2. a(i - 1) # a(k) /\ a(i) # a(k + 1) /\ a(i - 1) # added /\ a(i) # added
      BY <3>1, <2>4, <1>1, <1>5, <1>6
    <3>3. l.next[a(i - 1)] = a(i) /\ l.prev[a(i)] = a(i - 1)
      BY <3>1, <1>1
    <3> QED
      BY <3>1, <3>2, <3>3, <1>4, <1>7
  <2> QED
    BY <2>1, <2>2, <2>3, <2>4, <1>1, <1>2
<1> QED
  BY <1>2, <1>9 DEF Holds, m, t, a

-----------------------------------------------------------------------------
\* The sequence behind a deletion: still one of distinct nodes.
LEMMA RemovedOK ==
  ASSUME NEW guard \in Nodes, NEW s \in Seq(Nodes \ {guard}), Distinct(s), NEW k \in 1 .. Len(s)
  PROVE  /\ Removed(s, k) \in Seq(Nodes \ {guard})
         /\ Len(Removed(s, k)) = Len(s) - 1
         /\ Distinct(Removed(s, k))
<1> DEFINE t == Removed(s, k)
<1>1. Len(s) \in Nat /\ \A i \in 1 .. Len(s) : s[i] \in Nodes \ {guard}
  OBVIOUS
<1>2. \A i \in 1 .. Len(s) - 1 : t[i] \in Nodes \ {guard}
  BY <1>1 DEF Removed
<1>3. t \in Seq(Nodes \ {guard}) /\ Len(t) = Len(s) - 1
  BY <1>1, <1>2 DEF Removed
<1>4. Distinct(t)
  BY <1>1, <1>3 DEF Removed, Distinct
<1> QED
  BY <1>3, <1>4

\* Where the nodes of the ring are behind a deletion.
LEMMA RemovedAt ==
  ASSUME NEW guard \in Nodes, NEW s \in Seq(Nodes \ {guard}), Distinct(s), NEW k \in 1 .. Len(s)
  PROVE  \A i \in 0 .. Len(s) :
           At(guard, Removed(s, k), i) = IF i < k THEN At(guard, s, i) ELSE At(guard, s, i + 1)
<1>1. Len(s) \in Nat
  OBVIOUS
<1>2. Len(Removed(s, k)) = Len(s) - 1
  BY RemovedOK
<1> QED
  BY <1>1, <1>2 DEF At, Removed

\* ListDelete takes the node it is given out of the ring, first, last, only one
\* or in the middle, and leaves the others in their order.
THEOREM DeleteRemoves ==
  ASSUME NEW l \in Links, NEW guard \in Nodes, NEW s, Holds(l, guard, s), NEW k \in 1 .. Len(s)
  PROVE  Holds(ListDelete(l, s[k]), guard, Removed(s, k))
<1> DEFINE t == Removed(s, k)
           a(i) == At(guard, s, i)
           m == ListDelete(l, s[k])
<1>1. /\ s \in Seq(Nodes \ {guard}) /\ Distinct(s) /\ Len(s) \in Nat
      /\ \A i \in 0 .. Len(s) : l.next[a(i)] = a(i + 1) /\ l.prev[a(i + 1)] = a(i)
  BY DEF Holds
<1>2. t \in Seq(Nodes \ {guard}) /\ Len(t) = Len(s) - 1 /\ Distinct(t)
  BY <1>1, RemovedOK
<1>3. \A i \in 0 .. Len(s) : At(guard, t, i) = IF i < k THEN a(i) ELSE a(i + 1)
  BY <1>1, RemovedAt
<1>4. \A i \in Int : a(i) \in Nodes
  BY <1>1, RingNodes
<1>5. /\ \A i, j \in 0 .. Len(s) : a(i) = a(j) => i = j
      /\ \A i, j \in 1 .. Len(s) + 1 : a(i) = a(j) => i = j
  BY <1>1, RingDistinct
<1>6. s[k] = a(k) /\ k \in Int /\ k - 1 \in 0 .. Len(s) /\ k \in 0 .. Len(s)
  BY <1>1 DEF At
<1>7. /\ \A n \in Nodes : m.next[n] = IF n = a(k - 1) THEN a(k + 1) ELSE l.next[n]
      /\ \A n \in Nodes : m.prev[n] = IF n = a(k + 1) THEN a(k - 1) ELSE l.prev[n]
  <2>1. k - 1 + 1 = k
    BY <1>6
  <2>2. l.next[a(k)] = a(k + 1) /\ l.prev[a(k)] = a(k - 1)
    BY <2>1, <1>1, <1>6
  <2> QED
    BY <2>2, <1>4, <1>6 DEF ListDelete, Links
<1> HIDE DEF m, t, a
<1>8. \A i \in 0 .. Len(t) :
        /\ i \in 0 .. Len(s) /\ i + 1 \in 0 .. Len(s)
        /\ i + 1 \in 1 .. Len(s) + 1 /\ i + 2 \in 1 .. Len(s) + 1 /\ i + 1 + 1 = i + 2
  BY <1>1, <1>2, <1>6
<1>9. ASSUME NEW i \in 0 .. Len(t)
      PROVE  m.next[At(guard, t, i)] = At(guard, t, i + 1) /\ m.prev[At(guard, t, i + 1)] = At(guard, t, i)
  <2>1. CASE i < k - 1
    <3>1. At(guard, t, i) = a(i) /\ At(guard, t, i + 1) = a(i + 1)
      BY <2>1, <1>3, <1>6, <1>8
    <3>2. a(i) # a(k - 1) /\ a(i + 1) # a(k + 1)
      BY <2>1, <1>1, <1>5, <1>6, <1>8
    <3> QED
      BY <3>1, <3>2, <1>1, <1>4, <1>7, <1>8
  <2>2. CASE i = k - 1
    <3>1. At(guard, t, i) = a(k - 1) /\ At(guard, t, i + 1) = a(k + 1)
      BY <2>2, <1>3, <1>6, <1>8
    <3> QED
      BY <3>1, <1>4, <1>6, <1>7
  <2>3. CASE i > k - 1
    <3>1. At(guard, t, i) = a(i + 1) /\ At(guard, t, i + 1) = a(i + 2)
      BY <2>3, <1>3, <1>6, <1>8
    <3>2. a(i + 1) # a(k - 1) /\ a(i + 2) # a(k + 1)
      BY <2>3, <1>1, <1>5, <1>6, <1>8
    <3>3. l.next[a(i + 1)] = a(i + 2) /\ l.prev[a(i + 2)] = a(i + 1)
      BY <1>1, <1>8
    <3> QED
      BY <3>1, <3>2, <3>3, <1>4, <1>7, <1>8
  <2> QED
    BY <2>1, <2>2, <2>3, <1>6, <1>8
<1> QED
  BY <1>2, <1>9 DEF Holds, m, t, a

-----------------------------------------------------------------------------
\* QueuePush appends: it inserts behind the node in front of the guard.
THEOREM PushAppends ==
  ASSUME NEW l \in Links, NEW q \in Queues, NEW s, QueueHolds(l, q, s),
         NEW pushed \in Nodes \ {q.guard}, \A i \in 1 .. Len(s) : s[i] # pushed
  PROVE  QueueHolds(QueuePush(l, q, pushed), AfterPush(q), Append(s, pushed))
<1>1. Holds(l, q.guard, s) /\ s \in Seq(Nodes \ {q.guard}) /\ Len(s) \in Nat /\ q.size = Len(s)
  BY DEF QueueHolds, Holds
<1>2. l.prev[q.guard] = At(q.guard, s, Len(s))
  <2>1. l.prev[At(q.guard, s, Len(s) + 1)] = At(q.guard, s, Len(s))
    BY <1>1 DEF Holds
  <2> QED
    BY <2>1, <1>1 DEF At
<1>3. Inserted(s, Len(s), pushed) = Append(s, pushed)
  <2> DEFINE S == Nodes \ {q.guard}
             t == Inserted(s, Len(s), pushed)
  <2>1. t \in Seq(S) /\ Len(t) = Len(s) + 1
    <3>1. q.guard \in Nodes /\ Len(s) \in 0 .. Len(s) /\ Distinct(s)
      BY <1>1 DEF Queues, Holds
    <3> QED
      BY <3>1, <1>1, InsertedOK
  <2>2. Append(s, pushed) \in Seq(S) /\ Len(Append(s, pushed)) = Len(s) + 1
    BY <1>1
  <2>3. \A i \in 1 .. Len(t) : t[i] = Append(s, pushed)[i]
    BY <1>1, <2>1 DEF Inserted
  <2> HIDE DEF t, S
  <2>4. t = Append(s, pushed)
    BY <2>1, <2>2, <2>3, SeqEqual
  <2> QED
    BY <2>4 DEF t
<1>4. Holds(QueuePush(l, q, pushed), q.guard, Inserted(s, Len(s), pushed))
  <2>1. q.guard \in Nodes /\ Len(s) \in 0 .. Len(s)
    BY <1>1 DEF Queues
  <2> QED
    BY <2>1, <1>1, <1>2, AddInsertsBehind DEF QueuePush
<1>5. AfterPush(q).guard = q.guard /\ AfterPush(q).size = Len(s) + 1
  BY <1>1 DEF AfterPush, Queues
<1>6. Len(Append(s, pushed)) = Len(s) + 1
  BY <1>1
<1> QED
  BY <1>3, <1>4, <1>5, <1>6 DEF QueueHolds

\* QUEUE_FRONT is the oldest entry, QueuePop takes just that one out, and an
\* empty queue stays as it is: with PushAppends, first in, first out.
THEOREM PopTakesTheFront ==
  ASSUME NEW l \in Links, NEW q \in Queues, NEW s, QueueHolds(l, q, s)
  PROVE  /\ s = <<>> => QUEUE_FRONT(l, q) = 0 /\ QueuePop(l, q) = l /\ AfterPop(q) = q
         /\ s # <<>> => /\ QUEUE_FRONT(l, q) = Head(s)
                        /\ QueueHolds(QueuePop(l, q), AfterPop(q), Tail(s))
<1>1. Holds(l, q.guard, s) /\ s \in Seq(Nodes \ {q.guard}) /\ Len(s) \in Nat /\ q.size = Len(s)
  BY DEF QueueHolds, Holds
<1>2. CASE s = <<>>
  BY <1>1, <1>2 DEF QUEUE_FRONT, QueuePop, AfterPop
<1>3. CASE s # <<>>
  <2>1. Len(s) > 0 /\ q.size # 0
    BY <1>1, <1>3
  <2>2. l.next[q.guard] = s[1]
    <3>1. l.next[At(q.guard, s, 0)] = At(q.guard, s, 1)
      BY <1>1 DEF Holds
    <3> QED
      BY <3>1, <2>1, <1>1 DEF At
  <2>3. Removed(s, 1) = Tail(s)
    <3> DEFINE S == Nodes \ {q.guard}
               t == Removed(s, 1)
    <3>1. t \in Seq(S) /\ Len(t) = Len(s) - 1
      <4>1. q.guard \in Nodes /\ 1 \in 1 .. Len(s) /\ Distinct(s)
        BY <1>1, <2>1 DEF Queues, Holds
      <4> QED
        BY <4>1, <1>1, RemovedOK
    <3>2. /\ Tail(s) \in Seq(S) /\ Len(Tail(s)) = Len(s) - 1
          /\ \A i \in 1 .. Len(s) - 1 : Tail(s)[i] = s[i + 1]
      BY <1>1, <1>3, HeadTailProperties
    <3>3. \A i \in 1 .. Len(t) : t[i] = Tail(s)[i]
      BY <1>1, <3>1, <3>2 DEF Removed
    <3> HIDE DEF t, S
    <3>4. t = Tail(s)
      BY <3>1, <3>2, <3>3, SeqEqual
    <3> QED
      BY <3>4 DEF t
  <2>4. Holds(QueuePop(l, q), q.guard, Removed(s, 1))
    <3>1. q.guard \in Nodes /\ 1 \in 1 .. Len(s)
      BY <1>1, <2>1 DEF Queues
    <3> QED
      BY <3>1, <1>1, <2>1, <2>2, DeleteRemoves DEF QueuePop
  <2>5. AfterPop(q).guard = q.guard /\ AfterPop(q).size = Len(s) - 1
    BY <1>1, <2>1 DEF AfterPop, Queues
  <2>6. Len(Tail(s)) = Len(s) - 1 /\ Head(s) = s[1]
    BY <1>1, <1>3
  <2> QED
    BY <1>3, <2>1, <2>2, <2>3, <2>4, <2>5, <2>6 DEF QueueHolds, QUEUE_FRONT
<1> QED
  BY <1>2, <1>3
=============================================================================
