---------------------------- MODULE MemoryProofs ----------------------------
(***************************************************************************)
(* The kernel heap, and the memory of processes, its client, for every     *)
(* number of orders, block size, set of request sizes, of programs and of  *)
(* processes.                                                              *)
(*                                                                         *)
(* The heap: kmalloc splits a free block of order "from" down to the order *)
(* it needs; SplitTo is the heap on the way, at order k.  kfree of the     *)
(* last allocation goes the same way back, heap by heap, and stops where   *)
(* kmalloc began because the buddy there is allocated.  So each heap the   *)
(* kernel can be in is one that allocations alone have made of the initial *)
(* one, and the invariant has to be shown of kmalloc only.                 *)
(*                                                                         *)
(* The processes: as long as the heap has room (HeapIsLargeEnough), a fork *)
(* gets three blocks nobody has, and frames nobody has had.  Whatever else *)
(* happens writes to blocks that were free, to the caller's text page or   *)
(* to the processor, so that every process stays as the fork left it.      *)
(***************************************************************************)
EXTENDS ProcessMemory, ArithmeticProofs, FiniteSetTheorems

\* The upper halves that the splits from order "from" to k of a block leave.
Uppers(id, from, k) == {id + pow2[j] : j \in k .. from - 1}

\* The heap h, with the front block of order "from" split down to order k.
SplitTo(h, from, k) ==
  LET id == h.front[from]
  IN  [order       |-> [x \in Ids |-> IF x = id THEN k
                                      ELSE IF x \in Uppers(id, from, k) THEN log2(x - id)
                                      ELSE h.order[x]],
       isAllocated |-> h.isAllocated,
       prev        |-> h.prev,
       next        |-> [x \in Ids |-> IF x = id
                                      THEN IF k = from THEN h.next[id] ELSE id + pow2[k]
                                      ELSE IF x \in Uppers(id, from, k) THEN NULL
                                      ELSE h.next[x]],
       front       |-> [j \in Orders |-> IF j = k THEN id
                                         ELSE IF j \in k + 1 .. from - 1 THEN id + pow2[j]
                                         ELSE IF j = from THEN h.next[id]
                                         ELSE h.front[j]]]

\* The front block of order "from" can be split down to "low" and freed again.
Splittable(h, from, low) ==
  LET id == h.front[from]
  IN  /\ h \in HeapType
      /\ \A x \in Ids : h.prev[x] = NULL
      /\ from \in Orders /\ low \in Orders /\ low <= from
      /\ id \in Ids /\ h.order[id] = from /\ ~h.isAllocated[id]
      /\ \A j \in low .. from - 1 :
           /\ h.front[j] = NULL
           /\ id + pow2[j] \in Ids /\ Buddy(id, j) = id + pow2[j]
           /\ h.order[id + pow2[j]] = 0 /\ ~h.isAllocated[id + pow2[j]]
           /\ h.next[id + pow2[j]] = NULL

\* The block and order numbers are naturals, and NULL is neither.
LEMMA Sizes ==
  /\ KHEAP_BLOCK_NUM \in Nat \ {0}
  /\ Orders \subseteq Nat /\ Ids \subseteq Nat
  /\ NULL \notin Ids
BY KHeapAssumption, PowersOfTwo DEF KHEAP_BLOCK_NUM, Orders, Ids, NULL

\* The upper halves tell their order.
LEMMA LogOfPower ==
  ASSUME NEW j \in Nat
  PROVE  log2(pow2[j]) = j
<1>1. pow2[j] \in Nat \ {0}
  BY PowersOfTwo
<1> DEFINE r == log2(pow2[j])
<1>2. r \in Nat /\ pow2[r] <= pow2[j] /\ pow2[j] < pow2[r + 1]
  BY <1>1, Log2Is
<1> HIDE DEF r
<1>3. pow2[r] \in Nat \ {0} /\ pow2[r + 1] \in Nat \ {0}
  BY <1>2, PowersOfTwo
<1>4. CASE r < j
  <2>1. pow2[r + 1] <= pow2[j]
    BY <1>2, <1>4, PowersGrow
  <2> QED
    BY <2>1, <1>1, <1>2, <1>3
<1>5. CASE j < r
  <2>1. 2 * pow2[j] <= pow2[r]
    BY <1>2, <1>5, PowersGrow
  <2> QED
    BY <2>1, <1>1, <1>2, <1>3
<1> QED
  BY <1>2, <1>4, <1>5 DEF r

\* One split more leaves one upper half more, which tells its order.
LEMMA UppersGrow ==
  ASSUME NEW id \in Nat, NEW from \in Nat, NEW k \in Nat, k < from
  PROVE  /\ Uppers(id, from, k) = Uppers(id, from, k + 1) \cup {id + pow2[k]}
         /\ id + pow2[k] \notin Uppers(id, from, k + 1)
         /\ id \notin Uppers(id, from, k)
         /\ id + pow2[k] # id /\ log2((id + pow2[k]) - id) = k
         /\ Uppers(id, from, from) = {}
<1>1. \A j \in Nat : pow2[j] \in Nat \ {0}
  BY PowersOfTwo
<1>2. k .. from - 1 = (k + 1 .. from - 1) \cup {k}
  OBVIOUS
<1>3. Uppers(id, from, k) = Uppers(id, from, k + 1) \cup {id + pow2[k]}
  BY <1>2 DEF Uppers
<1>4. id + pow2[k] \notin Uppers(id, from, k + 1)
  <2> SUFFICES ASSUME NEW j \in k + 1 .. from - 1, id + pow2[k] = id + pow2[j]
               PROVE  FALSE
    BY DEF Uppers
  <2>1. pow2[j] = pow2[k] /\ j \in Nat /\ k < j
    BY <1>1
  <2>2. 2 * pow2[k] <= pow2[j]
    BY <2>1, PowersGrow
  <2> QED
    BY <2>1, <2>2, <1>1
<1>5. id \notin Uppers(id, from, k)
  <2> SUFFICES ASSUME NEW j \in k .. from - 1, id = id + pow2[j]
               PROVE  FALSE
    BY DEF Uppers
  <2>1. pow2[j] \in Nat \ {0}
    BY <1>1
  <2> QED
    BY <2>1
<1>6. id + pow2[k] # id /\ (id + pow2[k]) - id = pow2[k]
  BY <1>1
<1>7. from .. from - 1 = {}
  OBVIOUS
<1>8. Uppers(id, from, from) = {}
  BY <1>7 DEF Uppers
<1> QED
  BY <1>3, <1>4, <1>5, <1>6, <1>8, LogOfPower

\* Where no block has a prev, and the block is the front of its list, what the
\* list operations leave of a heap.
LEMMA DeleteFront ==
  ASSUME NEW h \in HeapType, \A x \in Ids : h.prev[x] = NULL, NEW o, NEW id \in Ids
  PROVE  DeleteFromkHeapOrder(h, o, id) =
           [order       |-> [h.order EXCEPT ![id] = 0],
            isAllocated |-> [h.isAllocated EXCEPT ![id] = FALSE],
            prev        |-> h.prev,
            next        |-> [h.next EXCEPT ![id] = NULL],
            front       |-> [h.front EXCEPT ![o] = h.next[id]]]
<1> DEFINE n == h.next[id]
<1>1. /\ h.prev \in [Ids -> Ids \cup {NULL}] /\ h.next \in [Ids -> Ids \cup {NULL}]
      /\ n \in Ids \cup {NULL} /\ h.prev[id] = NULL /\ id # NULL
  BY Sizes DEF HeapType
<1>2. Assign(h.prev, n, NULL) = h.prev
  <2>1. CASE n = NULL
    BY <2>1 DEF Assign
  <2>2. CASE n # NULL
    <3>1. n \in Ids /\ h.prev[n] = NULL
      BY <1>1, <2>2
    <3> HIDE DEF n
    <3>2. [h.prev EXCEPT ![n] = NULL] = h.prev
      BY <1>1, <3>1
    <3> QED
      BY <2>2, <3>2 DEF Assign
  <2> QED
    BY <2>1, <2>2
<1>3. Assign(h.prev, id, NULL) = h.prev
  <2>1. [h.prev EXCEPT ![id] = NULL] = h.prev
    BY <1>1
  <2> QED
    BY <2>1, <1>1 DEF Assign
<1>4. Assign(Assign(h.next, NULL, n), id, NULL) = [h.next EXCEPT ![id] = NULL]
  BY <1>1 DEF Assign
<1> HIDE DEF n
<1> QED
  BY <1>1, <1>2, <1>3, <1>4 DEF DeleteFromkHeapOrder, n

\* Where no block has a predecessor, adding one only changes the front of its list.
LEMMA AddFront ==
  ASSUME NEW h, h.prev \in [Ids -> Ids \cup {NULL}], \A x \in Ids : h.prev[x] = NULL,
         NEW o, NEW id \in Ids
  PROVE  AddTokHeapOrder(h, o, id) =
           [order       |-> [h.order EXCEPT ![id] = o],
            isAllocated |-> [h.isAllocated EXCEPT ![id] = FALSE],
            prev        |-> h.prev,
            next        |-> [h.next EXCEPT ![id] = h.front[o]],
            front       |-> [h.front EXCEPT ![o] = id]]
<1>1. [h.prev EXCEPT ![id] = NULL] = h.prev
  OBVIOUS
<1> QED
  BY <1>1 DEF AddTokHeapOrder

\* Two heaps are the same when their fields are.
LEMMA SameHeap ==
  ASSUME NEW a1, NEW b1, NEW c1, NEW d1, NEW e1, NEW a2, NEW b2, NEW c2, NEW d2, NEW e2,
         a1 = a2, b1 = b2, c1 = c2, d1 = d2, e1 = e2
  PROVE  [order |-> a1, isAllocated |-> b1, prev |-> c1, next |-> d1, front |-> e1]
           = [order |-> a2, isAllocated |-> b2, prev |-> c2, next |-> d2, front |-> e2]
  OBVIOUS

\* SplitTo yields a heap, the one it began with if nothing is split.
LEMMA SplitToType ==
  ASSUME NEW h, NEW from, NEW low, Splittable(h, from, low), NEW k \in low .. from
  PROVE  SplitTo(h, from, k) \in HeapType
<1> DEFINE id == h.front[from]
           g  == SplitTo(h, from, k)
<1>1. /\ h \in HeapType /\ from \in Orders /\ low \in Orders /\ id \in Ids
      /\ \A j \in low .. from - 1 : id + pow2[j] \in Ids
  BY DEF Splittable
<1>2. k \in Orders /\ low \in Nat /\ from \in Nat /\ k \in Nat /\ id \in Nat
      /\ \A j \in k .. from - 1 : j \in low .. from - 1 /\ j \in Orders /\ j \in Nat
      /\ 0 \in Orders
  <2>1. from \in Nat /\ low \in Nat /\ from <= KHEAP_MAX_ORDER /\ id \in Nat
    <3>1. id \in Nat
      BY <1>1, Sizes
    <3>2. from \in 0 .. KHEAP_MAX_ORDER /\ low \in 0 .. KHEAP_MAX_ORDER
      BY <1>1 DEF Orders
    <3> QED
      BY <3>1, <3>2, KHeapAssumption
  <2>2. k \in Nat /\ low <= k /\ k <= from
    BY <2>1
  <2> QED
    BY <2>1, <2>2, KHeapAssumption DEF Orders
<1>3. /\ h.order \in [Ids -> Orders] /\ h.isAllocated \in [Ids -> BOOLEAN]
      /\ h.prev \in [Ids -> Ids \cup {NULL}] /\ h.next \in [Ids -> Ids \cup {NULL}]
      /\ h.front \in [Orders -> Ids \cup {NULL}]
  BY <1>1 DEF HeapType
<1>4. ASSUME NEW x \in Uppers(id, from, k)
      PROVE  log2(x - id) \in Orders
  <2>1. PICK j \in k .. from - 1 : x = id + pow2[j]
    BY DEF Uppers
  <2>2. x - id = pow2[j]
    BY <2>1, <1>2, PowersOfTwo
  <2> QED
    BY <2>2, <1>2, LogOfPower
<1>5. g.order \in [Ids -> Orders]
  BY <1>2, <1>3, <1>4 DEF SplitTo
<1>6. g.next \in [Ids -> Ids \cup {NULL}]
  <2>1. k # from => id + pow2[k] \in Ids
    <3>1. k # from => k \in low .. from - 1
      BY <1>2
    <3> QED
      BY <3>1, <1>1
  <2>2. \A x \in Ids : g.next[x] \in Ids \cup {NULL}
    BY <2>1, <1>1, <1>3 DEF SplitTo
  <2> QED
    BY <2>2 DEF SplitTo
<1>7. g.front \in [Orders -> Ids \cup {NULL}]
  <2>1. \A j \in k + 1 .. from - 1 : id + pow2[j] \in Ids
    BY <1>1, <1>2
  <2>2. \A j \in Orders : g.front[j] \in Ids \cup {NULL}
    BY <2>1, <1>1, <1>3 DEF SplitTo
  <2> QED
    BY <2>2 DEF SplitTo
<1> QED
  BY <1>3, <1>5, <1>6, <1>7 DEF SplitTo, HeapType

\* Before the first split the heap is as it was.
LEMMA SplitToNothing ==
  ASSUME NEW h, NEW from, NEW low, Splittable(h, from, low)
  PROVE  SplitTo(h, from, from) = h
<1> DEFINE id == h.front[from]
<1>1. /\ h \in HeapType /\ from \in Orders /\ id \in Ids /\ h.order[id] = from
  BY DEF Splittable
<1>2. from \in Nat /\ from .. from - 1 = {} /\ from + 1 .. from - 1 = {}
  BY <1>1, Sizes
<1>3. Uppers(id, from, from) = {}
  BY <1>2 DEF Uppers
<1>4. /\ h.order \in [Ids -> Orders] /\ h.next \in [Ids -> Ids \cup {NULL}]
      /\ h.front \in [Orders -> Ids \cup {NULL}]
      /\ h = [order |-> h.order, isAllocated |-> h.isAllocated, prev |-> h.prev,
              next |-> h.next, front |-> h.front]
  BY <1>1 DEF HeapType
<1>5. h.order = [x \in Ids |-> IF x = id THEN from
                               ELSE IF x \in Uppers(id, from, from) THEN log2(x - id)
                               ELSE h.order[x]]
  BY <1>1, <1>3, <1>4
<1>6. h.next = [x \in Ids |-> IF x = id
                              THEN IF from = from THEN h.next[id] ELSE id + pow2[from]
                              ELSE IF x \in Uppers(id, from, from) THEN NULL
                              ELSE h.next[x]]
  BY <1>1, <1>3, <1>4
<1>7. h.front = [j \in Orders |-> IF j = from THEN id
                                  ELSE IF j \in from + 1 .. from - 1 THEN id + pow2[j]
                                  ELSE IF j = from THEN h.next[id]
                                  ELSE h.front[j]]
  BY <1>1, <1>2, <1>4
<1>8. SplitTo(h, from, from) =
        [order |-> h.order, isAllocated |-> h.isAllocated, prev |-> h.prev,
         next |-> h.next, front |-> h.front]
  <2> DEFINE a == [x \in Ids |-> IF x = id THEN from
                                ELSE IF x \in Uppers(id, from, from) THEN log2(x - id)
                                ELSE h.order[x]]
             d == [x \in Ids |-> IF x = id
                                THEN IF from = from THEN h.next[id] ELSE id + pow2[from]
                                ELSE IF x \in Uppers(id, from, from) THEN NULL
                                ELSE h.next[x]]
             e == [j \in Orders |-> IF j = from THEN id
                                   ELSE IF j \in from + 1 .. from - 1 THEN id + pow2[j]
                                   ELSE IF j = from THEN h.next[id]
                                   ELSE h.front[j]]
  <2>1. h.order = a /\ h.next = d /\ h.front = e
    BY <1>5, <1>6, <1>7
  <2>2. SplitTo(h, from, from) = [order |-> a, isAllocated |-> h.isAllocated, prev |-> h.prev,
                                  next |-> d, front |-> e]
    BY DEF SplitTo
  <2> HIDE DEF a, d, e
  <2> QED
    BY <2>1, <2>2
<1> QED
  BY <1>4, <1>8

\* The fields on the way, with the names the steps below use.
LEMMA SplitToFields ==
  ASSUME NEW h, NEW from, NEW low, Splittable(h, from, low), NEW k \in low .. from
  PROVE  LET id == h.front[from]
             g  == SplitTo(h, from, k)
         IN  /\ g \in HeapType /\ \A x \in Ids : g.prev[x] = NULL
             /\ g = [order |-> g.order, isAllocated |-> h.isAllocated, prev |-> h.prev,
                     next |-> g.next, front |-> g.front]
             /\ g.order \in [Ids -> Orders] /\ g.next \in [Ids -> Ids \cup {NULL}]
             /\ g.front \in [Orders -> Ids \cup {NULL}]
             /\ \A x \in Ids : g.order[x] = IF x = id THEN k
                                            ELSE IF x \in Uppers(id, from, k) THEN log2(x - id)
                                            ELSE h.order[x]
             /\ \A x \in Ids : g.next[x] =
                  IF x = id THEN IF k = from THEN h.next[id] ELSE id + pow2[k]
                  ELSE IF x \in Uppers(id, from, k) THEN NULL ELSE h.next[x]
             /\ \A j \in Orders : g.front[j] =
                  IF j = k THEN id ELSE IF j \in k + 1 .. from - 1 THEN id + pow2[j]
                  ELSE IF j = from THEN h.next[id] ELSE h.front[j]
<1>1. SplitTo(h, from, k) \in HeapType
  BY SplitToType
<1>2. \A x \in Ids : h.prev[x] = NULL
  BY DEF Splittable
<1> QED
  BY <1>1, <1>2 DEF SplitTo, HeapType

\* One more split.
LEMMA SplitStep ==
  ASSUME NEW h, NEW from, NEW low, Splittable(h, from, low), NEW k \in low .. from - 1
  PROVE  Split(SplitTo(h, from, k + 1), k + 1) = SplitTo(h, from, k)
<1> DEFINE id == h.front[from]
           up == id + pow2[k]
           g  == SplitTo(h, from, k + 1)
           r  == SplitTo(h, from, k)
           d  == DeleteFromkHeapOrder(g, k + 1, id)
           e  == AddTokHeapOrder(d, k, up)
           f  == AddTokHeapOrder(e, k, id)
<1>1. /\ h \in HeapType /\ from \in Orders /\ low \in Orders /\ id \in Ids /\ up \in Ids
      /\ h.front[k] = NULL /\ ~h.isAllocated[id] /\ ~h.isAllocated[up]
  BY DEF Splittable
<1>2. /\ from \in Nat /\ low \in Nat /\ id \in Nat /\ up \in Nat
      /\ from \in 0 .. KHEAP_MAX_ORDER /\ low \in 0 .. KHEAP_MAX_ORDER
  BY <1>1, Sizes DEF Orders
<1>3. /\ k \in Nat /\ k < from /\ k \in low .. from /\ k + 1 \in low .. from
      /\ (k + 1) - 1 = k
  BY <1>2
<1>4. k \in Orders /\ k + 1 \in Orders
  BY <1>2, <1>3, KHeapAssumption DEF Orders
<1>5. /\ Uppers(id, from, k) = Uppers(id, from, k + 1) \cup {up}
      /\ up \notin Uppers(id, from, k + 1) /\ id \notin Uppers(id, from, k)
      /\ up # id /\ log2(up - id) = k
  BY <1>2, <1>3, UppersGrow
<1>6. /\ g \in HeapType /\ \A x \in Ids : g.prev[x] = NULL
      /\ g = [order |-> g.order, isAllocated |-> h.isAllocated, prev |-> h.prev,
              next |-> g.next, front |-> g.front]
      /\ g.order \in [Ids -> Orders] /\ g.next \in [Ids -> Ids \cup {NULL}]
      /\ g.front \in [Orders -> Ids \cup {NULL}]
      /\ \A x \in Ids : g.order[x] = IF x = id THEN k + 1
                                     ELSE IF x \in Uppers(id, from, k + 1) THEN log2(x - id)
                                     ELSE h.order[x]
      /\ \A x \in Ids : g.next[x] =
           IF x = id THEN IF k + 1 = from THEN h.next[id] ELSE id + pow2[k + 1]
           ELSE IF x \in Uppers(id, from, k + 1) THEN NULL ELSE h.next[x]
      /\ \A j \in Orders : g.front[j] =
           IF j = k + 1 THEN id ELSE IF j \in (k + 1) + 1 .. from - 1 THEN id + pow2[j]
           ELSE IF j = from THEN h.next[id] ELSE h.front[j]
  BY <1>3, SplitToFields
<1>7. /\ r = [order |-> r.order, isAllocated |-> h.isAllocated, prev |-> h.prev,
              next |-> r.next, front |-> r.front]
      /\ r.order \in [Ids -> Orders] /\ r.next \in [Ids -> Ids \cup {NULL}]
      /\ r.front \in [Orders -> Ids \cup {NULL}]
      /\ \A x \in Ids : r.order[x] = IF x = id THEN k
                                     ELSE IF x \in Uppers(id, from, k) THEN log2(x - id)
                                     ELSE h.order[x]
      /\ \A x \in Ids : r.next[x] =
           IF x = id THEN IF k = from THEN h.next[id] ELSE id + pow2[k]
           ELSE IF x \in Uppers(id, from, k) THEN NULL ELSE h.next[x]
      /\ \A j \in Orders : r.front[j] =
           IF j = k THEN id ELSE IF j \in k + 1 .. from - 1 THEN id + pow2[j]
           ELSE IF j = from THEN h.next[id] ELSE h.front[j]
  BY <1>3, SplitToFields
<1>8. h.isAllocated \in [Ids -> BOOLEAN] /\ h.isAllocated[id] = FALSE
      /\ h.isAllocated[up] = FALSE
      /\ h.prev \in [Ids -> Ids \cup {NULL}] /\ \A x \in Ids : h.prev[x] = NULL
  BY <1>1 DEF HeapType, Splittable
<1>9. Split(g, k + 1) = f
  <2>1. g.front[k + 1] = id
    BY <1>4, <1>6
  <2> HIDE DEF g, id
  <2> QED
    BY <2>1, <1>3 DEF Split
<1> HIDE DEF g, r, id
<1>10. d = [order       |-> [g.order EXCEPT ![id] = 0],
            isAllocated |-> [h.isAllocated EXCEPT ![id] = FALSE],
            prev        |-> h.prev,
            next        |-> [g.next EXCEPT ![id] = NULL],
            front       |-> [g.front EXCEPT ![k + 1] = g.next[id]]]
  <2>1. g.isAllocated = h.isAllocated /\ g.prev = h.prev
    BY <1>6
  <2>2. d = [order       |-> [g.order EXCEPT ![id] = 0],
             isAllocated |-> [g.isAllocated EXCEPT ![id] = FALSE],
             prev        |-> g.prev,
             next        |-> [g.next EXCEPT ![id] = NULL],
             front       |-> [g.front EXCEPT ![k + 1] = g.next[id]]]
    BY <1>1, <1>6, DeleteFront
  <2> HIDE DEF d
  <2> QED
    BY <2>1, <2>2
<1> HIDE DEF d, up
<1>11. e = [order       |-> [[g.order EXCEPT ![id] = 0] EXCEPT ![up] = k],
            isAllocated |-> [[h.isAllocated EXCEPT ![id] = FALSE] EXCEPT ![up] = FALSE],
            prev        |-> h.prev,
            next        |-> [[g.next EXCEPT ![id] = NULL] EXCEPT ![up] = d.front[k]],
            front       |-> [[g.front EXCEPT ![k + 1] = g.next[id]] EXCEPT ![k] = up]]
  <2>1. d.prev = h.prev
    BY <1>10
  <2>2. e = [order       |-> [d.order EXCEPT ![up] = k],
             isAllocated |-> [d.isAllocated EXCEPT ![up] = FALSE],
             prev        |-> d.prev,
             next        |-> [d.next EXCEPT ![up] = d.front[k]],
             front       |-> [d.front EXCEPT ![k] = up]]
    BY <2>1, <1>1, <1>8, AddFront
  <2> HIDE DEF e
  <2> QED
    BY <2>2, <1>10
<1>12. d.front[k] = NULL
  BY <1>1, <1>2, <1>3, <1>4, <1>6, <1>10
<1> HIDE DEF e
<1>13. f = [order       |-> [[[g.order EXCEPT ![id] = 0] EXCEPT ![up] = k] EXCEPT ![id] = k],
            isAllocated |-> [[[h.isAllocated EXCEPT ![id] = FALSE] EXCEPT ![up] = FALSE]
                               EXCEPT ![id] = FALSE],
            prev        |-> h.prev,
            next        |-> [[[g.next EXCEPT ![id] = NULL] EXCEPT ![up] = NULL]
                               EXCEPT ![id] = up],
            front       |-> [[[g.front EXCEPT ![k + 1] = g.next[id]] EXCEPT ![k] = up]
                               EXCEPT ![k] = id]]
  <2>1. e.prev = h.prev /\ e.front[k] = up
    BY <1>4, <1>6, <1>11
  <2>2. f = [order       |-> [e.order EXCEPT ![id] = k],
             isAllocated |-> [e.isAllocated EXCEPT ![id] = FALSE],
             prev        |-> e.prev,
             next        |-> [e.next EXCEPT ![id] = e.front[k]],
             front       |-> [e.front EXCEPT ![k] = id]]
    BY <2>1, <1>1, <1>8, AddFront
  <2> HIDE DEF f
  <2> QED
    BY <2>1, <2>2, <1>11, <1>12
<1> HIDE DEF f
<1>14. [[[g.order EXCEPT ![id] = 0] EXCEPT ![up] = k] EXCEPT ![id] = k] = r.order
  <2> DEFINE w == [[[g.order EXCEPT ![id] = 0] EXCEPT ![up] = k] EXCEPT ![id] = k]
  <2>1. ASSUME NEW x \in Ids
        PROVE  w[x] = r.order[x]
    BY <1>1, <1>5, <1>6, <1>7
  <2>2. w = [x \in Ids |-> w[x]] /\ r.order = [x \in Ids |-> r.order[x]]
    BY <1>6, <1>7
  <2> HIDE DEF w
  <2>3. w = r.order
    BY <2>1, <2>2
  <2> QED
    BY <2>3 DEF w
<1>15. [[[h.isAllocated EXCEPT ![id] = FALSE] EXCEPT ![up] = FALSE] EXCEPT ![id] = FALSE]
         = h.isAllocated
  BY <1>1, <1>8
<1>16. [[[g.next EXCEPT ![id] = NULL] EXCEPT ![up] = NULL] EXCEPT ![id] = up] = r.next
  <2> DEFINE w == [[[g.next EXCEPT ![id] = NULL] EXCEPT ![up] = NULL] EXCEPT ![id] = up]
  <2>1. ASSUME NEW x \in Ids
        PROVE  w[x] = r.next[x]
    <3>1. CASE x = id
      <4>1. k # from /\ r.next[id] = up
        BY <1>1, <1>2, <1>3, <1>7 DEF up
      <4> QED
        BY <3>1, <4>1, <1>1, <1>6
    <3>2. CASE x # id
      BY <3>2, <1>1, <1>5, <1>6, <1>7
    <3> QED
      BY <3>1, <3>2
  <2>2. w = [x \in Ids |-> w[x]] /\ r.next = [x \in Ids |-> r.next[x]]
    BY <1>6, <1>7
  <2> HIDE DEF w
  <2>3. w = r.next
    BY <2>1, <2>2
  <2> QED
    BY <2>3 DEF w
<1>17. [[[g.front EXCEPT ![k + 1] = g.next[id]] EXCEPT ![k] = up] EXCEPT ![k] = id] = r.front
  <2> DEFINE w == [[[g.front EXCEPT ![k + 1] = g.next[id]] EXCEPT ![k] = up] EXCEPT ![k] = id]
  <2>1. ASSUME NEW j \in Orders
        PROVE  w[j] = r.front[j]
    <3>1. g.next[id] = IF k + 1 = from THEN h.next[id] ELSE id + pow2[k + 1]
      BY <1>1, <1>6
    <3>2. j \in Nat /\ from \in Nat
      BY <1>2, Sizes
    <3>3. CASE j = k
      BY <3>3, <1>4, <1>6, <1>7
    <3>4. CASE j = k + 1
      BY <3>1, <3>2, <3>4, <1>3, <1>4, <1>6, <1>7
    <3>5. CASE j # k /\ j # k + 1
      <4>1. w[j] = g.front[j]
        BY <3>5, <1>4, <1>6
      <4>2. j \in k + 1 .. from - 1 <=> j \in (k + 1) + 1 .. from - 1
        BY <3>2, <3>5, <1>3
      <4> QED
        BY <3>5, <4>1, <4>2, <1>6, <1>7
    <3> QED
      BY <3>3, <3>4, <3>5
  <2>2. w = [j \in Orders |-> w[j]] /\ r.front = [j \in Orders |-> r.front[j]]
    BY <1>6, <1>7
  <2> HIDE DEF w
  <2>3. w = r.front
    BY <2>1, <2>2
  <2> QED
    BY <2>3 DEF w
<1>18. f = r
  BY <1>7, <1>13, <1>14, <1>15, <1>16, <1>17
<1>19. Split(g, k + 1) = r
  BY <1>9, <1>18
<1> QED
  BY <1>19 DEF g, r

\* The heap that kmalloc leaves.
Taken(h, from, o) ==
  LET id == h.front[from]
      g  == SplitTo(h, from, o)
  IN  [order       |-> g.order,
       isAllocated |-> [h.isAllocated EXCEPT ![id] = TRUE],
       prev        |-> h.prev,
       next        |-> [g.next EXCEPT ![id] = NULL],
       front       |-> [g.front EXCEPT ![o] = g.next[id]]]

\* Its last steps: the front of the order it asked for is taken.
LEMMA TakenIs ==
  ASSUME NEW h, NEW from, NEW o, Splittable(h, from, o)
  PROVE  LET id == h.front[from]
             d  == DeleteFromkHeapOrder(SplitTo(h, from, o), o, id)
         IN  MarkAllocated(d, o, id) = Taken(h, from, o)
<1> DEFINE id == h.front[from]
           g  == SplitTo(h, from, o)
           d  == DeleteFromkHeapOrder(g, o, id)
<1>1. h \in HeapType /\ id \in Ids /\ from \in Orders /\ o \in Orders /\ o <= from
  BY DEF Splittable
<1>2. o \in o .. from
  BY <1>1, Sizes
<1>3. /\ g \in HeapType /\ \A x \in Ids : g.prev[x] = NULL
      /\ g = [order |-> g.order, isAllocated |-> h.isAllocated, prev |-> h.prev,
              next |-> g.next, front |-> g.front]
      /\ g.order \in [Ids -> Orders]
      /\ \A x \in Ids : g.order[x] = IF x = id THEN o
                                     ELSE IF x \in Uppers(id, from, o) THEN log2(x - id)
                                     ELSE h.order[x]
  BY <1>2, SplitToFields
<1>4. h.isAllocated \in [Ids -> BOOLEAN]
  BY <1>1 DEF HeapType
<1> HIDE DEF g, id
<1>5. g.isAllocated = h.isAllocated /\ g.prev = h.prev /\ g.order[id] = o
  BY <1>1, <1>3
<1>6. d = [order       |-> [g.order EXCEPT ![id] = 0],
           isAllocated |-> [h.isAllocated EXCEPT ![id] = FALSE],
           prev        |-> h.prev,
           next        |-> [g.next EXCEPT ![id] = NULL],
           front       |-> [g.front EXCEPT ![o] = g.next[id]]]
  <2>1. d = [order       |-> [g.order EXCEPT ![id] = 0],
             isAllocated |-> [g.isAllocated EXCEPT ![id] = FALSE],
             prev        |-> g.prev,
             next        |-> [g.next EXCEPT ![id] = NULL],
             front       |-> [g.front EXCEPT ![o] = g.next[id]]]
    BY <1>1, <1>3, DeleteFront
  <2> HIDE DEF d
  <2> QED
    BY <2>1, <1>5
<1> HIDE DEF d
<1>7. MarkAllocated(d, o, id) =
        [order       |-> [[g.order EXCEPT ![id] = 0] EXCEPT ![id] = o],
         isAllocated |-> [[h.isAllocated EXCEPT ![id] = FALSE] EXCEPT ![id] = TRUE],
         prev        |-> h.prev,
         next        |-> [g.next EXCEPT ![id] = NULL],
         front       |-> [g.front EXCEPT ![o] = g.next[id]]]
  <2>1. d = [order |-> [g.order EXCEPT ![id] = 0],
             isAllocated |-> [h.isAllocated EXCEPT ![id] = FALSE], prev |-> h.prev,
             next |-> [g.next EXCEPT ![id] = NULL],
             front |-> [g.front EXCEPT ![o] = g.next[id]]]
    BY <1>6
  <2> QED
    BY <2>1 DEF MarkAllocated
<1>8. [[g.order EXCEPT ![id] = 0] EXCEPT ![id] = o] = g.order
  BY <1>1, <1>3, <1>5
<1>9. [[h.isAllocated EXCEPT ![id] = FALSE] EXCEPT ![id] = TRUE]
        = [h.isAllocated EXCEPT ![id] = TRUE]
  BY <1>1, <1>4
<1>10. MarkAllocated(d, o, id) = Taken(h, from, o)
  BY <1>7, <1>8, <1>9 DEF Taken, g, id
<1> QED
  BY <1>10 DEF d, g, id

\* The first step of kfree puts the block back where it was taken.
LEMMA PutBack ==
  ASSUME NEW h, NEW from, NEW o, Splittable(h, from, o)
  PROVE  AddTokHeapOrder(Taken(h, from, o), o, h.front[from]) = SplitTo(h, from, o)
<1> DEFINE id == h.front[from]
           g  == SplitTo(h, from, o)
           t  == Taken(h, from, o)
<1>1. /\ h \in HeapType /\ id \in Ids /\ from \in Orders /\ o \in Orders /\ o <= from
      /\ \A x \in Ids : h.prev[x] = NULL
      /\ ~h.isAllocated[id]
  BY DEF Splittable
<1>2. o \in o .. from
  BY <1>1, Sizes
<1>3. /\ g = [order |-> g.order, isAllocated |-> h.isAllocated, prev |-> h.prev,
              next |-> g.next, front |-> g.front]
      /\ g.order \in [Ids -> Orders] /\ g.next \in [Ids -> Ids \cup {NULL}]
      /\ g.front \in [Orders -> Ids \cup {NULL}]
      /\ \A x \in Ids : g.order[x] = IF x = id THEN o
                                     ELSE IF x \in Uppers(id, from, o) THEN log2(x - id)
                                     ELSE h.order[x]
      /\ \A j \in Orders : g.front[j] =
           IF j = o THEN id ELSE IF j \in o + 1 .. from - 1 THEN id + pow2[j]
           ELSE IF j = from THEN h.next[id] ELSE h.front[j]
  BY <1>2, SplitToFields
<1>4. h.isAllocated \in [Ids -> BOOLEAN] /\ h.prev \in [Ids -> Ids \cup {NULL}]
  BY <1>1 DEF HeapType
<1>5. t = [order       |-> g.order,
           isAllocated |-> [h.isAllocated EXCEPT ![id] = TRUE],
           prev        |-> h.prev,
           next        |-> [g.next EXCEPT ![id] = NULL],
           front       |-> [g.front EXCEPT ![o] = g.next[id]]]
  BY DEF Taken
<1> HIDE DEF g, id, t
<1>6. AddTokHeapOrder(t, o, id) =
        [order       |-> [t.order EXCEPT ![id] = o],
         isAllocated |-> [t.isAllocated EXCEPT ![id] = FALSE],
         prev        |-> t.prev,
         next        |-> [t.next EXCEPT ![id] = t.front[o]],
         front       |-> [t.front EXCEPT ![o] = id]]
  <2>1. t.prev = h.prev
    BY <1>5
  <2> QED
    BY <2>1, <1>1, <1>4, AddFront
<1>7. [t.order EXCEPT ![id] = o] = g.order
  <2>1. [g.order EXCEPT ![id] = o] = g.order
    BY <1>1, <1>3
  <2> QED
    BY <2>1, <1>5
<1>8. [t.isAllocated EXCEPT ![id] = FALSE] = h.isAllocated
  <2>1. [[h.isAllocated EXCEPT ![id] = TRUE] EXCEPT ![id] = FALSE] = h.isAllocated
    BY <1>1, <1>4
  <2> QED
    BY <2>1, <1>5
<1>9. [t.next EXCEPT ![id] = t.front[o]] = g.next
  <2>1. t.front[o] = g.next[id]
    BY <1>1, <1>3, <1>5
  <2>2. [[g.next EXCEPT ![id] = NULL] EXCEPT ![id] = g.next[id]] = g.next
    BY <1>1, <1>3
  <2> QED
    BY <2>1, <2>2, <1>5
<1>10. [t.front EXCEPT ![o] = id] = g.front
  <2>1. [[g.front EXCEPT ![o] = g.next[id]] EXCEPT ![o] = id] = g.front
    BY <1>1, <1>3
  <2> QED
    BY <2>1, <1>5
<1>11. AddTokHeapOrder(t, o, id) = g
  <2>1. t.prev = h.prev
    BY <1>5
  <2> QED
    BY <2>1, <1>3, <1>6, <1>7, <1>8, <1>9, <1>10
<1> QED
  BY <1>11 DEF g, id, t

\* kfree undoes one split.
LEMMA MergeStep ==
  ASSUME NEW h, NEW from, NEW low, Splittable(h, from, low), NEW k \in low .. from - 1
  PROVE  LET id == h.front[from]
             g  == SplitTo(h, from, k)
         IN  /\ MayMerge(g, k, id) /\ MergedId(id, k) = id
             /\ Merge(g, k, id) = SplitTo(h, from, k + 1)
<1> DEFINE id == h.front[from]
           up == id + pow2[k]
           g  == SplitTo(h, from, k)
           r  == SplitTo(h, from, k + 1)
           d  == DeleteFromkHeapOrder(g, k, id)
           e  == DeleteFromkHeapOrder(d, k, up)
           f  == AddTokHeapOrder(e, k + 1, id)
<1>1. /\ h \in HeapType /\ from \in Orders /\ low \in Orders /\ id \in Ids /\ up \in Ids
      /\ h.front[k] = NULL /\ ~h.isAllocated[id] /\ ~h.isAllocated[up]
      /\ Buddy(id, k) = up /\ h.order[up] = 0 /\ h.next[up] = NULL
  BY DEF Splittable
<1>2. /\ from \in Nat /\ low \in Nat /\ id \in Nat /\ up \in Nat
      /\ from \in 0 .. KHEAP_MAX_ORDER /\ low \in 0 .. KHEAP_MAX_ORDER
  BY <1>1, Sizes DEF Orders
<1>3. /\ k \in Nat /\ k < from /\ k \in low .. from /\ k + 1 \in low .. from /\ k # from
      /\ k # k + 1
  BY <1>2
<1>4. k \in Orders /\ k + 1 \in Orders /\ 0 \in Orders
  BY <1>2, <1>3, KHeapAssumption DEF Orders
<1>5. /\ Uppers(id, from, k) = Uppers(id, from, k + 1) \cup {up}
      /\ up \notin Uppers(id, from, k + 1) /\ id \notin Uppers(id, from, k)
      /\ up # id /\ id < up
  <2>1. pow2[k] \in Nat \ {0}
    BY <1>3, PowersOfTwo
  <2>2. id < up
    BY <1>2, <2>1
  <2> QED
    BY <1>2, <1>3, <2>2, UppersGrow
<1>6. /\ g \in HeapType /\ \A x \in Ids : g.prev[x] = NULL
      /\ g = [order |-> g.order, isAllocated |-> h.isAllocated, prev |-> h.prev,
              next |-> g.next, front |-> g.front]
      /\ g.order \in [Ids -> Orders] /\ g.next \in [Ids -> Ids \cup {NULL}]
      /\ g.front \in [Orders -> Ids \cup {NULL}]
      /\ \A x \in Ids : g.order[x] = IF x = id THEN k
                                     ELSE IF x \in Uppers(id, from, k) THEN log2(x - id)
                                     ELSE h.order[x]
      /\ \A x \in Ids : g.next[x] =
           IF x = id THEN IF k = from THEN h.next[id] ELSE id + pow2[k]
           ELSE IF x \in Uppers(id, from, k) THEN NULL ELSE h.next[x]
      /\ \A j \in Orders : g.front[j] =
           IF j = k THEN id ELSE IF j \in k + 1 .. from - 1 THEN id + pow2[j]
           ELSE IF j = from THEN h.next[id] ELSE h.front[j]
  BY <1>3, SplitToFields
<1>7. /\ r = [order |-> r.order, isAllocated |-> h.isAllocated, prev |-> h.prev,
              next |-> r.next, front |-> r.front]
      /\ r.order \in [Ids -> Orders] /\ r.next \in [Ids -> Ids \cup {NULL}]
      /\ r.front \in [Orders -> Ids \cup {NULL}]
      /\ \A x \in Ids : r.order[x] = IF x = id THEN k + 1
                                     ELSE IF x \in Uppers(id, from, k + 1) THEN log2(x - id)
                                     ELSE h.order[x]
      /\ \A x \in Ids : r.next[x] =
           IF x = id THEN IF k + 1 = from THEN h.next[id] ELSE id + pow2[k + 1]
           ELSE IF x \in Uppers(id, from, k + 1) THEN NULL ELSE h.next[x]
      /\ \A j \in Orders : r.front[j] =
           IF j = k + 1 THEN id ELSE IF j \in (k + 1) + 1 .. from - 1 THEN id + pow2[j]
           ELSE IF j = from THEN h.next[id] ELSE h.front[j]
  BY <1>3, SplitToFields
<1>8. /\ h.isAllocated \in [Ids -> BOOLEAN] /\ h.isAllocated[id] = FALSE
      /\ h.isAllocated[up] = FALSE /\ h.front \in [Orders -> Ids \cup {NULL}]
      /\ h.prev \in [Ids -> Ids \cup {NULL}] /\ \A x \in Ids : h.prev[x] = NULL
  BY <1>1 DEF HeapType, Splittable
<1>9. /\ MergedId(id, k) = id
      /\ MayMerge(g, k, id)
      /\ Merge(g, k, id) = f
  <2>1. MergedId(id, k) = id
    BY <1>1, <1>5 DEF MergedId
  <2>2. g.isAllocated = h.isAllocated
    BY <1>6
  <2>3. MayMerge(g, k, id)
    BY <1>1, <1>8, <2>2 DEF MayMerge
  <2> HIDE DEF g, id, up
  <2> QED
    BY <1>1, <2>1, <2>3 DEF Merge
<1> HIDE DEF g, r, id
<1>10. d = [order       |-> [g.order EXCEPT ![id] = 0],
            isAllocated |-> h.isAllocated,
            prev        |-> h.prev,
            next        |-> [g.next EXCEPT ![id] = NULL],
            front       |-> [g.front EXCEPT ![k] = up]]
  <2>1. g.isAllocated = h.isAllocated /\ g.prev = h.prev /\ g.next[id] = up
    BY <1>1, <1>3, <1>6
  <2>2. d = [order       |-> [g.order EXCEPT ![id] = 0],
             isAllocated |-> [g.isAllocated EXCEPT ![id] = FALSE],
             prev        |-> g.prev,
             next        |-> [g.next EXCEPT ![id] = NULL],
             front       |-> [g.front EXCEPT ![k] = g.next[id]]]
    BY <1>1, <1>6, DeleteFront
  <2>3. [h.isAllocated EXCEPT ![id] = FALSE] = h.isAllocated
    BY <1>1, <1>8
  <2> HIDE DEF d, up
  <2> QED
    BY <2>1, <2>2, <2>3
<1> HIDE DEF d, up
<1>11. d \in HeapType /\ \A x \in Ids : d.prev[x] = NULL
  <2>1. [g.order EXCEPT ![id] = 0] \in [Ids -> Orders]
    BY <1>1, <1>4, <1>6
  <2>2. [g.next EXCEPT ![id] = NULL] \in [Ids -> Ids \cup {NULL}]
    BY <1>1, <1>6
  <2>3. [g.front EXCEPT ![k] = up] \in [Orders -> Ids \cup {NULL}]
    BY <1>1, <1>4, <1>6
  <2> QED
    BY <2>1, <2>2, <2>3, <1>8, <1>10 DEF HeapType
<1>12. d.next[up] = NULL
  BY <1>1, <1>5, <1>6, <1>10
<1>13. e = [order       |-> [[g.order EXCEPT ![id] = 0] EXCEPT ![up] = 0],
            isAllocated |-> h.isAllocated,
            prev        |-> h.prev,
            next        |-> [[g.next EXCEPT ![id] = NULL] EXCEPT ![up] = NULL],
            front       |-> [[g.front EXCEPT ![k] = up] EXCEPT ![k] = NULL]]
  <2>1. e = [order       |-> [d.order EXCEPT ![up] = 0],
             isAllocated |-> [d.isAllocated EXCEPT ![up] = FALSE],
             prev        |-> d.prev,
             next        |-> [d.next EXCEPT ![up] = NULL],
             front       |-> [d.front EXCEPT ![k] = d.next[up]]]
    BY <1>1, <1>11, DeleteFront
  <2>2. [h.isAllocated EXCEPT ![up] = FALSE] = h.isAllocated
    BY <1>1, <1>8
  <2> HIDE DEF e
  <2> QED
    BY <2>1, <2>2, <1>10, <1>12
<1> HIDE DEF e
<1>14. f = [order       |-> [[[g.order EXCEPT ![id] = 0] EXCEPT ![up] = 0] EXCEPT ![id] = k + 1],
            isAllocated |-> h.isAllocated,
            prev        |-> h.prev,
            next        |-> [[[g.next EXCEPT ![id] = NULL] EXCEPT ![up] = NULL]
                               EXCEPT ![id] = g.front[k + 1]],
            front       |-> [[[g.front EXCEPT ![k] = up] EXCEPT ![k] = NULL]
                               EXCEPT ![k + 1] = id]]
  <2>1. e.prev = h.prev /\ e.front[k + 1] = g.front[k + 1]
    BY <1>3, <1>4, <1>6, <1>13
  <2>2. f = [order       |-> [e.order EXCEPT ![id] = k + 1],
             isAllocated |-> [e.isAllocated EXCEPT ![id] = FALSE],
             prev        |-> e.prev,
             next        |-> [e.next EXCEPT ![id] = e.front[k + 1]],
             front       |-> [e.front EXCEPT ![k + 1] = id]]
    <3> DEFINE A(o) == AddTokHeapOrder(e, o, id)
               B(o) == [order       |-> [e.order EXCEPT ![id] = o],
                        isAllocated |-> [e.isAllocated EXCEPT ![id] = FALSE],
                        prev        |-> e.prev,
                        next        |-> [e.next EXCEPT ![id] = e.front[o]],
                        front       |-> [e.front EXCEPT ![o] = id]]
    <3>1. \A o : A(o) = B(o)
      BY <2>1, <1>1, <1>8, AddFront
    <3> HIDE DEF A, B
    <3>2. A(k + 1) = B(k + 1)
      BY <3>1
    <3> QED
      BY <3>2 DEF A, B
  <2>3. [h.isAllocated EXCEPT ![id] = FALSE] = h.isAllocated
    BY <1>1, <1>8
  <2> HIDE DEF f
  <2> QED
    BY <2>1, <2>2, <2>3, <1>13
<1> HIDE DEF f
<1>15. [[[g.order EXCEPT ![id] = 0] EXCEPT ![up] = 0] EXCEPT ![id] = k + 1] = r.order
  <2> DEFINE w == [[[g.order EXCEPT ![id] = 0] EXCEPT ![up] = 0] EXCEPT ![id] = k + 1]
  <2>1. ASSUME NEW x \in Ids
        PROVE  w[x] = r.order[x]
    BY <1>1, <1>5, <1>6, <1>7
  <2>2. w = [x \in Ids |-> w[x]] /\ r.order = [x \in Ids |-> r.order[x]]
    BY <1>6, <1>7
  <2> HIDE DEF w
  <2>3. w = r.order
    BY <2>1, <2>2
  <2> QED
    BY <2>3 DEF w
<1>16. [[[g.next EXCEPT ![id] = NULL] EXCEPT ![up] = NULL] EXCEPT ![id] = g.front[k + 1]] = r.next
  <2> DEFINE n == g.front[k + 1]
             w == [[[g.next EXCEPT ![id] = NULL] EXCEPT ![up] = NULL] EXCEPT ![id] = n]
  <2>1. n = r.next[id]
    <3>1. k + 1 \in k + 1 .. from - 1 <=> k + 1 # from
      BY <1>2, <1>3
    <3> QED
      BY <3>1, <1>1, <1>3, <1>4, <1>6, <1>7
  <2> HIDE DEF n
  <2>2. ASSUME NEW x \in Ids
        PROVE  w[x] = r.next[x]
    <3>1. CASE x = id
      BY <2>1, <3>1, <1>1, <1>6
    <3>2. CASE x # id
      BY <3>2, <1>1, <1>5, <1>6, <1>7
    <3> QED
      BY <3>1, <3>2
  <2>3. w = [x \in Ids |-> w[x]] /\ r.next = [x \in Ids |-> r.next[x]]
    BY <1>6, <1>7
  <2> HIDE DEF w
  <2>4. w = r.next
    BY <2>2, <2>3
  <2> QED
    BY <2>4 DEF w, n
<1>17. [[[g.front EXCEPT ![k] = up] EXCEPT ![k] = NULL] EXCEPT ![k + 1] = id] = r.front
  <2> DEFINE w == [[[g.front EXCEPT ![k] = up] EXCEPT ![k] = NULL] EXCEPT ![k + 1] = id]
  <2>1. ASSUME NEW j \in Orders
        PROVE  w[j] = r.front[j]
    <3>1. j \in Nat /\ from \in Nat
      BY <1>2, Sizes
    <3>2. CASE j = k
      <4>1. w[j] = NULL /\ j # k + 1 /\ j # from /\ j \notin (k + 1) + 1 .. from - 1
        BY <3>1, <3>2, <1>3, <1>4, <1>6
      <4> QED
        BY <3>2, <4>1, <1>1, <1>4, <1>7
    <3>3. CASE j = k + 1
      BY <3>1, <3>3, <1>3, <1>4, <1>6, <1>7
    <3>4. CASE j # k /\ j # k + 1
      <4>1. w[j] = g.front[j]
        BY <3>4, <1>4, <1>6
      <4>2. j \in k + 1 .. from - 1 <=> j \in (k + 1) + 1 .. from - 1
        BY <3>1, <3>4, <1>3
      <4> QED
        BY <3>4, <4>1, <4>2, <1>6, <1>7
    <3> QED
      BY <3>2, <3>3, <3>4
  <2>2. w = [j \in Orders |-> w[j]] /\ r.front = [j \in Orders |-> r.front[j]]
    BY <1>6, <1>7
  <2> HIDE DEF w
  <2>3. w = r.front
    BY <2>1, <2>2
  <2> QED
    BY <2>3 DEF w
<1>18. f = r
  BY <1>7, <1>14, <1>15, <1>16, <1>17
<1>19. /\ MayMerge(g, k, id) /\ MergedId(id, k) = id
       /\ Merge(g, k, id) = r
  BY <1>9, <1>18
<1> QED
  BY <1>19 DEF g, r, id

\* All splits of kmalloc, from order "from" down to order o.
LEMMA SplitsAreSplitTo ==
  ASSUME NEW h, NEW from, NEW o, Splittable(h, from, o), from \in Nat, o \in Nat, o <= from
  PROVE  LET split[k \in o .. from] == IF k = from THEN h ELSE Split(split[k + 1], k + 1)
         IN  split[o] = SplitTo(h, from, o)
<1> DEFINE Body(f) == [k \in o .. from |-> IF k = from THEN h ELSE Split(f[k + 1], k + 1)]
           w       == [k \in o .. from |-> SplitTo(h, from, k)]
           split   == CHOOSE f : f = Body(f)
<1>1. \A k \in o .. from : k \in Nat /\ (k # from => k \in o .. from - 1 /\ k + 1 \in o .. from)
  OBVIOUS
<1>2. SplitTo(h, from, from) = h
  BY SplitToNothing
<1>3. \A k \in o .. from - 1 : Split(SplitTo(h, from, k + 1), k + 1) = SplitTo(h, from, k)
  BY SplitStep
<1>4. w = Body(w)
  <2>1. ASSUME NEW k \in o .. from
        PROVE  w[k] = IF k = from THEN h ELSE Split(w[k + 1], k + 1)
    <3>1. CASE k = from
      BY <3>1, <1>2
    <3>2. CASE k # from
      <4>1. k + 1 \in o .. from /\ k \in o .. from - 1
        BY <3>2, <1>1
      <4>2. w[k + 1] = SplitTo(h, from, k + 1) /\ w[k] = SplitTo(h, from, k)
        BY <4>1
      <4> HIDE DEF w
      <4> QED
        BY <3>2, <4>1, <4>2, <1>3
    <3> QED
      BY <3>1, <3>2
  <2>2. w = [k \in o .. from |-> w[k]]
    OBVIOUS
  <2> HIDE DEF w
  <2> QED
    BY <2>1, <2>2
<1>5. split = Body(split)
  <2> HIDE DEF w, Body
  <2> QED
    BY <1>4
<1> HIDE DEF split
<1>6. split[from] = h
  BY <1>5
<1>7. \A k \in o .. from - 1 : split[k] = Split(split[k + 1], k + 1)
  BY <1>5
<1>8. split[o] = SplitTo(h, from, o)
  <2> DEFINE T == {d \in Nat : o <= from - d /\ split[from - d] # SplitTo(h, from, from - d)}
  <2> SUFFICES ASSUME split[o] # SplitTo(h, from, o)
               PROVE  FALSE
    OBVIOUS
  <2>1. from - o \in T /\ T \subseteq Nat
    <3>1. from - o \in Nat /\ from - (from - o) = o
      OBVIOUS
    <3> QED
      BY <3>1
  <2>2. PICK d \in T : \A e \in T : d <= e
    BY <2>1, LeastNumber
  <2>3. d # 0
    <3>1. from - 0 = from
      OBVIOUS
    <3> QED
      BY <2>2, <3>1, <1>2, <1>6
  <2> DEFINE k == from - d
  <2>4. /\ d - 1 \in Nat /\ d - 1 \notin T /\ k \in o .. from - 1 /\ from - (d - 1) = k + 1
        /\ o <= k + 1
    BY <2>2, <2>3
  <2>5. split[k + 1] = SplitTo(h, from, k + 1)
    BY <2>4
  <2>6. split[k] # SplitTo(h, from, k)
    BY <2>2
  <2> HIDE DEF k
  <2> QED
    BY <2>4, <2>5, <2>6, <1>3, <1>7
<1> QED
  BY <1>8 DEF split

\* What kmalloc does when the least order that has a free block is "from".
LEMMA kmallocIs ==
  ASSUME NEW h, NEW size, NEW from, RequestedOrder(size) \in Nat,
         Splittable(h, from, RequestedOrder(size)),
         ~(size > KHEAP_HEAP_SIZE), from \in Candidates(h, RequestedOrder(size)),
         \A j \in Candidates(h, RequestedOrder(size)) : from <= j
  PROVE  kmalloc(h, size) = [heap  |-> Taken(h, from, RequestedOrder(size)),
                             block |-> h.front[from]]
<1> DEFINE o == RequestedOrder(size)
           C == Candidates(h, o)
           least == CHOOSE k \in C : \A j \in C : k <= j
<1>1. C \subseteq Nat
  BY Sizes DEF Candidates
<1>2. least = from
  <2>1. \E k \in C : \A j \in C : k <= j
    OBVIOUS
  <2>2. least \in C /\ \A j \in C : least <= j
    <3> HIDE DEF C
    <3> QED
      BY <2>1
  <2> HIDE DEF least, C
  <2>3. from \in C /\ \A j \in C : from <= j
    BY DEF C
  <2>4. least <= from /\ from <= least /\ least \in Nat /\ from \in Nat
    BY <2>2, <2>3, <1>1
  <2> QED
    BY <2>4
<1> HIDE DEF least
<1>3. C # {}
  OBVIOUS
<1>4. /\ from \in Nat /\ o \in Nat /\ o <= from
      /\ h.front[from] \in Ids /\ o \in o .. from /\ Splittable(h, from, o)
  BY Sizes DEF Splittable
<1> HIDE DEF C
<1> DEFINE split[k \in o .. from] == IF k = from THEN h ELSE Split(split[k + 1], k + 1)
           id == split[o].front[o]
<1>5. kmalloc(h, size)
        = [heap  |-> MarkAllocated(DeleteFromkHeapOrder(split[o], o, id), o, id),
           block |-> id]
  <2> DEFINE sp[k \in o .. least] == IF k = least THEN h ELSE Split(sp[k + 1], k + 1)
             r  == IF size > KHEAP_HEAP_SIZE \/ C = {}
                   THEN [heap |-> h, block |-> NULL]
                   ELSE [heap |-> MarkAllocated(
                                    DeleteFromkHeapOrder(sp[o], o, sp[o].front[o]),
                                    o, sp[o].front[o]),
                         block |-> sp[o].front[o]]
  <2>1. kmalloc(h, size) = r
    BY DEF kmalloc, C, least
  <2>2. sp[o] = split[o]
    BY <1>2
  <2> HIDE DEF sp, split, o
  <2>3. r = [heap |-> MarkAllocated(DeleteFromkHeapOrder(sp[o], o, sp[o].front[o]),
                                    o, sp[o].front[o]),
             block |-> sp[o].front[o]]
    BY <1>3
  <2> HIDE DEF r
  <2> QED
    BY <2>1, <2>2, <2>3
<1>6. split[o] = SplitTo(h, from, o)
  <2> HIDE DEF o
  <2> QED
    BY <1>4, SplitsAreSplitTo
<1> HIDE DEF split, o
<1>7. id = h.front[from]
  <2>1. \A j \in Orders : SplitTo(h, from, o).front[j] =
          IF j = o THEN h.front[from]
          ELSE IF j \in o + 1 .. from - 1 THEN h.front[from] + pow2[j]
          ELSE IF j = from THEN h.next[h.front[from]] ELSE h.front[j]
    BY <1>4, SplitToFields
  <2>2. o \in Orders
    BY <1>4 DEF Splittable
  <2> QED
    BY <2>1, <2>2, <1>6
<1> HIDE DEF id
<1>8. MarkAllocated(DeleteFromkHeapOrder(SplitTo(h, from, o), o, h.front[from]), o, h.front[from])
        = Taken(h, from, o)
  BY <1>4, TakenIs
<1>9. kmalloc(h, size) = [heap |-> Taken(h, from, o), block |-> h.front[from]]
  BY <1>5, <1>6, <1>7, <1>8
<1> QED
  BY <1>9 DEF o

\* Freeing what kmalloc has just handed out gives back the heap it was taken
\* from: the merges go up to order "from" and no further.
LEMMA kfreeIs ==
  ASSUME NEW h, NEW from, NEW o, Splittable(h, from, o),
         from < KHEAP_MAX_ORDER => h.isAllocated[Buddy(h.front[from], from)]
  PROVE  kfree(Taken(h, from, o), h.front[from]) = h
<1> DEFINE id == h.front[from]
           t  == Taken(h, from, o)
           M  == KHEAP_MAX_ORDER
           Body(f) == [k \in o .. M |->
                         IF k = o
                         THEN [heap |-> AddTokHeapOrder(t, o, id), block |-> id, loop |-> TRUE]
                         ELSE LET s == f[k - 1]
                              IN  IF s.loop /\ MayMerge(s.heap, k - 1, s.block)
                                  THEN [heap  |-> Merge(s.heap, k - 1, s.block),
                                        block |-> MergedId(s.block, k - 1), loop |-> TRUE]
                                  ELSE [heap |-> s.heap, block |-> s.block, loop |-> FALSE]]
           up(k) == [heap |-> SplitTo(h, from, k), block |-> id, loop |-> TRUE]
           end   == [heap |-> h, block |-> id, loop |-> FALSE]
           w     == [k \in o .. M |-> IF k <= from THEN up(k) ELSE end]
           at    == CHOOSE f : f = Body(f)
<1>1. /\ id \in Ids /\ o \in Nat /\ from \in Nat /\ M \in Nat /\ o <= from /\ from <= M
      /\ o \in o .. from /\ o \in o .. M /\ M \in o .. M
  <2>1. id \in Ids /\ o \in Orders /\ from \in Orders /\ o <= from
    BY DEF Splittable
  <2> QED
    BY <2>1, KHeapAssumption DEF Orders
<1>2. SplitTo(h, from, from) = h
  BY SplitToNothing
<1>3. ASSUME NEW k \in o .. from - 1
      PROVE  /\ MayMerge(SplitTo(h, from, k), k, id) /\ MergedId(id, k) = id
             /\ Merge(SplitTo(h, from, k), k, id) = SplitTo(h, from, k + 1)
  BY MergeStep
<1>4. AddTokHeapOrder(t, o, id) = SplitTo(h, from, o)
  BY PutBack
<1>5. t.order[id] = o /\ t.isAllocated[id]
  <2>1. \A x \in Ids : SplitTo(h, from, o).order[x] =
          IF x = id THEN o ELSE IF x \in Uppers(id, from, o) THEN log2(x - id) ELSE h.order[x]
    BY <1>1, SplitToFields
  <2>2. t.order = SplitTo(h, from, o).order
        /\ t.isAllocated = [h.isAllocated EXCEPT ![id] = TRUE]
    BY DEF Taken
  <2>3. h.isAllocated \in [Ids -> BOOLEAN]
    BY DEF Splittable, HeapType
  <2>4. [h.isAllocated EXCEPT ![id] = TRUE][id] = TRUE
    BY <1>1, <2>3
  <2> HIDE DEF t, id
  <2> QED
    BY <1>1, <2>1, <2>2, <2>4
<1> HIDE DEF t
<1>6. w = Body(w)
  <2>1. ASSUME NEW k \in o .. M
        PROVE  w[k] = Body(w)[k]
    <3>1. CASE k = o
      BY <3>1, <1>1, <1>4
    <3>2. CASE k # o
      <4> DEFINE s == w[k - 1]
      <4>1. /\ k \in Nat /\ k - 1 \in o .. M /\ k - 1 \in Nat
            /\ Body(w)[k] = IF s.loop /\ MayMerge(s.heap, k - 1, s.block)
                            THEN [heap  |-> Merge(s.heap, k - 1, s.block),
                                  block |-> MergedId(s.block, k - 1), loop |-> TRUE]
                            ELSE [heap |-> s.heap, block |-> s.block, loop |-> FALSE]
        <5> HIDE DEF w
        <5> QED
          BY <3>2, <1>1
      <4>2. CASE k <= from
        <5>1. k - 1 \in o .. from - 1 /\ k - 1 <= from /\ (k - 1) + 1 = k
          BY <4>1, <4>2, <1>1
        <5>2. s = up(k - 1) /\ w[k] = up(k)
          BY <4>1, <4>2, <5>1
        <5>3. /\ MayMerge(SplitTo(h, from, k - 1), k - 1, id) /\ MergedId(id, k - 1) = id
              /\ Merge(SplitTo(h, from, k - 1), k - 1, id) = SplitTo(h, from, k)
          BY <5>1, <1>3
        <5>4. s.loop = TRUE /\ s.heap = SplitTo(h, from, k - 1) /\ s.block = id
          BY <5>2
        <5> HIDE DEF w, Body, s, id
        <5>5. Body(w)[k] = [heap |-> SplitTo(h, from, k), block |-> id, loop |-> TRUE]
          BY <4>1, <5>3, <5>4
        <5> QED
          BY <5>2, <5>5
      <4>3. CASE k = from + 1
        <5>1. k - 1 = from /\ ~(k <= from) /\ k - 1 <= from /\ from < M
          BY <4>1, <4>3, <1>1
        <5>2. s = up(from) /\ w[k] = end
          BY <4>1, <5>1
        <5>3. s.loop = TRUE /\ s.heap = h /\ s.block = id
          BY <5>2, <1>2
        <5>4. ~MayMerge(h, from, id)
          BY <5>1 DEF MayMerge
        <5> HIDE DEF w, Body, s, id
        <5>5. Body(w)[k] = [heap |-> h, block |-> id, loop |-> FALSE]
          BY <4>1, <5>1, <5>3, <5>4
        <5> QED
          BY <5>2, <5>5
      <4>4. CASE k > from + 1
        <5>1. ~(k <= from) /\ ~(k - 1 <= from)
          BY <4>1, <4>4, <1>1
        <5>2. s = end /\ w[k] = end
          BY <4>1, <5>1
        <5>3. s.loop = FALSE /\ s.heap = h /\ s.block = id
          BY <5>2
        <5> HIDE DEF w, Body, s, id
        <5>4. Body(w)[k] = [heap |-> h, block |-> id, loop |-> FALSE]
          BY <4>1, <5>3
        <5> QED
          BY <5>2, <5>4
      <4>5. k <= from \/ k = from + 1 \/ k > from + 1
        BY <4>1, <1>1
      <4> QED
        BY <4>2, <4>3, <4>4, <4>5
    <3> QED
      BY <3>1, <3>2
  <2>2. w = [k \in o .. M |-> w[k]] /\ Body(w) = [k \in o .. M |-> Body(w)[k]]
    OBVIOUS
  <2> HIDE DEF w, Body
  <2> QED
    BY <2>1, <2>2
<1>7. at = Body(at)
  <2> HIDE DEF w, Body
  <2> QED
    BY <1>6
<1> HIDE DEF at
<1>8. at[o] = w[o]
  BY <1>1, <1>4, <1>7
<1>9. ASSUME NEW k \in o .. M, k # o, at[k - 1] = w[k - 1]
      PROVE  at[k] = w[k]
  <2>1. at[k] = Body(at)[k] /\ w[k] = Body(w)[k]
    <3> HIDE DEF Body, w
    <3> QED
      BY <1>6, <1>7
  <2>2. Body(at)[k] = Body(w)[k]
    <3> HIDE DEF w
    <3> QED
      BY <1>9
  <2> QED
    BY <2>1, <2>2
<1>10. at[M] = w[M]
  <2> DEFINE T == {k \in o .. M : at[k] # w[k]}
  <2> SUFFICES ASSUME at[M] # w[M]
               PROVE  FALSE
    OBVIOUS
  <2> HIDE DEF w, Body
  <2>1. M \in T /\ T \subseteq Nat
    BY <1>1
  <2>2. PICK k \in T : \A j \in T : k <= j
    BY <2>1, LeastNumber
  <2>3. k # o /\ k \in o .. M
    BY <2>2, <1>8
  <2>4. k - 1 \in o .. M /\ ~(k <= k - 1)
    BY <2>3, <1>1
  <2>5. at[k - 1] = w[k - 1]
    BY <2>2, <2>4
  <2> QED
    BY <2>2, <2>3, <2>5, <1>9
<1>11. w[M].heap = h
  <2>1. CASE from = M
    BY <2>1, <1>1, <1>2
  <2>2. CASE from # M
    BY <2>2, <1>1
  <2> QED
    BY <2>1, <2>2
<1> HIDE DEF w, id
<1>12. kfree(t, id) = at[M].heap
  <2> DEFINE p == t.order[id]
             loop[k \in p .. M] ==
                         IF k = p
                         THEN [heap |-> AddTokHeapOrder(t, p, id), block |-> id, loop |-> TRUE]
                         ELSE LET s == loop[k - 1]
                              IN  IF s.loop /\ MayMerge(s.heap, k - 1, s.block)
                                  THEN [heap  |-> Merge(s.heap, k - 1, s.block),
                                        block |-> MergedId(s.block, k - 1), loop |-> TRUE]
                                  ELSE [heap |-> s.heap, block |-> s.block, loop |-> FALSE]
  <2>1. kfree(t, id) = IF t.isAllocated[id] THEN loop[M].heap ELSE t
    BY DEF kfree
  <2>2. loop = at
    BY <1>5 DEF at
  <2> HIDE DEF loop
  <2> QED
    BY <2>1, <2>2, <1>5
<1>13. kfree(t, id) = h
  BY <1>10, <1>11, <1>12
<1> QED
  BY <1>13 DEF t, id

\* A block of order "from" that begins at a multiple of its size lies in the
\* heap, and so do its halves of each order below, buddies of one another.
LEMMA BlockFits ==
  ASSUME NEW id \in Ids, NEW from \in Orders, NEW q \in Nat, id = q * pow2[from]
  PROVE  id + pow2[from] <= KHEAP_BLOCK_NUM
<1>1. id \in Nat /\ from \in Nat /\ from <= KHEAP_MAX_ORDER /\ id < pow2[KHEAP_MAX_ORDER]
      /\ KHEAP_MAX_ORDER \in Nat
  BY Sizes, KHeapAssumption DEF Ids, Orders, KHEAP_BLOCK_NUM
<1> DEFINE x == pow2[from]
<1>2. x \in Nat \ {0}
  BY <1>1, PowersOfTwo
<1>3. PICK m \in Nat \ {0} : pow2[KHEAP_MAX_ORDER] = m * pow2[from]
  BY <1>1, PowersGrow
<1> HIDE DEF x
<1>4. q * x < m * x
  BY <1>1, <1>3 DEF x
<1>5. q < m
  <2> SUFFICES ASSUME m <= q
               PROVE  FALSE
    OBVIOUS
  <2> DEFINE d == q - m
  <2>1. d \in Nat /\ q = m + d
    OBVIOUS
  <2> HIDE DEF d
  <2>2. q * x = m * x + d * x /\ d * x \in Nat /\ m * x \in Nat
    BY <2>1, <1>2
  <2>3. m * x <= q * x
    BY <2>2
  <2> QED
    BY <2>2, <2>3, <1>4
<1>6. q * x + x <= m * x
  <2> DEFINE d == m - (q + 1)
  <2>1. d \in Nat /\ m = (q + 1) + d
    BY <1>5
  <2> HIDE DEF d
  <2>2. m * x = (q * x + x) + d * x /\ d * x \in Nat /\ q * x \in Nat
    BY <2>1, <1>2
  <2> QED
    BY <2>2, <1>2
<1> QED
  BY <1>3, <1>6 DEF x, KHEAP_BLOCK_NUM

\* The halves of an aligned block are aligned and each other's buddies.
LEMMA Halves ==
  ASSUME NEW id \in Nat, NEW from \in Nat, NEW q \in Nat, id = q * pow2[from],
         NEW j \in Nat, j < from
  PROVE  /\ \E p \in Nat : id = p * pow2[j]
         /\ \E p \in Nat : id + pow2[j] = p * pow2[j]
         /\ Buddy(id, j) = id + pow2[j] /\ Buddy(id + pow2[j], j) = id
         /\ 2 * pow2[j] <= pow2[from]
<1> DEFINE x == pow2[j]
<1>1. x \in Nat \ {0} /\ pow2[j + 1] = 2 * x /\ j + 1 \in Nat /\ j + 1 <= from
  BY PowersOfTwo
<1>2. PICK m \in Nat \ {0} : pow2[from] = m * pow2[j + 1]
  BY <1>1, PowersGrow
<1>3. 2 * x <= pow2[from]
  BY PowersGrow
<1> HIDE DEF x
<1> DEFINE p == q * m
<1>4. p \in Nat
  OBVIOUS
<1>5. id = (2 * p) * x
  <2>1. pow2[from] = m * (2 * x)
    BY <1>1, <1>2
  <2>2. id = q * (m * (2 * x))
    BY <2>1
  <2>3. q * (m * (2 * x)) = (2 * (q * m)) * x
    BY <1>1
  <2> QED
    BY <2>2, <2>3
<1> HIDE DEF p
<1>6. id + x = (2 * p + 1) * x
  BY <1>1, <1>4, <1>5
<1>7. 2 * p \in Nat /\ 2 * p + 1 \in Nat /\ (2 * p) % 2 = 0 /\ (2 * p + 1) % 2 = 1
  BY <1>4
<1>8. id \div x = 2 * p /\ (id + x) \div x = 2 * p + 1
  <2> DEFINE a == 2 * p
             b == 2 * p + 1
  <2>1. a \in Nat /\ b \in Nat /\ id = a * x /\ id + x = b * x
    BY <1>5, <1>6, <1>7
  <2> HIDE DEF a, b
  <2>2. (a * x) \div x = a /\ (b * x) \div x = b
    BY <2>1, <1>1, MultipleDivides
  <2> QED
    BY <2>1, <2>2 DEF a, b
<1>9. Buddy(id, j) = id + x
  BY <1>7, <1>8 DEF Buddy, x
<1>10. Buddy(id + x, j) = id
  <2>1. ((id + x) \div x) % 2 = 1 /\ (id + x) - x = id
    BY <1>1, <1>7, <1>8
  <2> QED
    BY <2>1 DEF Buddy, x
<1> QED
  BY <1>3, <1>5, <1>6, <1>7, <1>9, <1>10 DEF x

-----------------------------------------------------------------------------
\* The invariant of the heaps that allocations make.  Lists have one entry at
\* most, and the parts of the heap begin at the blocks IsStart names.
IsStart(h, x) == h.isAllocated[x] \/ h.front[h.order[x]] = x

Inside(h, b, x) == b \in Extent(x, h.order[x])

Sound(h) ==
  /\ h \in HeapType
  /\ \A x \in Ids : h.prev[x] = NULL /\ h.next[x] = NULL
  /\ \A o \in Orders : h.front[o] # NULL =>
       /\ h.order[h.front[o]] = o /\ ~h.isAllocated[h.front[o]]
       /\ o < KHEAP_MAX_ORDER =>
            Buddy(h.front[o], o) \in Ids /\ h.isAllocated[Buddy(h.front[o], o)]
  /\ \A x \in Ids : ~IsStart(h, x) => h.order[x] = 0
  /\ \A x \in Ids : IsStart(h, x) => \E q \in Nat : x = q * pow2[h.order[x]]
  /\ \A b \in Ids : \E x \in Ids :
       /\ IsStart(h, x) /\ Inside(h, b, x)
       /\ \A y \in Ids : IsStart(h, y) /\ Inside(h, b, y) => y = x

\* A part contains its start, so the start of another part lies outside of it.
LEMMA StartsApart ==
  ASSUME NEW h, Sound(h), NEW x \in Ids, NEW y \in Ids,
         IsStart(h, x), IsStart(h, y), Inside(h, y, x)
  PROVE  y = x
<1>1. h.order[y] \in Orders /\ y \in Nat
  BY Sizes DEF Sound, HeapType
<1>2. pow2[h.order[y]] \in Nat \ {0}
  BY <1>1, Sizes, PowersOfTwo
<1>3. Inside(h, y, y)
  BY <1>1, <1>2 DEF Inside, Extent
<1>4. PICK z \in Ids : \A w \in Ids : IsStart(h, w) /\ Inside(h, y, w) => w = z
  BY DEF Sound
<1>5. x = z /\ y = z
  BY <1>3, <1>4
<1> QED
  BY <1>5

\* The least free block that is large enough can be split and joined again.
LEMMA SoundSplits ==
  ASSUME NEW h, Sound(h), NEW o \in Orders, NEW from \in Candidates(h, o),
         \A j \in Candidates(h, o) : from <= j
  PROVE  /\ Splittable(h, from, o)
         /\ IsStart(h, h.front[from]) /\ h.order[h.front[from]] = from
         /\ \E q \in Nat : h.front[from] = q * pow2[from]
         /\ from < KHEAP_MAX_ORDER => h.isAllocated[Buddy(h.front[from], from)]
<1> DEFINE id == h.front[from]
<1>1. h \in HeapType /\ from \in Orders /\ o <= from /\ id \in Ids /\ id # NULL
  BY DEF Sound, HeapType, Candidates
<1>2. from \in Nat /\ o \in Nat /\ id \in Nat
  BY <1>1, Sizes
<1>3. /\ h.order[id] = from /\ ~h.isAllocated[id] /\ IsStart(h, id)
      /\ from < KHEAP_MAX_ORDER => h.isAllocated[Buddy(id, from)]
  BY <1>1 DEF Sound, IsStart
<1>4. PICK q \in Nat : id = q * pow2[from]
  BY <1>1, <1>3 DEF Sound
<1> HIDE DEF id
<1>5. ASSUME NEW j \in o .. from - 1
      PROVE  /\ h.front[j] = NULL
             /\ id + pow2[j] \in Ids /\ Buddy(id, j) = id + pow2[j]
             /\ h.order[id + pow2[j]] = 0 /\ ~h.isAllocated[id + pow2[j]]
             /\ h.next[id + pow2[j]] = NULL
  <2> DEFINE up == id + pow2[j]
  <2>1. j \in Nat /\ j < from /\ o <= j /\ j \in Orders
    <3>1. from \in 0 .. KHEAP_MAX_ORDER
      BY <1>1 DEF Orders
    <3> QED
      BY <3>1, <1>2, KHeapAssumption DEF Orders
  <2>2. h.front[j] = NULL
    BY <2>1, <1>2 DEF Candidates
  <2>3. Buddy(id, j) = up /\ 2 * pow2[j] <= pow2[from]
    BY <2>1, <1>2, <1>4, Halves
  <2>4. id + pow2[from] <= KHEAP_BLOCK_NUM
    BY <1>1, <1>4, BlockFits
  <2>5. pow2[j] \in Nat \ {0} /\ pow2[from] \in Nat \ {0} /\ KHEAP_BLOCK_NUM \in Nat
    BY <2>1, <1>2, PowersOfTwo, Sizes
  <2>6. up \in Ids /\ up # id
    BY <2>3, <2>4, <2>5, <1>2 DEF Ids
  <2>7. Inside(h, up, id)
    BY <2>3, <2>5, <1>2, <1>3 DEF Inside, Extent
  <2> HIDE DEF up
  <2>8. ~IsStart(h, up)
    BY <2>6, <2>7, <1>1, <1>3, StartsApart
  <2>9. h.order[up] = 0 /\ ~h.isAllocated[up] /\ h.next[up] = NULL
    BY <2>6, <2>8 DEF Sound, IsStart
  <2> QED
    BY <2>2, <2>3, <2>6, <2>9 DEF up
<1>6. \A x \in Ids : h.prev[x] = NULL
  BY DEF Sound
<1>7. Splittable(h, from, o)
  BY <1>1, <1>3, <1>5, <1>6 DEF Splittable, id
<1> QED
  BY <1>3, <1>4, <1>7 DEF id

\* The fields of the heap that kmalloc leaves of a sound one.
LEMMA TakenFields ==
  ASSUME NEW h, Sound(h), NEW o \in Orders, NEW from \in Candidates(h, o),
         \A j \in Candidates(h, o) : from <= j
  PROVE  LET id == h.front[from]
             t  == Taken(h, from, o)
         IN  /\ t \in HeapType
             /\ \A x \in Ids : t.prev[x] = NULL /\ t.next[x] = NULL
             /\ \A x \in Ids : t.isAllocated[x] <=> x = id \/ h.isAllocated[x]
             /\ \A x \in Ids : t.order[x] = IF x = id THEN o
                                            ELSE IF x \in Uppers(id, from, o) THEN log2(x - id)
                                            ELSE h.order[x]
             /\ \A j \in Orders : t.front[j] = IF j \in o .. from - 1 THEN id + pow2[j]
                                               ELSE IF j = from THEN NULL ELSE h.front[j]
<1> DEFINE id == h.front[from]
           g  == SplitTo(h, from, o)
           t  == Taken(h, from, o)
<1>1. Splittable(h, from, o)
  BY SoundSplits
<1>2. /\ h \in HeapType /\ from \in Orders /\ id \in Ids /\ o <= from
      /\ \A j \in o .. from - 1 : id + pow2[j] \in Ids
  BY <1>1 DEF Splittable
<1>3. from \in Nat /\ o \in Nat /\ id \in Nat /\ o \in o .. from
  <2>1. from \in Nat /\ o \in Nat /\ id \in Nat
    BY <1>2, Sizes
  <2> QED
    BY <2>1, <1>2
<1>4. /\ g \in HeapType
      /\ g.order \in [Ids -> Orders] /\ g.next \in [Ids -> Ids \cup {NULL}]
      /\ g.front \in [Orders -> Ids \cup {NULL}]
      /\ \A x \in Ids : g.order[x] = IF x = id THEN o
                                     ELSE IF x \in Uppers(id, from, o) THEN log2(x - id)
                                     ELSE h.order[x]
      /\ \A x \in Ids : g.next[x] =
           IF x = id THEN IF o = from THEN h.next[id] ELSE id + pow2[o]
           ELSE IF x \in Uppers(id, from, o) THEN NULL ELSE h.next[x]
      /\ \A j \in Orders : g.front[j] =
           IF j = o THEN id ELSE IF j \in o + 1 .. from - 1 THEN id + pow2[j]
           ELSE IF j = from THEN h.next[id] ELSE h.front[j]
  BY <1>1, <1>3, SplitToFields
<1>5. /\ h.isAllocated \in [Ids -> BOOLEAN] /\ h.prev \in [Ids -> Ids \cup {NULL}]
      /\ \A x \in Ids : h.prev[x] = NULL /\ h.next[x] = NULL
  BY <1>2 DEF Sound, HeapType
<1>6. t = [order       |-> g.order,
           isAllocated |-> [h.isAllocated EXCEPT ![id] = TRUE],
           prev        |-> h.prev,
           next        |-> [g.next EXCEPT ![id] = NULL],
           front       |-> [g.front EXCEPT ![o] = g.next[id]]]
  BY DEF Taken
<1> HIDE DEF id, g, t
<1>7. g.next[id] = IF o = from THEN NULL ELSE id + pow2[o]
  BY <1>2, <1>4, <1>5
<1>8. g.next[id] \in Ids \cup {NULL}
  BY <1>2, <1>4
<1>9. \A x \in Ids : t.prev[x] = NULL /\ t.next[x] = NULL
  BY <1>2, <1>4, <1>5, <1>6
<1>10. t \in HeapType
  <2>1. [h.isAllocated EXCEPT ![id] = TRUE] \in [Ids -> BOOLEAN]
    BY <1>5
  <2>2. [g.next EXCEPT ![id] = NULL] \in [Ids -> Ids \cup {NULL}]
    BY <1>4
  <2>3. [g.front EXCEPT ![o] = g.next[id]] \in [Orders -> Ids \cup {NULL}]
    BY <1>4, <1>8
  <2> QED
    BY <2>1, <2>2, <2>3, <1>4, <1>5, <1>6 DEF HeapType
<1>11. \A x \in Ids : t.isAllocated[x] <=> x = id \/ h.isAllocated[x]
  BY <1>2, <1>5, <1>6
<1>12. ASSUME NEW j \in Orders
       PROVE  t.front[j] = IF j \in o .. from - 1 THEN id + pow2[j]
                           ELSE IF j = from THEN NULL ELSE h.front[j]
  <2>1. j \in Nat
    BY Sizes
  <2>2. CASE j = o
    BY <2>1, <2>2, <1>3, <1>4, <1>6, <1>7, <1>2
  <2>3. CASE j # o
    <3>1. t.front[j] = g.front[j]
      BY <2>3, <1>4, <1>6
    <3>2. j \in o + 1 .. from - 1 <=> j \in o .. from - 1
      BY <2>1, <2>3, <1>3
    <3> QED
      BY <2>3, <3>1, <3>2, <1>2, <1>4, <1>5
  <2> QED
    BY <2>2, <2>3
<1>13. \A x \in Ids : t.order[x] = IF x = id THEN o
                                   ELSE IF x \in Uppers(id, from, o) THEN log2(x - id)
                                   ELSE h.order[x]
  BY <1>4, <1>6
<1> QED
  BY <1>9, <1>10, <1>11, <1>12, <1>13 DEF id, t

\* The heap that kmalloc leaves of a sound one is sound.
LEMMA TakenSound ==
  ASSUME NEW h, Sound(h), NEW o \in Orders, NEW from \in Candidates(h, o),
         \A j \in Candidates(h, o) : from <= j
  PROVE  Sound(Taken(h, from, o))
<1> DEFINE id == h.front[from]
           t  == Taken(h, from, o)
           U  == Uppers(id, from, o)
<1>1. /\ Splittable(h, from, o) /\ IsStart(h, id) /\ h.order[id] = from
      /\ from < KHEAP_MAX_ORDER => h.isAllocated[Buddy(id, from)]
      /\ \E q \in Nat : id = q * pow2[from]
  BY SoundSplits
<1>2. /\ h \in HeapType /\ from \in Orders /\ id \in Ids /\ o <= from
      /\ \A j \in o .. from - 1 :
           /\ h.front[j] = NULL
           /\ id + pow2[j] \in Ids /\ Buddy(id, j) = id + pow2[j]
           /\ h.order[id + pow2[j]] = 0 /\ ~h.isAllocated[id + pow2[j]]
  BY <1>1 DEF Splittable
<1>3. from \in Nat /\ o \in Nat /\ id \in Nat /\ id # NULL
  BY <1>2, Sizes
<1>4. /\ t \in HeapType
      /\ \A x \in Ids : t.prev[x] = NULL /\ t.next[x] = NULL
      /\ \A x \in Ids : t.isAllocated[x] <=> x = id \/ h.isAllocated[x]
      /\ \A x \in Ids : t.order[x] = IF x = id THEN o
                                     ELSE IF x \in U THEN log2(x - id)
                                     ELSE h.order[x]
      /\ \A j \in Orders : t.front[j] = IF j \in o .. from - 1 THEN id + pow2[j]
                                        ELSE IF j = from THEN NULL ELSE h.front[j]
  BY TakenFields
<1>5. /\ \A x \in Ids : h.order[x] \in Orders
      /\ \A x \in Ids : ~IsStart(h, x) => h.order[x] = 0
      /\ \A x \in Ids : IsStart(h, x) => \E q \in Nat : x = q * pow2[h.order[x]]
      /\ \A j \in Orders : h.front[j] # NULL =>
           /\ h.front[j] \in Ids /\ h.order[h.front[j]] = j /\ ~h.isAllocated[h.front[j]]
           /\ j < KHEAP_MAX_ORDER =>
                Buddy(h.front[j], j) \in Ids /\ h.isAllocated[Buddy(h.front[j], j)]
  BY DEF Sound, HeapType
<1>6. \A j \in Nat : pow2[j] \in Nat \ {0}
  BY PowersOfTwo
<1> HIDE DEF id, t
<1>7. ASSUME NEW j \in o .. from - 1
      PROVE  /\ j \in Orders /\ j \in Nat /\ j < from /\ id + pow2[j] \in U
             /\ id + pow2[j] # id
             /\ 2 * pow2[j] <= pow2[from] /\ Buddy(id + pow2[j], j) = id
             /\ (\E q \in Nat : id + pow2[j] = q * pow2[j])
             /\ t.order[id + pow2[j]] = j /\ t.front[j] = id + pow2[j]
             /\ ~t.isAllocated[id + pow2[j]]
             /\ ~IsStart(h, id + pow2[j])
  <2>1. j \in Nat /\ j < from /\ j \in Orders
    <3>1. from \in 0 .. KHEAP_MAX_ORDER
      BY <1>2 DEF Orders
    <3> QED
      BY <3>1, <1>3, KHeapAssumption DEF Orders
  <2>2. PICK q \in Nat : id = q * pow2[from]
    BY <1>1 DEF id
  <2>3. /\ 2 * pow2[j] <= pow2[from] /\ Buddy(id + pow2[j], j) = id
        /\ (\E p \in Nat : id + pow2[j] = p * pow2[j])
    BY <2>1, <2>2, <1>3, Halves
  <2>4. id + pow2[j] # id /\ (id + pow2[j]) - id = pow2[j] /\ id + pow2[j] \in Ids
    BY <2>1, <1>2, <1>3, <1>6
  <2>5. id + pow2[j] \in U
    BY DEF Uppers
  <2>6. t.order[id + pow2[j]] = log2((id + pow2[j]) - id)
    BY <2>4, <2>5, <1>4
  <2>7. t.order[id + pow2[j]] = j
    BY <2>1, <2>4, <2>6, LogOfPower
  <2>8. ~t.isAllocated[id + pow2[j]]
    BY <2>4, <1>2, <1>4
  <2>9. ~IsStart(h, id + pow2[j])
    <3>1. Inside(h, id + pow2[j], id)
      <4>1. h.order[id] = from
        BY <1>1 DEF id
      <4>2. pow2[j] \in Nat \ {0} /\ pow2[from] \in Nat \ {0}
        BY <2>1, <1>3, <1>6
      <4> QED
        BY <4>1, <4>2, <2>3, <1>3 DEF Inside, Extent
    <3>2. IsStart(h, id)
      BY <1>1 DEF id
    <3> QED
      BY <3>1, <3>2, <2>4, <1>2, StartsApart
  <2> QED
    BY <2>1, <2>3, <2>4, <2>5, <2>7, <2>8, <2>9, <1>4
<1>8. \A x \in U : \E j \in o .. from - 1 : x = id + pow2[j]
  BY DEF Uppers
<1>9. id \notin U
  BY <1>7, <1>8
<1> HIDE DEF U
<1>10. IsStart(t, id) /\ t.order[id] = o
  BY <1>2, <1>4, <1>9 DEF IsStart
<1>11. ASSUME NEW j \in o .. from - 1
       PROVE  IsStart(t, id + pow2[j])
  BY <1>7 DEF IsStart
<1>12. ASSUME NEW x \in Ids, x # id, x \notin U
       PROVE  /\ IsStart(t, x) <=> IsStart(h, x)
              /\ t.order[x] = h.order[x]
  <2>1. t.order[x] = h.order[x] /\ (t.isAllocated[x] <=> h.isAllocated[x]) /\ h.order[x] \in Orders
    BY <1>4, <1>5, <1>12
  <2> DEFINE j == h.order[x]
  <2>2. CASE j \in o .. from - 1
    <3>1. t.front[j] # x /\ h.front[j] # x
      <4>1. x \in Nat
        BY Sizes
      <4>2. x # NULL
        BY Sizes
      <4> QED
        BY <2>1, <2>2, <4>2, <1>2, <1>7, <1>12
    <3> QED
      BY <2>1, <3>1 DEF IsStart
  <2>3. CASE j = from
    <3>1. h.front[j] = id
      BY <2>3 DEF id
    <3>2. x # NULL
      BY Sizes
    <3>3. t.front[j] = NULL
      BY <2>3, <1>2, <1>3, <1>4
    <3> QED
      BY <2>1, <3>1, <3>2, <3>3, <1>12 DEF IsStart
  <2>4. CASE j \notin o .. from - 1 /\ j # from
    <3>1. t.front[j] = h.front[j]
      BY <2>1, <2>4, <1>4
    <3> QED
      BY <2>1, <3>1 DEF IsStart
  <2> QED
    BY <2>1, <2>2, <2>3, <2>4

<1>13. ASSUME NEW x \in Ids
       PROVE  /\ IsStart(t, x) => \E q \in Nat : x = q * pow2[t.order[x]]
              /\ ~IsStart(t, x) => t.order[x] = 0
  <2>1. CASE x = id
    <3>1. PICK q \in Nat : id = q * pow2[from]
      BY <1>1 DEF id
    <3>2. \E p \in Nat : id = p * pow2[o]
      <4>1. CASE o = from
        BY <3>1, <4>1
      <4>2. CASE o # from
        <5>1. o < from
          BY <4>2, <1>2, <1>3
        <5> QED
          BY <5>1, <3>1, <1>3, Halves
      <4> QED
        BY <4>1, <4>2
    <3> QED
      BY <2>1, <3>2, <1>10
  <2>2. CASE x \in U
    <3>1. PICK j \in o .. from - 1 : x = id + pow2[j]
      BY <2>2, <1>8
    <3>2. IsStart(t, x) /\ t.order[x] = j /\ \E q \in Nat : x = q * pow2[j]
      BY <3>1, <1>7, <1>11
    <3> QED
      BY <3>2
  <2>3. CASE x # id /\ x \notin U
    <3>1. (IsStart(t, x) <=> IsStart(h, x)) /\ t.order[x] = h.order[x]
      BY <2>3, <1>12
    <3>2. IsStart(h, x) => \E q \in Nat : x = q * pow2[h.order[x]]
      BY <1>5
    <3> QED
      BY <3>1, <3>2, <1>5
  <2> QED
    BY <2>1, <2>2, <2>3
<1>14. ASSUME NEW j \in Orders, t.front[j] # NULL
       PROVE  /\ t.order[t.front[j]] = j /\ ~t.isAllocated[t.front[j]]
              /\ j < KHEAP_MAX_ORDER =>
                   Buddy(t.front[j], j) \in Ids /\ t.isAllocated[Buddy(t.front[j], j)]
  <2>1. CASE j \in o .. from - 1
    <3>1. t.isAllocated[id] = TRUE
      BY <1>2, <1>4
    <3> QED
      BY <2>1, <3>1, <1>2, <1>7
  <2>2. CASE j \notin o .. from - 1
    <3>1. t.front[j] = h.front[j] /\ j # from
      BY <2>2, <1>4, <1>14
    <3> DEFINE y == h.front[j]
    <3>2. /\ y \in Ids /\ h.order[y] = j /\ ~h.isAllocated[y]
          /\ j < KHEAP_MAX_ORDER => Buddy(y, j) \in Ids /\ h.isAllocated[Buddy(y, j)]
      BY <3>1, <1>5, <1>14
    <3>3. IsStart(h, y)
      BY <3>2 DEF IsStart
    <3>4. y # id
      BY <3>1, <3>2, <1>1 DEF id
    <3>5. y \notin U
      BY <3>3, <1>7, <1>8
    <3> HIDE DEF y
    <3>6. t.order[y] = j /\ ~t.isAllocated[y]
      BY <3>2, <3>4, <3>5, <1>4
    <3>7. j < KHEAP_MAX_ORDER => t.isAllocated[Buddy(y, j)]
      BY <3>2, <1>4
    <3> QED
      BY <3>1, <3>2, <3>6, <3>7 DEF y
  <2> QED
    BY <2>1, <2>2
<1>15. /\ \A b \in Ids : Inside(h, b, id) <=> (id <= b /\ b < id + pow2[from])
       /\ \A b \in Ids : Inside(t, b, id) <=> (id <= b /\ b < id + pow2[o])
       /\ \A j \in o .. from - 1 : \A b \in Ids :
            Inside(t, b, id + pow2[j]) <=> (id + pow2[j] <= b /\ b < id + 2 * pow2[j])
  <2>1. \A b \in Ids : b \in Nat
    BY Sizes
  <2>2. h.order[id] = from
    BY <1>1 DEF id
  <2>3. pow2[from] \in Nat /\ pow2[o] \in Nat
    BY <1>3, <1>6
  <2>4. \A b \in Ids : Inside(h, b, id) <=> (id <= b /\ b < id + pow2[from])
    BY <2>1, <2>2, <2>3, <1>3 DEF Inside, Extent
  <2>5. \A b \in Ids : Inside(t, b, id) <=> (id <= b /\ b < id + pow2[o])
    BY <2>1, <2>3, <1>3, <1>10 DEF Inside, Extent
  <2>6. ASSUME NEW j \in o .. from - 1, NEW b \in Ids
        PROVE  Inside(t, b, id + pow2[j]) <=> (id + pow2[j] <= b /\ b < id + 2 * pow2[j])
    <3>1. t.order[id + pow2[j]] = j /\ pow2[j] \in Nat
      BY <1>6, <1>7
    <3>2. Inside(t, b, id + pow2[j]) <=> b \in id + pow2[j] .. id + pow2[j] + pow2[j] - 1
      BY <3>1 DEF Inside, Extent
    <3> QED
      BY <3>1, <3>2, <2>1, <1>3
  <2> QED
    BY <2>4, <2>5, <2>6
<1>16. ASSUME NEW b \in Ids, NEW x \in Ids, IsStart(t, x), Inside(t, b, x), x = id \/ x \in U
       PROVE  Inside(h, b, id)
  <2>1. b \in Nat /\ pow2[from] \in Nat
    BY Sizes, <1>3, <1>6
  <2>2. CASE x = id
    <3>1. pow2[o] <= pow2[from] /\ pow2[o] \in Nat
      BY <1>2, <1>3, <1>6, PowersGrow
    <3> QED
      BY <2>1, <2>2, <3>1, <1>3, <1>15, <1>16
  <2>3. CASE x \in U
    <3>1. PICK j \in o .. from - 1 : x = id + pow2[j]
      BY <2>3, <1>8
    <3>2. 2 * pow2[j] <= pow2[from] /\ pow2[j] \in Nat
      BY <1>6, <1>7
    <3>3. id + pow2[j] <= b /\ b < id + 2 * pow2[j]
      BY <3>1, <1>15, <1>16
    <3>4. id <= b /\ b < id + pow2[from]
      BY <2>1, <3>2, <3>3, <1>3
    <3> QED
      BY <3>4, <1>15
  <2> QED
    BY <2>2, <2>3, <1>16
<1>17. ASSUME NEW b \in Ids, Inside(h, b, id)
       PROVE  \E x \in Ids : (x = id \/ x \in U) /\ Inside(t, b, x)
  <2>1. b \in Nat /\ id <= b /\ b < id + pow2[from] /\ pow2[o] \in Nat \ {0}
    BY Sizes, <1>3, <1>6, <1>15, <1>17
  <2>2. CASE b < id + pow2[o]
    BY <2>1, <2>2, <1>2, <1>15
  <2>3. CASE id + pow2[o] <= b
    <3> DEFINE d == b - id
               r == log2(d)
    <3>1. d \in Nat \ {0} /\ pow2[o] <= d /\ d < pow2[from]
      BY <2>1, <2>3, <1>3, <1>6
    <3>2. r \in Nat /\ pow2[r] <= d /\ d < pow2[r + 1]
      <4> HIDE DEF d
      <4> QED
        BY <3>1, Log2Is
    <3> HIDE DEF r
    <3>3. pow2[r] \in Nat /\ pow2[r + 1] = 2 * pow2[r] /\ pow2[from] \in Nat
      BY <3>2, <1>3, PowersOfTwo
    <3>4. o <= r
      <4> SUFFICES ASSUME r + 1 <= o
                   PROVE  FALSE
        BY <3>2, <1>3
      <4>1. pow2[r + 1] <= pow2[o]
        BY <3>2, <1>3, PowersGrow
      <4> HIDE DEF d
      <4> QED
        BY <4>1, <3>1, <3>2, <3>3, <2>1
    <3>5. r < from
      <4> SUFFICES ASSUME from <= r
                   PROVE  FALSE
        BY <3>2, <1>3
      <4>1. pow2[from] <= pow2[r]
        BY <3>2, <1>3, PowersGrow
      <4> HIDE DEF d
      <4> QED
        BY <4>1, <3>1, <3>2, <3>3
    <3>6. r \in o .. from - 1
      BY <3>2, <3>4, <3>5, <1>3
    <3>7. id + pow2[r] <= b /\ b < id + 2 * pow2[r]
      BY <2>1, <3>2, <3>3, <1>3
    <3>8. Inside(t, b, id + pow2[r])
      BY <3>6, <3>7, <1>15
    <3> QED
      BY <3>6, <3>8, <1>2, <1>7
  <2> QED
    BY <2>1, <2>2, <2>3, <1>3
<1>18. ASSUME NEW b \in Ids, NEW x \in Ids, NEW y \in Ids, x = id \/ x \in U, y = id \/ y \in U,
              Inside(t, b, x), Inside(t, b, y)
       PROVE  x = y
  <2>1. b \in Nat
    BY Sizes
  <2>2. ASSUME NEW j \in o .. from - 1, Inside(t, b, id), Inside(t, b, id + pow2[j])
        PROVE  FALSE
    <3>1. pow2[o] <= pow2[j] /\ pow2[o] \in Nat /\ pow2[j] \in Nat
      <4>1. j \in Nat /\ o <= j
        BY <1>3
      <4> QED
        BY <4>1, <1>3, <1>6, PowersGrow
    <3>2. b < id + pow2[o] /\ id + pow2[j] <= b
      BY <2>2, <1>15
    <3> QED
      BY <3>1, <3>2, <2>1, <1>3
  <2>3. ASSUME NEW i \in o .. from - 1, NEW j \in o .. from - 1, i < j,
               Inside(t, b, id + pow2[i]), Inside(t, b, id + pow2[j])
        PROVE  FALSE
    <3>1. 2 * pow2[i] <= pow2[j] /\ pow2[i] \in Nat /\ pow2[j] \in Nat
      BY <2>3, <1>3, <1>6, <1>7, PowersGrow
    <3>2. b < id + 2 * pow2[i] /\ id + pow2[j] <= b
      BY <2>3, <1>15
    <3> QED
      BY <3>1, <3>2, <2>1, <1>3
  <2>4. CASE x = id /\ y \in U
    BY <2>2, <2>4, <1>8, <1>18
  <2>5. CASE y = id /\ x \in U
    BY <2>2, <2>5, <1>8, <1>18
  <2>6. CASE x \in U /\ y \in U
    <3>1. PICK i \in o .. from - 1 : x = id + pow2[i]
      BY <2>6, <1>8
    <3>2. PICK j \in o .. from - 1 : y = id + pow2[j]
      BY <2>6, <1>8
    <3>3. i = j \/ i < j \/ j < i
      BY <1>7
    <3>4. CASE i = j
      BY <3>1, <3>2, <3>4
    <3>5. CASE i < j
      BY <3>1, <3>2, <3>5, <2>3, <1>18
    <3>6. CASE j < i
      BY <3>1, <3>2, <3>6, <2>3, <1>18
    <3> QED
      BY <3>3, <3>4, <3>5, <3>6
  <2> QED
    BY <2>4, <2>5, <2>6, <1>18
<1>19. ASSUME NEW x \in Ids, x = id \/ x \in U
       PROVE  IsStart(t, x)
  BY <1>8, <1>10, <1>11, <1>19
<1>20. ASSUME NEW b \in Ids
       PROVE  \E x \in Ids :
                /\ IsStart(t, x) /\ Inside(t, b, x)
                /\ \A y \in Ids : IsStart(t, y) /\ Inside(t, b, y) => y = x
  <2>1. PICK x \in Ids : /\ IsStart(h, x) /\ Inside(h, b, x)
                         /\ \A y \in Ids : IsStart(h, y) /\ Inside(h, b, y) => y = x
    BY DEF Sound
  <2>2. IsStart(h, id)
    BY <1>1 DEF id
  <2>3. ASSUME NEW y \in Ids, y # id, y \notin U
        PROVE  (IsStart(t, y) /\ Inside(t, b, y)) <=> (IsStart(h, y) /\ Inside(h, b, y))
    BY <2>3, <1>12 DEF Inside
  <2>4. CASE x = id
    <3>1. PICK z \in Ids : (z = id \/ z \in U) /\ Inside(t, b, z)
      BY <2>1, <2>4, <1>17
    <3>2. IsStart(t, z)
      BY <3>1, <1>19
    <3>3. ASSUME NEW y \in Ids, IsStart(t, y), Inside(t, b, y)
          PROVE  y = z
      <4>1. CASE y = id \/ y \in U
        BY <3>1, <3>3, <4>1, <1>18
      <4>2. CASE y # id /\ y \notin U
        BY <2>1, <2>3, <2>4, <3>3, <4>2
      <4> QED
        BY <4>1, <4>2
    <3> QED
      BY <3>1, <3>2, <3>3
  <2>5. CASE x # id
    <3>1. x \notin U
      BY <2>1, <1>7, <1>8
    <3>2. IsStart(t, x) /\ Inside(t, b, x)
      BY <2>1, <2>3, <2>5, <3>1
    <3>3. ASSUME NEW y \in Ids, IsStart(t, y), Inside(t, b, y)
          PROVE  y = x
      <4>1. CASE y = id \/ y \in U
        <5>1. Inside(h, b, id)
          BY <3>3, <4>1, <1>16
        <5> QED
          BY <5>1, <2>1, <2>2, <2>5, <1>2
      <4>2. CASE y # id /\ y \notin U
        BY <2>1, <2>3, <3>3, <4>2
      <4> QED
        BY <4>1, <4>2
    <3> QED
      BY <3>2, <3>3
  <2> QED
    BY <2>4, <2>5
<1>21. Sound(t)
  BY <1>4, <1>13, <1>14, <1>20 DEF Sound
<1> QED
  BY <1>21 DEF t

-----------------------------------------------------------------------------
(***************************************************************************)
(* What kmalloc and kfree do in a sound heap                               *)
(***************************************************************************)

\* The order that is asked for has room for the bytes.
LEMMA RequestFits ==
  ASSUME NEW size \in Nat \ {0}
  PROVE  /\ RequestedOrder(size) \in Nat
         /\ BlocksFor(size) \in Nat /\ BlocksFor(size) <= pow2[RequestedOrder(size)]
         /\ pow2[RequestedOrder(size)] * KHEAP_BLOCK_SIZE >= size
<1> DEFINE s == KHEAP_BLOCK_SIZE
           d == size \div s
           n == BlocksFor(size)
<1>1. s \in Nat \ {0}
  BY KHeapAssumption
<1>2. d \in Nat /\ size % s \in 0 .. s - 1 /\ size = s * d + (size % s)
  <2> HIDE DEF s
  <2> QED
    BY <1>1
<1>3. n \in Nat \ {0} /\ n * s >= size
  <2>1. CASE size % s = 0
    <3>1. n = d
      BY <2>1, <1>2 DEF BlocksFor
    <3>2. d # 0
      <4> HIDE DEF d, s
      <4> QED
        BY <1>1, <1>2, <2>1
    <3> HIDE DEF n, d, s
    <3>3. s * d = d * s
      BY <1>1, <1>2
    <3> QED
      BY <3>1, <3>2, <3>3, <1>1, <1>2, <2>1
  <2>2. CASE size % s # 0
    <3>1. n = d + 1
      BY <2>2 DEF BlocksFor
    <3> HIDE DEF n, d, s
    <3>2. (d + 1) * s = s * d + s /\ s * d \in Nat
      BY <1>1, <1>2
    <3> QED
      BY <3>1, <3>2, <1>1, <1>2
  <2> QED
    BY <2>1, <2>2
<1> HIDE DEF n
<1>4. log2(n) \in Nat /\ pow2[log2(n)] <= n /\ n < pow2[log2(n) + 1]
  BY <1>3, Log2Is
<1> DEFINE o == RequestedOrder(size)
<1>5. o = IF pow2[log2(n)] < n THEN log2(n) + 1 ELSE log2(n)
  BY DEF RequestedOrder, n
<1>6. o \in Nat /\ pow2[o] >= n /\ pow2[o] \in Nat
  <2>1. pow2[log2(n)] \in Nat /\ pow2[log2(n) + 1] \in Nat
    BY <1>4, PowersOfTwo
  <2> HIDE DEF o
  <2> QED
    BY <2>1, <1>3, <1>4, <1>5
<1> HIDE DEF o, s
<1>7. pow2[o] * s >= n * s
  <2> DEFINE x == pow2[o]
             z == x - n
  <2>1. z \in Nat /\ x = n + z
    BY <1>3, <1>6
  <2> HIDE DEF z, x
  <2>2. x * s = n * s + z * s /\ z * s \in Nat /\ n * s \in Nat
    BY <2>1, <1>1, <1>3
  <2> QED
    BY <2>2 DEF x
<1>8. pow2[o] * s \in Nat /\ n * s \in Nat
  BY <1>1, <1>3, <1>6
<1>9. pow2[o] * s >= size
  BY <1>3, <1>7, <1>8
<1> QED
  BY <1>3, <1>6, <1>9 DEF o, s, n

\* An allocation from a sound heap.
LEMMA Allocates ==
  ASSUME NEW h, Sound(h), NEW size \in Nat \ {0}, kmalloc(h, size).block # NULL
  PROVE  LET r == kmalloc(h, size)
         IN  /\ Sound(r.heap) /\ r.block \in Ids /\ kfree(r.heap, r.block) = h
             /\ ~h.isAllocated[r.block]
             /\ r.heap.order[r.block] = RequestedOrder(size)
             /\ \A x \in Ids : r.heap.isAllocated[x] <=> x = r.block \/ h.isAllocated[x]
             /\ \A x \in Ids : h.isAllocated[x] => r.heap.order[x] = h.order[x]
<1> DEFINE o == RequestedOrder(size)
           C == Candidates(h, o)
           r == kmalloc(h, size)
<1>1. o \in Nat
  BY RequestFits
<1>2. ~(size > KHEAP_HEAP_SIZE) /\ C # {}
  <2> SUFFICES ASSUME size > KHEAP_HEAP_SIZE \/ C = {}
               PROVE  FALSE
    OBVIOUS
  <2>1. r = [heap |-> h, block |-> NULL]
    BY DEF kmalloc
  <2> HIDE DEF r
  <2> QED
    BY <2>1 DEF r
<1>3. C \subseteq Orders /\ Orders \subseteq Nat
  BY Sizes DEF Candidates
<1>4. PICK from \in C : \A j \in C : from <= j
  <2> HIDE DEF C
  <2> QED
    BY <1>2, <1>3, LeastNumber
<1>5. o \in Orders /\ from \in Candidates(h, o) /\ \A j \in Candidates(h, o) : from <= j
  <2>1. from \in Orders /\ o <= from
    BY DEF Candidates
  <2>2. from \in 0 .. KHEAP_MAX_ORDER
    BY <2>1 DEF Orders
  <2>3. o \in 0 .. KHEAP_MAX_ORDER
    <3> HIDE DEF o
    <3> QED
      BY <2>1, <2>2, <1>1, KHeapAssumption
  <2> QED
    BY <2>3, <1>4 DEF Orders
<1> DEFINE id == h.front[from]
           t  == Taken(h, from, o)
<1>6. /\ Splittable(h, from, o)
      /\ from < KHEAP_MAX_ORDER => h.isAllocated[Buddy(id, from)]
  <2> HIDE DEF o
  <2> QED
    BY <1>5, SoundSplits
<1>7. r = [heap |-> t, block |-> id]
  BY <1>1, <1>2, <1>5, <1>6, kmallocIs
<1>8. Sound(t)
  <2> HIDE DEF o
  <2> QED
    BY <1>5, TakenSound
<1>9. kfree(t, id) = h
  <2> HIDE DEF o
  <2> QED
    BY <1>6, kfreeIs
<1>10. id \in Ids /\ ~h.isAllocated[id]
       /\ \A j \in o .. from - 1 : id + pow2[j] \in Ids /\ ~h.isAllocated[id + pow2[j]]
  BY <1>6 DEF Splittable
<1>11. /\ \A x \in Ids : t.isAllocated[x] <=> x = id \/ h.isAllocated[x]
       /\ \A x \in Ids : t.order[x] = IF x = id THEN o
                                      ELSE IF x \in Uppers(id, from, o) THEN log2(x - id)
                                      ELSE h.order[x]
  <2> HIDE DEF o
  <2> QED
    BY <1>5, TakenFields
<1>12. \A x \in Ids : h.isAllocated[x] => x # id /\ x \notin Uppers(id, from, o)
  <2> HIDE DEF o, id
  <2> QED
    BY <1>10 DEF Uppers
<1> HIDE DEF o, t, id
<1>13. t.order[id] = o /\ \A x \in Ids : h.isAllocated[x] => t.order[x] = h.order[x]
  BY <1>10, <1>11, <1>12
<1> HIDE DEF r
<1>14. r.heap = t /\ r.block = id
  BY <1>7
<1> QED
  BY <1>8, <1>9, <1>10, <1>11, <1>13, <1>14 DEF o, r

\* The heap that kHeapInit makes: one free block.
LEMMA InitialSound ==
  /\ Sound(kHeapInit)
  /\ \A x \in Ids : ~kHeapInit.isAllocated[x]
<1> DEFINE h == kHeapInit
           M == KHEAP_MAX_ORDER
<1>1. M \in Nat /\ M \in Orders /\ 0 \in Orders /\ 0 \in Ids
      /\ pow2[M] \in Nat \ {0}
  BY KHeapAssumption, PowersOfTwo DEF Orders, Ids, KHEAP_BLOCK_NUM
<1>2. NULL \notin Ids /\ Ids \subseteq Nat /\ Orders \subseteq Nat
  BY Sizes
<1>3. /\ \A x \in Ids : h.order[x] = IF x = 0 THEN M ELSE 0
      /\ \A x \in Ids : ~h.isAllocated[x]
      /\ \A x \in Ids : h.prev[x] = NULL /\ h.next[x] = NULL
      /\ \A o \in Orders : h.front[o] = IF o = M THEN 0 ELSE NULL
  BY DEF kHeapInit
<1>4. h \in HeapType
  BY <1>1 DEF kHeapInit, HeapType
<1> HIDE DEF h
<1>5. \A x \in Ids : IsStart(h, x) <=> x = 0
  <2> SUFFICES ASSUME NEW x \in Ids
               PROVE  IsStart(h, x) <=> x = 0
    OBVIOUS
  <2>1. CASE x = 0
    BY <2>1, <1>1, <1>3 DEF IsStart
  <2>2. CASE x # 0
    <3>1. ~h.isAllocated[x] /\ h.order[x] = 0
      BY <2>2, <1>3
    <3>2. h.front[0] \in {0, NULL}
      BY <1>1, <1>3
    <3> QED
      BY <2>2, <3>1, <3>2, <1>2 DEF IsStart
  <2> QED
    BY <2>1, <2>2
<1>6. \A b \in Ids : Inside(h, b, 0)
  <2>1. h.order[0] = M
    BY <1>1, <1>3
  <2> QED
    BY <2>1, <1>1 DEF Inside, Extent, Ids, KHEAP_BLOCK_NUM
<1>7. ASSUME NEW o \in Orders, h.front[o] # NULL
      PROVE  h.order[h.front[o]] = o /\ ~h.isAllocated[h.front[o]] /\ ~(o < M)
  <2>1. o = M /\ h.front[o] = 0
    BY <1>3, <1>7
  <2> QED
    BY <2>1, <1>1, <1>3
<1>8. \E q \in Nat : 0 = q * pow2[h.order[0]]
  <2>1. h.order[0] = M /\ 0 \in Nat /\ 0 = 0 * pow2[M]
    BY <1>1, <1>3
  <2> QED
    BY <2>1
<1>9. \A x \in Ids : ~IsStart(h, x) => h.order[x] = 0
  BY <1>3, <1>5
<1>10. \A x \in Ids : IsStart(h, x) => \E q \in Nat : x = q * pow2[h.order[x]]
  BY <1>5, <1>8
<1>11. \A b \in Ids : \E x \in Ids :
         /\ IsStart(h, x) /\ Inside(h, b, x)
         /\ \A y \in Ids : IsStart(h, y) /\ Inside(h, b, y) => y = x
  BY <1>1, <1>5, <1>6
<1>12. Sound(h)
  BY <1>3, <1>4, <1>7, <1>9, <1>10, <1>11 DEF Sound
<1> QED
  BY <1>3, <1>12 DEF h

-----------------------------------------------------------------------------
(***************************************************************************)
(* The inductive invariant: behind the heap stand the heaps before each    *)
(* live allocation, from the initial one on; freeing the last allocation   *)
(* leads one back.                                                         *)
(***************************************************************************)
Allocation == [block : Ids, size : RequestSizes]

\* The first n entries of the list l are what is handed out in the heap h.
Records(h, l, n) ==
  /\ \A x \in Ids : h.isAllocated[x] <=> \E i \in 1 .. n : l[i].block = x
  /\ \A i \in 1 .. n : h.order[l[i].block] = RequestedOrder(l[i].size)

Past(H, h, l) ==
  /\ l \in Seq(Allocation)
  /\ H[Len(l)] = h
  /\ \A n \in 0 .. Len(l) : Sound(H[n]) /\ Records(H[n], l, n)
  /\ \A n \in 1 .. Len(l) : kfree(H[n], l[n].block) = H[n - 1]
  /\ \A i, j \in 1 .. Len(l) : l[i].block = l[j].block => i = j

HeapInv == \E H : Past(H, heap, live)

\* Nothing stands behind the initial heap.
LEMMA PastBegins ==
  \E H : Past(H, kHeapInit, <<>>)
<1> DEFINE H == [n \in {0} |-> kHeapInit]
           l == <<>>
<1>1. l \in Seq(Allocation) /\ Len(l) = 0
  OBVIOUS
<1>2. H[0] = kHeapInit /\ 0 .. 0 = {0} /\ 1 .. 0 = {}
  OBVIOUS
<1> HIDE DEF H, l
<1>3. Sound(H[0]) /\ Records(H[0], l, 0)
  BY <1>2, InitialSound DEF Records
<1>4. Past(H, kHeapInit, l)
  BY <1>1, <1>2, <1>3 DEF Past
<1> QED
  BY <1>4 DEF l

\* Behind the heap after kmalloc stands the one before it.
LEMMA PastGrows ==
  ASSUME NEW h, NEW l, NEW H, Past(H, h, l), NEW size \in RequestSizes,
         kmalloc(h, size).block # NULL
  PROVE  \E G : Past(G, kmalloc(h, size).heap,
                     Append(l, [block |-> kmalloc(h, size).block, size |-> size]))
<1> DEFINE r == kmalloc(h, size)
           e == [block |-> r.block, size |-> size]
           k == Append(l, e)
           m == Len(l)
           G == [n \in 0 .. m + 1 |-> IF n = m + 1 THEN r.heap ELSE H[n]]
<1>1. /\ l \in Seq(Allocation) /\ m \in Nat /\ H[m] = h
      /\ \A n \in 0 .. m : Sound(H[n]) /\ Records(H[n], l, n)
      /\ \A n \in 1 .. m : kfree(H[n], l[n].block) = H[n - 1]
      /\ \A i, j \in 1 .. m : l[i].block = l[j].block => i = j
  BY DEF Past
<1>2. Sound(h) /\ Records(h, l, m) /\ size \in Nat \ {0}
  <2>1. m \in 0 .. m
    BY <1>1
  <2> HIDE DEF m
  <2> QED
    BY <2>1, <1>1, KHeapAssumption
<1>3. /\ Sound(r.heap) /\ r.block \in Ids /\ kfree(r.heap, r.block) = h
      /\ ~h.isAllocated[r.block]
      /\ r.heap.order[r.block] = RequestedOrder(size)
      /\ \A x \in Ids : r.heap.isAllocated[x] <=> x = r.block \/ h.isAllocated[x]
      /\ \A x \in Ids : h.isAllocated[x] => r.heap.order[x] = h.order[x]
  BY <1>2, Allocates
<1> HIDE DEF r
<1>4. e \in Allocation /\ e.block = r.block /\ e.size = size
  BY <1>3 DEF Allocation
<1>5. k \in Seq(Allocation) /\ Len(k) = m + 1 /\ k[m + 1] = e
      /\ \A i \in 1 .. m : k[i] = l[i]
  <2> HIDE DEF e
  <2> QED
    BY <1>1, <1>4
<1>6. \A i \in 1 .. m : l[i].block \in Ids
  <2>1. \A i \in 1 .. m : l[i] \in Allocation
    BY <1>1
  <2> HIDE DEF m
  <2> QED
    BY <2>1 DEF Allocation
<1>7. G[m + 1] = r.heap /\ \A n \in 0 .. m : G[n] = H[n]
  BY <1>1
<1> HIDE DEF e, k, m, G
<1>8. 1 .. m + 1 = (1 .. m) \cup {m + 1} /\ 0 .. m + 1 = (0 .. m) \cup {m + 1}
      /\ m + 1 \notin 1 .. m /\ (m + 1) - 1 = m /\ m \in 0 .. m
  BY <1>1
<1>9. Records(r.heap, k, m + 1)
  <2>1. ASSUME NEW x \in Ids
        PROVE  r.heap.isAllocated[x] <=> \E i \in 1 .. m + 1 : k[i].block = x
    <3>1. h.isAllocated[x] <=> \E i \in 1 .. m : l[i].block = x
      BY <1>2 DEF Records
    <3> QED
      BY <3>1, <1>3, <1>4, <1>5, <1>8
  <2>2. ASSUME NEW i \in 1 .. m
        PROVE  r.heap.order[k[i].block] = RequestedOrder(k[i].size)
    <3>1. h.isAllocated[l[i].block] /\ h.order[l[i].block] = RequestedOrder(l[i].size)
      BY <1>2, <1>6 DEF Records
    <3> QED
      BY <3>1, <1>3, <1>5, <1>6
  <2>3. r.heap.order[k[m + 1].block] = RequestedOrder(k[m + 1].size)
    BY <1>3, <1>4, <1>5
  <2> QED
    BY <2>1, <2>2, <2>3, <1>8 DEF Records
<1>10. ASSUME NEW n \in 0 .. m + 1
       PROVE  Sound(G[n]) /\ Records(G[n], k, n)
  <2>1. CASE n = m + 1
    BY <2>1, <1>3, <1>7, <1>9
  <2>2. CASE n \in 0 .. m
    <3>1. Sound(H[n]) /\ Records(H[n], l, n) /\ G[n] = H[n]
      BY <2>2, <1>1, <1>7
    <3>2. \A i \in 1 .. n : k[i] = l[i]
      <4>1. \A i \in 1 .. n : i \in 1 .. m
        BY <2>2, <1>1
      <4> QED
        BY <4>1, <1>5
    <3>3. Records(H[n], k, n)
      BY <3>1, <3>2 DEF Records
    <3> QED
      BY <3>1, <3>3
  <2> QED
    BY <2>1, <2>2, <1>8
<1>11. ASSUME NEW n \in 1 .. m + 1
       PROVE  kfree(G[n], k[n].block) = G[n - 1]
  <2>1. CASE n = m + 1
    BY <2>1, <1>1, <1>3, <1>4, <1>5, <1>7, <1>8
  <2>2. CASE n \in 1 .. m
    <3>1. n \in 0 .. m /\ n - 1 \in 0 .. m
      BY <2>2, <1>1
    <3> QED
      BY <2>2, <3>1, <1>1, <1>5, <1>7
  <2> QED
    BY <2>1, <2>2, <1>8
<1>12. ASSUME NEW i \in 1 .. m + 1, NEW j \in 1 .. m + 1, k[i].block = k[j].block
       PROVE  i = j
  <2>1. \A a \in 1 .. m : k[a].block # r.block
    <3>1. \A a \in 1 .. m : h.isAllocated[l[a].block]
      BY <1>2, <1>6 DEF Records
    <3> QED
      BY <3>1, <1>3, <1>5
  <2> QED
    BY <2>1, <1>1, <1>4, <1>5, <1>8, <1>12
<1>13. Past(G, r.heap, k)
  BY <1>5, <1>7, <1>10, <1>11, <1>12 DEF Past
<1> QED
  BY <1>13 DEF k, e, r

\* A list without its last entry.
LEMMA FirstOnes ==
  ASSUME NEW S, NEW l \in Seq(S), l # <<>>
  PROVE  LET k == SubSeq(l, 1, Len(l) - 1)
         IN  /\ k \in Seq(S) /\ Len(k) = Len(l) - 1
             /\ \A i \in 1 .. Len(l) - 1 : k[i] = l[i]
<1> DEFINE m == Len(l) - 1
           k == SubSeq(l, 1, m)
<1>1. Len(l) \in Nat /\ m \in Nat
  OBVIOUS
<1>2. Len(k) = m
  BY <1>1
<1>3. \A i \in 1 .. m : k[i] = l[i] /\ l[i] \in S
  BY <1>1
<1>4. k \in Seq(S)
  BY <1>1
<1> QED
  BY <1>2, <1>3, <1>4

\* kfree of the last allocation leads to the heap that stands behind.
LEMMA PastShrinks ==
  ASSUME NEW h, NEW l, NEW H, Past(H, h, l), l # <<>>
  PROVE  Past(H, kfree(h, l[Len(l)].block), SubSeq(l, 1, Len(l) - 1))
<1> DEFINE m == Len(l)
           k == SubSeq(l, 1, m - 1)
<1>1. /\ l \in Seq(Allocation) /\ m \in Nat /\ m # 0 /\ H[m] = h
      /\ \A n \in 0 .. m : Sound(H[n]) /\ Records(H[n], l, n)
      /\ \A n \in 1 .. m : kfree(H[n], l[n].block) = H[n - 1]
      /\ \A i, j \in 1 .. m : l[i].block = l[j].block => i = j
  BY DEF Past
<1>2. k \in Seq(Allocation) /\ Len(k) = m - 1 /\ \A i \in 1 .. m - 1 : k[i] = l[i]
  BY <1>1, FirstOnes
<1> HIDE DEF m, k
<1>3. m \in 1 .. m
  BY <1>1
<1>4. H[m - 1] = kfree(h, l[m].block)
  BY <1>1, <1>3
<1>5. ASSUME NEW n \in 0 .. m - 1
      PROVE  Sound(H[n]) /\ Records(H[n], k, n)
  <2>1. n \in 0 .. m /\ \A i \in 1 .. n : i \in 1 .. m - 1
    BY <1>1
  <2>2. Sound(H[n]) /\ Records(H[n], l, n)
    BY <2>1, <1>1
  <2>3. \A i \in 1 .. n : k[i] = l[i]
    BY <2>1, <1>2
  <2> QED
    BY <2>2, <2>3 DEF Records
<1>6. \A n \in 1 .. m - 1 : n \in 1 .. m
  BY <1>1
<1>7. \A n \in 1 .. m - 1 : kfree(H[n], k[n].block) = H[n - 1]
  BY <1>1, <1>2, <1>6
<1>8. \A i, j \in 1 .. m - 1 : k[i].block = k[j].block => i = j
  BY <1>1, <1>2, <1>6
<1>9. Past(H, kfree(h, l[m].block), k)
  BY <1>2, <1>4, <1>5, <1>7, <1>8 DEF Past
<1> QED
  BY <1>9 DEF m, k

\* HeapInv is an invariant: the client frees what it allocated last.
LEMMA HeapInvariant ==
  HeapSpec => []HeapInv
<1>1. HeapInit => HeapInv
  BY PastBegins DEF HeapInit, HeapInv
<1>2. HeapInv /\ [HeapNext]_heapVars => HeapInv'
  <2> SUFFICES ASSUME HeapInv, [HeapNext]_heapVars
               PROVE  HeapInv'
    OBVIOUS
  <2>1. PICK H : Past(H, heap, live)
    BY DEF HeapInv
  <2>2. ASSUME NEW size \in RequestSizes, Allocate(size)
        PROVE  HeapInv'
    <3>1. /\ kmalloc(heap, size).block # NULL
          /\ heap' = kmalloc(heap, size).heap
          /\ live' = Append(live, [block |-> kmalloc(heap, size).block, size |-> size])
      BY <2>2 DEF Allocate
    <3>2. \E G : Past(G, kmalloc(heap, size).heap,
                      Append(live, [block |-> kmalloc(heap, size).block, size |-> size]))
      BY <2>1, <3>1, PastGrows
    <3>3. \E G : Past(G, heap', live')
      BY <3>1, <3>2
    <3> QED
      BY <3>3 DEF HeapInv
  <2>3. ASSUME Free
        PROVE  HeapInv'
    <3>1. /\ live # <<>>
          /\ heap' = kfree(heap, live[Len(live)].block)
          /\ live' = SubSeq(live, 1, Len(live) - 1)
      BY <2>3 DEF Free
    <3>2. Past(H, kfree(heap, live[Len(live)].block), SubSeq(live, 1, Len(live) - 1))
      BY <2>1, <3>1, PastShrinks
    <3>3. Past(H, heap', live')
      BY <3>1, <3>2
    <3> QED
      BY <3>3 DEF HeapInv
  <2>4. CASE UNCHANGED heapVars
    BY <2>1, <2>4 DEF HeapInv, heapVars
  <2> QED
    BY <2>2, <2>3, <2>4 DEF HeapNext
<1> QED
  BY <1>1, <1>2, PTL DEF HeapSpec

-----------------------------------------------------------------------------
(***************************************************************************)
(* The parts of a sound heap                                               *)
(***************************************************************************)

\* A list of free blocks has one entry or none.
LEMMA FreeListIs ==
  ASSUME NEW h, Sound(h), NEW o \in Orders
  PROVE  FreeList(h, o) = [k \in 1 .. (IF h.front[o] = NULL THEN 0 ELSE 1) |-> h.front[o]]
<1> DEFINE f == h.front[o]
           Body(g) == [k \in Ids |-> IF k = 0 THEN f
                                     ELSE IF g[k - 1] = NULL THEN NULL ELSE h.next[g[k - 1]]]
           w       == [k \in Ids |-> IF k = 0 THEN f ELSE NULL]
           walk    == CHOOSE g : g = Body(g)
<1>1. f \in Ids \cup {NULL} /\ \A x \in Ids : h.next[x] = NULL
  BY DEF Sound, HeapType
<1>2. /\ 0 \in Ids /\ Ids \subseteq Nat /\ NULL \notin Ids
      /\ \A k \in Ids : k # 0 => k - 1 \in Ids
  BY Sizes DEF Ids
<1> HIDE DEF f
<1>3. w = Body(w)
  <2>1. ASSUME NEW k \in Ids
        PROVE  w[k] = Body(w)[k]
    <3>1. CASE k = 0
      BY <3>1
    <3>2. CASE k # 0
      <4>1. w[k - 1] = NULL \/ w[k - 1] \in Ids
        BY <3>2, <1>1, <1>2
      <4>2. Body(w)[k] = IF w[k - 1] = NULL THEN NULL ELSE h.next[w[k - 1]]
        <5> HIDE DEF w
        <5> QED
          BY <3>2
      <4>3. w[k] = NULL
        BY <3>2
      <4> HIDE DEF w, Body
      <4> QED
        BY <4>1, <4>2, <4>3, <1>1
    <3> QED
      BY <3>1, <3>2
  <2>2. w = [k \in Ids |-> w[k]] /\ Body(w) = [k \in Ids |-> Body(w)[k]]
    OBVIOUS
  <2> HIDE DEF w, Body
  <2> QED
    BY <2>1, <2>2
<1>4. walk = Body(walk)
  <2> HIDE DEF w, Body
  <2> QED
    BY <1>3
<1> HIDE DEF walk
<1>5. walk[0] = f
  BY <1>2, <1>4
<1>6. \A k \in Ids : k # 0 =>
        walk[k] = IF walk[k - 1] = NULL THEN NULL ELSE h.next[walk[k - 1]]
  BY <1>4
<1> HIDE DEF Body, w
<1>7. ASSUME NEW k \in Ids, k # 0
      PROVE  walk[k] = NULL
  <2> DEFINE T == {i \in Ids : i # 0 /\ walk[i] # NULL}
  <2> SUFFICES ASSUME walk[k] # NULL
               PROVE  FALSE
    OBVIOUS
  <2>1. k \in T /\ T \subseteq Nat
    BY <1>2, <1>7
  <2>2. PICK i \in T : \A j \in T : i <= j
    BY <2>1, LeastNumber
  <2>3. i - 1 \in Ids /\ i \in Ids /\ i # 0 /\ ~(i <= i - 1)
    BY <2>2, <1>2
  <2>4. walk[i - 1] = NULL \/ walk[i - 1] \in Ids
    <3>1. CASE i - 1 = 0
      BY <3>1, <1>1, <1>5
    <3>2. CASE i - 1 # 0
      <4>1. i - 1 \notin T
        BY <2>2, <2>3
      <4> QED
        BY <4>1, <3>2, <2>3
    <3> QED
      BY <3>1, <3>2
  <2>5. walk[i] = NULL
    BY <2>3, <2>4, <1>1, <1>6
  <2> QED
    BY <2>2, <2>5
<1> DEFINE length == Cardinality({k \in Ids : walk[k] # NULL})
<1>8. length = IF f = NULL THEN 0 ELSE 1
  <2>1. CASE f = NULL
    <3>1. {k \in Ids : walk[k] # NULL} = {}
      BY <2>1, <1>5, <1>7
    <3> QED
      BY <2>1, <3>1, FS_EmptySet
  <2>2. CASE f # NULL
    <3>1. {k \in Ids : walk[k] # NULL} = {0}
      BY <2>2, <1>2, <1>5, <1>7
    <3> QED
      BY <2>2, <3>1, FS_Singleton
  <2> QED
    BY <2>1, <2>2
<1>9. FreeList(h, o) = [k \in 1 .. length |-> walk[k - 1]]
  BY DEF FreeList, walk, Body, f
<1> HIDE DEF length
<1>10. [k \in 1 .. length |-> walk[k - 1]] = [k \in 1 .. length |-> f]
  <2>1. \A k \in 1 .. length : walk[k - 1] = f
    <3>1. \A k \in 1 .. length : k - 1 = 0
      BY <1>8
    <3> QED
      BY <3>1, <1>5
  <2> QED
    BY <2>1
<1> QED
  BY <1>8, <1>9, <1>10 DEF f

\* The free lists hold one block at most, so the free blocks are the fronts.
LEMMA FreeBlocksAre ==
  ASSUME Sound(heap), NEW e
  PROVE  e \in FreeBlocks <=> \E o \in Orders : heap.front[o] # NULL /\ e = <<heap.front[o], o>>
<1> DEFINE L(o) == FreeList(heap, o)
           S(o) == {<<L(o)[k], o>> : k \in DOMAIN L(o)}
<1>1. ASSUME NEW o \in Orders
      PROVE  e \in S(o) <=> heap.front[o] # NULL /\ e = <<heap.front[o], o>>
  <2>1. L(o) = [k \in 1 .. (IF heap.front[o] = NULL THEN 0 ELSE 1) |-> heap.front[o]]
    BY FreeListIs
  <2>2. CASE heap.front[o] = NULL
    <3>1. DOMAIN L(o) = {}
      BY <2>1, <2>2
    <3> HIDE DEF L
    <3> QED
      BY <2>2, <3>1
  <2>3. CASE heap.front[o] # NULL
    <3>1. DOMAIN L(o) = {1} /\ L(o)[1] = heap.front[o]
      BY <2>1, <2>3
    <3> HIDE DEF L
    <3> QED
      BY <2>3, <3>1
  <2> QED
    BY <2>2, <2>3
<1>2. FreeBlocks = UNION {S(o) : o \in Orders}
  BY DEF FreeBlocks
<1> HIDE DEF S
<1> QED
  BY <1>1, <1>2

\* The free blocks and what was handed out are the parts that begin at starts.
LEMMA PartsAreStarts ==
  ASSUME NEW H, Past(H, heap, live), NEW e
  PROVE  e \in FreeBlocks \cup Used <=>
           \E x \in Ids : IsStart(heap, x) /\ e = <<x, heap.order[x]>>
<1> DEFINE m == Len(live)
<1>1. m \in Nat /\ live \in Seq(Allocation) /\ DOMAIN live = 1 .. m
  BY DEF Past
<1>2. Sound(heap) /\ Records(heap, live, m)
  <2>1. m \in 0 .. m /\ H[m] = heap
    BY <1>1 DEF Past
  <2> HIDE DEF m
  <2> QED
    BY <2>1 DEF Past, m
<1>3. \A i \in 1 .. m : live[i].block \in Ids
  <2>1. \A i \in 1 .. m : live[i] \in Allocation
    BY <1>1
  <2> HIDE DEF m
  <2> QED
    BY <2>1 DEF Allocation
<1>4. /\ \A x \in Ids : heap.isAllocated[x] <=> \E i \in 1 .. m : live[i].block = x
      /\ \A i \in 1 .. m : heap.order[live[i].block] = RequestedOrder(live[i].size)
  BY <1>2 DEF Records
<1>5. /\ \A o \in Orders : heap.front[o] # NULL =>
           heap.front[o] \in Ids /\ heap.order[heap.front[o]] = o
      /\ \A x \in Ids : heap.order[x] \in Orders
      /\ NULL \notin Ids
  BY <1>2, Sizes DEF Sound, HeapType
<1> HIDE DEF m
<1>6. e \in Used <=> \E x \in Ids : heap.isAllocated[x] /\ e = <<x, heap.order[x]>>
  <2>1. e \in Used <=> \E i \in 1 .. m : e = <<live[i].block, RequestedOrder(live[i].size)>>
    BY <1>1 DEF Used
  <2> QED
    BY <2>1, <1>3, <1>4
<1>7. e \in FreeBlocks <=>
        \E x \in Ids : heap.front[heap.order[x]] = x /\ e = <<x, heap.order[x]>>
  <2>1. e \in FreeBlocks <=>
          \E o \in Orders : heap.front[o] # NULL /\ e = <<heap.front[o], o>>
    BY <1>2, FreeBlocksAre
  <2>2. ASSUME NEW o \in Orders, heap.front[o] # NULL, e = <<heap.front[o], o>>
        PROVE  \E x \in Ids : heap.front[heap.order[x]] = x /\ e = <<x, heap.order[x]>>
    BY <2>2, <1>5
  <2>3. ASSUME NEW x \in Ids, heap.front[heap.order[x]] = x, e = <<x, heap.order[x]>>
        PROVE  \E o \in Orders : heap.front[o] # NULL /\ e = <<heap.front[o], o>>
    <3>1. heap.order[x] \in Orders /\ x # NULL
      BY <1>5
    <3> QED
      BY <3>1, <2>3
  <2> QED
    BY <2>1, <2>2, <2>3
<1> QED
  BY <1>6, <1>7 DEF IsStart

-----------------------------------------------------------------------------
(***************************************************************************)
(* The properties                                                          *)
(***************************************************************************)
LEMMA PresentIsSound ==
  ASSUME NEW H, Past(H, heap, live)
  PROVE  /\ Sound(heap) /\ Records(heap, live, Len(live))
         /\ live \in Seq(Allocation) /\ Len(live) \in Nat /\ DOMAIN live = 1 .. Len(live)
         /\ \A i \in DOMAIN live : live[i].block \in Ids /\ live[i].size \in Nat \ {0}
<1> DEFINE m == Len(live)
<1>1. live \in Seq(Allocation) /\ m \in Nat /\ DOMAIN live = 1 .. m
  BY DEF Past
<1>2. \A i \in 1 .. m : live[i].block \in Ids /\ live[i].size \in Nat \ {0}
  <2>1. \A i \in 1 .. m : live[i] \in Allocation
    BY <1>1
  <2> HIDE DEF m
  <2> QED
    BY <2>1, KHeapAssumption DEF Allocation
<1>3. Sound(heap) /\ Records(heap, live, m)
  <2>1. m \in 0 .. m /\ H[m] = heap
    BY <1>1 DEF Past
  <2> HIDE DEF m
  <2> QED
    BY <2>1 DEF Past, m
<1> QED
  BY <1>1, <1>2, <1>3

\* The fields of a block and the list heads always have values of their types,
\* and so have the live allocations.
THEOREM HeapTypeCorrect ==
  HeapSpec => []HeapTypeOK
<1>1. HeapInv => HeapTypeOK
  <2> SUFFICES ASSUME NEW H, Past(H, heap, live)
               PROVE  HeapTypeOK
    BY DEF HeapInv
  <2>1. Sound(heap) /\ live \in Seq(Allocation)
    BY PresentIsSound
  <2> QED
    BY <2>1 DEF HeapTypeOK, Sound, Allocation
<1> QED
  BY <1>1, HeapInvariant, PTL

\* As many blocks are handed out as there are live allocations.
LEMMA EachHasItsBlock ==
  ASSUME NEW H, Past(H, heap, live)
  PROVE  Cardinality(Used) = Len(live)
<1> DEFINE m    == Len(live)
           f(i) == <<live[i].block, RequestedOrder(live[i].size)>>
           g    == [i \in 1 .. m |-> f(i)]
<1>1. /\ m \in Nat /\ DOMAIN live = 1 .. m
      /\ \A i, j \in 1 .. m : live[i].block = live[j].block => i = j
  BY PresentIsSound DEF Past
<1>2. Used = {f(i) : i \in 1 .. m}
  BY <1>1 DEF Used
<1>3. \A i, j \in 1 .. m : f(i) = f(j) => i = j
  BY <1>1
<1> HIDE DEF m, f
<1>4. g \in [1 .. m -> Used] /\ \A i \in 1 .. m : g[i] = f(i)
  BY <1>2
<1>5. \A i, j \in 1 .. m : g[i] = g[j] => i = j
  BY <1>3, <1>4
<1>6. \A u \in Used : \E i \in 1 .. m : g[i] = u
  BY <1>2, <1>4
<1> HIDE DEF g
<1>7. ExistsBijection(1 .. m, Used)
  <2>1. g \in Bijection(1 .. m, Used)
    BY <1>4, <1>5, <1>6 DEF Bijection, Injection, Surjection, IsInjective
  <2> QED
    BY <2>1 DEF ExistsBijection
<1>8. IsFiniteSet(1 .. m) /\ Cardinality(1 .. m) = m
  <2>1. 1 \in Int /\ m \in Int
    BY <1>1
  <2>2. IsFiniteSet(1 .. m) /\ Cardinality(1 .. m) = IF 1 > m THEN 0 ELSE m - 1 + 1
    BY <2>1, FS_Interval
  <2> QED
    BY <2>2, <1>1
<1> QED
  BY <1>7, <1>8, FS_Bijection DEF m

\* Each block of the heap belongs to exactly one live allocation or to one
\* entry of a free list, whatever kmalloc and kfree did before.
THEOREM HeapIsAlwaysPartitioned ==
  HeapSpec => []HeapIsPartitioned
<1>1. HeapInv => HeapIsPartitioned
  <2> SUFFICES ASSUME NEW H, Past(H, heap, live)
               PROVE  HeapIsPartitioned
    BY DEF HeapInv
  <2>1. Sound(heap)
    BY PresentIsSound
  <2>2. ASSUME NEW b \in Ids
        PROVE  Cardinality({e \in FreeBlocks \cup Used : b \in Extent(e[1], e[2])}) = 1
    <3>1. PICK x \in Ids : /\ IsStart(heap, x) /\ Inside(heap, b, x)
                           /\ \A y \in Ids : IsStart(heap, y) /\ Inside(heap, b, y) => y = x
      BY <2>1 DEF Sound
    <3> DEFINE parts == FreeBlocks \cup Used
               p == <<x, heap.order[x]>>
    <3>2. \A e : e \in parts <=> \E y \in Ids : IsStart(heap, y) /\ e = <<y, heap.order[y]>>
      BY PartsAreStarts
    <3> HIDE DEF parts
    <3>3. p \in parts /\ b \in Extent(p[1], p[2])
      BY <3>1, <3>2 DEF Inside
    <3>4. ASSUME NEW e \in parts, b \in Extent(e[1], e[2])
          PROVE  e = p
      <4>1. PICK y \in Ids : IsStart(heap, y) /\ e = <<y, heap.order[y]>>
        BY <3>2
      <4>2. Inside(heap, b, y)
        BY <4>1, <3>4 DEF Inside
      <4> QED
        BY <4>1, <4>2, <3>1
    <3>5. {e \in parts : b \in Extent(e[1], e[2])} = {p}
      <4> HIDE DEF p
      <4> QED
        BY <3>3, <3>4
    <3>6. Cardinality({e \in parts : b \in Extent(e[1], e[2])}) = 1
      <4> HIDE DEF p
      <4> QED
        BY <3>5, FS_Singleton
    <3> QED
      BY <3>6 DEF parts
  <2>3. Cardinality(Used) = Len(live)
    BY EachHasItsBlock
  <2> QED
    BY <2>2, <2>3 DEF HeapIsPartitioned
<1> QED
  BY <1>1, HeapInvariant, PTL

\* An allocation has room for the bytes that were asked for: the rounding to
\* blocks and to a power of two never loses any.
THEOREM AllocationsAreAlwaysLargeEnough ==
  HeapSpec => []AllocationsAreLargeEnough
<1>1. HeapInv => AllocationsAreLargeEnough
  <2> SUFFICES ASSUME NEW H, Past(H, heap, live), NEW i \in DOMAIN live
               PROVE  pow2[heap.order[live[i].block]] * KHEAP_BLOCK_SIZE >= live[i].size
    BY DEF HeapInv, AllocationsAreLargeEnough
  <2>1. /\ Records(heap, live, Len(live)) /\ DOMAIN live = 1 .. Len(live)
        /\ live[i].size \in Nat \ {0}
    BY PresentIsSound
  <2>2. heap.order[live[i].block] = RequestedOrder(live[i].size)
    BY <2>1 DEF Records
  <2> QED
    BY <2>1, <2>2, RequestFits
<1> QED
  BY <1>1, HeapInvariant, PTL

\* kfree leaves no two free buddies apart.
THEOREM FreeBuddiesAreAlwaysMerged ==
  HeapSpec => []FreeBuddiesAreMerged
<1>1. HeapInv => FreeBuddiesAreMerged
  <2> SUFFICES ASSUME NEW H, Past(H, heap, live), NEW e \in FreeBlocks, e[2] < KHEAP_MAX_ORDER,
                      <<Buddy(e[1], e[2]), e[2]>> \in FreeBlocks
               PROVE  FALSE
    BY DEF HeapInv, FreeBuddiesAreMerged
  <2>1. Sound(heap)
    BY PresentIsSound
  <2>2. PICK o \in Orders : heap.front[o] # NULL /\ e = <<heap.front[o], o>>
    BY <2>1, FreeBlocksAre
  <2> DEFINE b == Buddy(heap.front[o], o)
  <2>3. e[1] = heap.front[o] /\ e[2] = o
    BY <2>2
  <2>4. <<b, o>> \in FreeBlocks /\ o < KHEAP_MAX_ORDER
    BY <2>3
  <2> HIDE DEF b
  <2>5. PICK j \in Orders : heap.front[j] # NULL /\ <<b, o>> = <<heap.front[j], j>>
    BY <2>1, <2>4, FreeBlocksAre
  <2>6. heap.front[o] = b
    BY <2>5
  <2>7. heap.isAllocated[b] /\ ~heap.isAllocated[heap.front[o]]
    BY <2>1, <2>2, <2>4 DEF Sound, b
  <2> QED
    BY <2>6, <2>7
<1> QED
  BY <1>1, HeapInvariant, PTL

\* Freeing what was just allocated restores all free lists, in every heap the
\* kernel can be in.
THEOREM FreeAlwaysUndoesAllocate ==
  HeapSpec => []FreeUndoesAllocate
<1>1. HeapInv => FreeUndoesAllocate
  <2> SUFFICES ASSUME NEW H, Past(H, heap, live), NEW size \in RequestSizes,
                      kmalloc(heap, size).block # NULL
               PROVE  kfree(kmalloc(heap, size).heap, kmalloc(heap, size).block) = heap
    BY DEF HeapInv, FreeUndoesAllocate
  <2>1. Sound(heap) /\ size \in Nat \ {0}
    BY PresentIsSound, KHeapAssumption
  <2> QED
    BY <2>1, Allocates
<1> QED
  BY <1>1, HeapInvariant, PTL

-----------------------------------------------------------------------------
(***************************************************************************)
(* What a client of the heap finds room for.                               *)
(***************************************************************************)

\* The blocks that no allocation has.
FreeIds(h) == {b \in Ids : \A x \in Ids : h.isAllocated[x] => ~Inside(h, b, x)}

\* A request of at most one block.
LEMMA OneBlock ==
  ASSUME NEW size \in 1 .. KHEAP_BLOCK_SIZE
  PROVE  RequestedOrder(size) = 0 /\ ~(size > KHEAP_HEAP_SIZE)
<1> DEFINE s == KHEAP_BLOCK_SIZE
           n == KHEAP_BLOCK_NUM
<1>1. s \in Nat \ {0} /\ n \in Nat \ {0} /\ size \in 1 .. s
  BY KHeapAssumption, Sizes
<1>2. BlocksFor(size) = 1
  <2>1. CASE size = s
    <3>1. size \div s = 1 /\ size % s = 0
      <4> HIDE DEF s
      <4> QED
        BY <2>1, <1>1
    <3> QED
      BY <3>1 DEF BlocksFor
  <2>2. CASE size # s
    <3>1. size \div s = 0 /\ size % s = size /\ size # 0
      <4> HIDE DEF s
      <4> QED
        BY <2>2, <1>1
    <3> QED
      BY <3>1 DEF BlocksFor
  <2> QED
    BY <2>1, <2>2
<1>3. log2(1) = 0 /\ pow2[0] = 1
  <2>1. log2(pow2[0]) = 0 /\ pow2[0] = 1
    BY LogOfPower, PowersOfTwo
  <2> QED
    BY <2>1
<1>4. RequestedOrder(size) = 0
  BY <1>2, <1>3 DEF RequestedOrder
<1>5. size <= n * s /\ n * s \in Nat
  <2> HIDE DEF n, s
  <2>1. PICK m \in Nat : n = m + 1
    BY <1>1
  <2>2. n * s = m * s + s /\ m * s \in Nat
    BY <2>1, <1>1
  <2> QED
    BY <2>2, <1>1
<1> QED
  BY <1>4, <1>5, <1>1 DEF KHEAP_HEAP_SIZE

\* kmalloc returns a block when a list of the order asked for, or of a larger
\* one, is not empty.
LEMMA Succeeds ==
  ASSUME NEW h, Sound(h), NEW size \in Nat \ {0}, ~(size > KHEAP_HEAP_SIZE),
         Candidates(h, RequestedOrder(size)) # {}
  PROVE  kmalloc(h, size).block # NULL
<1> DEFINE o == RequestedOrder(size)
           C == Candidates(h, o)
<1>0. C # {}
  OBVIOUS
<1>1. o \in Nat
  BY RequestFits
<1>2. C \subseteq Orders /\ Orders \subseteq Nat /\ NULL \notin Ids
  BY Sizes DEF Candidates
<1>3. PICK from \in C : \A j \in C : from <= j
  <2> HIDE DEF C
  <2> QED
    BY <1>2, <1>0, LeastNumber
<1>4. o \in Orders
  <2>1. from \in 0 .. KHEAP_MAX_ORDER /\ o <= from
    BY DEF Candidates, Orders
  <2> HIDE DEF o
  <2> QED
    BY <2>1, <1>1, KHeapAssumption DEF Orders
<1>5. Splittable(h, from, o)
  <2> HIDE DEF o
  <2> QED
    BY <1>3, <1>4, SoundSplits
<1>6. kmalloc(h, size) = [heap |-> Taken(h, from, o), block |-> h.front[from]]
  BY <1>1, <1>3, <1>5, kmallocIs
<1>7. h.front[from] \in Ids
  BY <1>5 DEF Splittable
<1> QED
  BY <1>2, <1>6, <1>7

\* Where any block is free, there is room for a structure.
LEMMA FindsRoom ==
  ASSUME NEW h, Sound(h), FreeIds(h) # {}, NEW size \in 1 .. KHEAP_BLOCK_SIZE
  PROVE  kmalloc(h, size).block # NULL
<1>1. PICK b \in Ids : \A x \in Ids : h.isAllocated[x] => ~Inside(h, b, x)
  BY DEF FreeIds
<1>2. PICK x \in Ids : IsStart(h, x) /\ Inside(h, b, x)
  BY DEF Sound
<1>3. h.front[h.order[x]] = x /\ x # NULL /\ h.order[x] \in Orders
  BY <1>1, <1>2, Sizes DEF IsStart, Sound, HeapType
<1>4. h.order[x] \in Candidates(h, 0)
  <2>1. h.order[x] \in Nat /\ h.front[h.order[x]] # NULL
    BY <1>3, Sizes
  <2>2. h.order[x] >= 0
    BY <2>1
  <2> QED
    BY <2>1, <2>2, <1>3 DEF Candidates
<1>5. size \in Nat \ {0}
  BY KHeapAssumption
<1> QED
  BY <1>4, <1>5, OneBlock, Succeeds

\* An allocation takes the blocks of its order from what is free.
LEMMA TakesRoom ==
  ASSUME NEW h, Sound(h), NEW size \in Nat \ {0}, kmalloc(h, size).block # NULL
  PROVE  LET r == kmalloc(h, size)
             o == RequestedOrder(size)
         IN  /\ Cardinality(FreeIds(h)) \in Nat /\ Cardinality(FreeIds(r.heap)) \in Nat
             /\ pow2[o] \in Nat
             /\ Cardinality(FreeIds(h)) <= Cardinality(FreeIds(r.heap)) + pow2[o]
<1> DEFINE r == kmalloc(h, size)
           o == RequestedOrder(size)
           A == FreeIds(h)
           B == FreeIds(r.heap)
           E == r.block .. r.block + pow2[o] - 1
<1>1. /\ r.block \in Ids /\ r.heap.order[r.block] = o
      /\ \A x \in Ids : r.heap.isAllocated[x] <=> x = r.block \/ h.isAllocated[x]
      /\ \A x \in Ids : h.isAllocated[x] => r.heap.order[x] = h.order[x]
  BY Allocates
<1>2. o \in Nat /\ pow2[o] \in Nat
  BY RequestFits, PowersOfTwo
<1>3. r.block \in Nat
  BY <1>1, Sizes
<1>4. A \ E \subseteq B
  <2> SUFFICES ASSUME NEW b \in A, b \notin E, NEW x \in Ids, r.heap.isAllocated[x]
               PROVE  ~Inside(r.heap, b, x)
    BY DEF FreeIds
  <2>1. CASE x = r.block
    BY <2>1, <1>1 DEF Inside, Extent
  <2>2. CASE h.isAllocated[x]
    <3>1. ~Inside(h, b, x)
      BY <2>2 DEF FreeIds
    <3>2. r.heap.order[x] = h.order[x]
      BY <2>2, <1>1
    <3> HIDE DEF r
    <3> QED
      BY <3>1, <3>2 DEF Inside
  <2> QED
    BY <2>1, <2>2, <1>1
<1> HIDE DEF r, o
<1>5. IsFiniteSet(Ids)
  BY FS_Interval, Sizes DEF Ids
<1>6. A \subseteq Ids /\ B \subseteq Ids
  BY DEF FreeIds
<1> HIDE DEF A, B
<1>7. IsFiniteSet(A) /\ IsFiniteSet(B) /\ IsFiniteSet(A \cap E)
  BY <1>5, <1>6, FS_Subset
<1>8. IsFiniteSet(E) /\ Cardinality(E) <= pow2[o] /\ Cardinality(E) \in Nat
  <2> DEFINE top == r.block + pow2[o] - 1
  <2>1. r.block \in Int /\ top \in Int
    BY <1>2, <1>3
  <2>2. IsFiniteSet(E) /\ Cardinality(E) = IF r.block > top THEN 0 ELSE top - r.block + 1
    BY <2>1, FS_Interval
  <2> QED
    BY <2>2, <1>2, <1>3
<1> HIDE DEF E
<1>9. Cardinality(A \cap E) <= Cardinality(E)
  BY <1>8, FS_Subset
<1>10. Cardinality(A \ E) = Cardinality(A) - Cardinality(A \cap E)
  BY <1>7, FS_Difference
<1>11. Cardinality(A \ E) <= Cardinality(B)
  BY <1>4, <1>7, FS_Subset
<1>12. /\ Cardinality(A) \in Nat /\ Cardinality(B) \in Nat /\ Cardinality(A \cap E) \in Nat
  BY <1>7, FS_CardinalityType
<1>13. Cardinality(A) <= Cardinality(B) + pow2[o]
  BY <1>2, <1>8, <1>9, <1>10, <1>11, <1>12
<1> QED
  BY <1>2, <1>12, <1>13 DEF A, B, r, o

\* What is written to a buffer reaches no other allocation.
LEMMA BufferApart ==
  ASSUME NEW h, Sound(h), NEW size \in Nat \ {0}, kmalloc(h, size).block # NULL,
         NEW x \in Ids, h.isAllocated[x]
  PROVE  LET block == kmalloc(h, size).block
         IN  ~(block <= x /\ x < block + BlocksFor(size))
<1> DEFINE r == kmalloc(h, size)
           o == RequestedOrder(size)
<1> SUFFICES ASSUME r.block <= x, x < r.block + BlocksFor(size)
             PROVE  FALSE
  OBVIOUS
<1>1. /\ Sound(r.heap) /\ r.block \in Ids /\ ~h.isAllocated[r.block]
      /\ r.heap.order[r.block] = o
      /\ r.heap.isAllocated[r.block] /\ r.heap.isAllocated[x]
  BY Allocates
<1>2. /\ o \in Nat /\ BlocksFor(size) \in Nat
      /\ BlocksFor(size) <= pow2[o] /\ pow2[o] \in Nat
  BY RequestFits, PowersOfTwo
<1> HIDE DEF r, o
<1>3. r.block \in Nat /\ x \in Nat
  BY <1>1, Sizes
<1>4. x \in r.block .. r.block + pow2[o] - 1
  BY <1>2, <1>3
<1>5. Inside(r.heap, x, r.block)
  BY <1>1, <1>4 DEF Inside, Extent
<1>6. IsStart(r.heap, x) /\ IsStart(r.heap, r.block)
  BY <1>1 DEF IsStart
<1>7. x = r.block
  BY <1>1, <1>5, <1>6, StartsApart
<1> QED
  BY <1>1, <1>7

-----------------------------------------------------------------------------
(***************************************************************************)
(* The structures of a process find room.                                  *)
(***************************************************************************)

\* A file in a buffer takes at most b blocks, and the heap has room for the
\* structures of all processes and all buffers that are lost.
BuffersTake(b) ==
  /\ \A f \in Programs : pow2[RequestedOrder(FileSize[f])] <= b
  /\ 3 * MaxProcesses + b * MaxLost <= KHEAP_BLOCK_NUM

\* What the theorems ask of the heap: a structure fits into a block, and there
\* is room.
HeapIsLargeEnough ==
  /\ \A size \in StructureSizes : size <= KHEAP_BLOCK_SIZE
  /\ \E b \in Nat : BuffersTake(b)

Buffer == CHOOSE b \in Nat : BuffersTake(b)

ClientSizes == StructureSizes \cup {FileSize[f] : f \in Programs}

\* h is a heap that has handed out l.
HandsOut(h, l) ==
  /\ Sound(h)
  /\ l \in Seq([block : Ids, size : ClientSizes])
  /\ \A x \in Ids : h.isAllocated[x] <=> \E i \in DOMAIN l : l[i].block = x

\* At least n of its blocks are free.
Room(h, n) == n <= Cardinality(FreeIds(h))

\* The structures are as small as HeapIsLargeEnough says.
LEMMA StructureSizesAre ==
  ASSUME HeapIsLargeEnough, NEW size \in StructureSizes
  PROVE  size \in Nat \ {0} /\ size \in 1 .. KHEAP_BLOCK_SIZE /\ size \in ClientSizes
<1>1. size \in Nat \ {0}
  BY DEF StructureSizes, SizeOfProcess, SizeOfProcessMemory, SizeOfThreadInfo
<1>2. size <= KHEAP_BLOCK_SIZE
  BY DEF HeapIsLargeEnough
<1> QED
  BY <1>1, <1>2, KHeapAssumption DEF ClientSizes

\* A block that is handed out is recorded.
LEMMA Recorded ==
  ASSUME NEW h, NEW l, HandsOut(h, l), NEW size \in Nat \ {0}, size \in ClientSizes,
         kmalloc(h, size).block # NULL
  PROVE  LET r == kmalloc(h, size)
             m == Append(l, [block |-> r.block, size |-> size])
         IN  HandsOut(r.heap, m) /\ Len(m) = Len(l) + 1
<1> DEFINE r == kmalloc(h, size)
           e == [block |-> r.block, size |-> size]
           m == Append(l, e)
<1>1. /\ Sound(r.heap) /\ r.block \in Ids
      /\ \A x \in Ids : r.heap.isAllocated[x] <=> x = r.block \/ h.isAllocated[x]
  BY Allocates DEF HandsOut
<1> HIDE DEF r
<1>2. e \in [block : Ids, size : ClientSizes] /\ e.block = r.block
  BY <1>1
<1> HIDE DEF e
<1>3. l \in Seq([block : Ids, size : ClientSizes]) /\ Len(l) \in Nat /\ DOMAIN l = 1 .. Len(l)
  BY DEF HandsOut
<1>4. /\ m \in Seq([block : Ids, size : ClientSizes]) /\ Len(m) = Len(l) + 1
      /\ DOMAIN m = 1 .. Len(l) + 1 /\ m[Len(l) + 1] = e
      /\ \A i \in 1 .. Len(l) : m[i] = l[i]
  BY <1>2, <1>3
<1> HIDE DEF m
<1>5. ASSUME NEW x \in Ids
      PROVE  r.heap.isAllocated[x] <=> \E i \in DOMAIN m : m[i].block = x
  <2>1. (\E i \in DOMAIN m : m[i].block = x) <=> x = r.block \/ \E i \in DOMAIN l : l[i].block = x
    <3>1. ASSUME NEW i \in DOMAIN m, m[i].block = x
          PROVE  x = r.block \/ \E j \in DOMAIN l : l[j].block = x
      BY <3>1, <1>2, <1>3, <1>4
    <3>2. ASSUME x = r.block
          PROVE  \E i \in DOMAIN m : m[i].block = x
      <4>1. Len(l) + 1 \in DOMAIN m
        BY <1>3, <1>4
      <4> QED
        BY <4>1, <3>2, <1>2, <1>4
    <3>3. ASSUME NEW i \in DOMAIN l, l[i].block = x
          PROVE  \E j \in DOMAIN m : m[j].block = x
      <4>1. i \in DOMAIN m /\ m[i] = l[i]
        BY <1>3, <1>4
      <4> QED
        BY <4>1, <3>3
    <3> QED
      BY <3>1, <3>2, <3>3
  <2> QED
    BY <2>1, <1>1 DEF HandsOut
<1>6. HandsOut(r.heap, m)
  BY <1>1, <1>4, <1>5 DEF HandsOut
<1> QED
  BY <1>4, <1>6 DEF r, m, e

\* A structure gets a block that was free.
LEMMA Obtained ==
  ASSUME HeapIsLargeEnough, NEW h, NEW l, HandsOut(h, l), NEW n \in Nat, Room(h, n + 1),
         NEW size \in StructureSizes
  PROVE  LET r == Obtain(h, l, size)
         IN  /\ HandsOut(r.heap, r.live) /\ Len(r.live) = Len(l) + 1 /\ Room(r.heap, n)
             /\ r.block \in Ids /\ ~h.isAllocated[r.block]
             /\ \A x \in Ids : r.heap.isAllocated[x] <=> x = r.block \/ h.isAllocated[x]
<1> DEFINE k == kmalloc(h, size)
           r == Obtain(h, l, size)
<1>1. size \in Nat \ {0} /\ size \in 1 .. KHEAP_BLOCK_SIZE /\ size \in ClientSizes
  BY StructureSizesAre
<1>2. Sound(h)
  BY DEF HandsOut
<1>3. FreeIds(h) # {}
  <2>1. Cardinality({}) = 0
    BY FS_EmptySet
  <2> QED
    BY <2>1 DEF Room
<1>4. k.block # NULL
  BY <1>1, <1>2, <1>3, FindsRoom
<1>5. /\ k.block \in Ids /\ ~h.isAllocated[k.block]
      /\ \A x \in Ids : k.heap.isAllocated[x] <=> x = k.block \/ h.isAllocated[x]
  BY <1>1, <1>2, <1>4, Allocates
<1>6. /\ Cardinality(FreeIds(h)) \in Nat /\ Cardinality(FreeIds(k.heap)) \in Nat
      /\ Cardinality(FreeIds(h)) <= Cardinality(FreeIds(k.heap)) + 1
  <2>1. RequestedOrder(size) = 0 /\ pow2[0] = 1
    BY <1>1, OneBlock, PowersOfTwo
  <2> QED
    BY <2>1, <1>1, <1>2, <1>4, TakesRoom
<1>7. Room(k.heap, n)
  BY <1>6 DEF Room
<1> DEFINE m == Append(l, [block |-> k.block, size |-> size])
<1>8. HandsOut(k.heap, m) /\ Len(m) = Len(l) + 1
  BY <1>1, <1>4, Recorded
<1> HIDE DEF k
<1>9. r = [heap |-> k.heap, block |-> k.block, live |-> m]
  BY <1>4 DEF Obtain, Record, k
<1> HIDE DEF r, m
<1>10. r.heap = k.heap /\ r.block = k.block /\ r.live = m
  BY <1>9
<1> QED
  BY <1>5, <1>7, <1>8, <1>10 DEF r

\* The three structures of a process get three blocks that were free.
LEMMA ThreeObtained ==
  ASSUME HeapIsLargeEnough, NEW h, NEW l, HandsOut(h, l), NEW n \in Nat, Room(h, n + 3)
  PROVE  LET got == AllocateStructures(h, l)
             b   == got.blocks
         IN  /\ HandsOut(got.heap, got.live) /\ Len(got.live) = Len(l) + 3 /\ Room(got.heap, n)
             /\ b[1] \in Ids /\ b[2] \in Ids /\ b[3] \in Ids
             /\ b[1] # b[2] /\ b[1] # b[3] /\ b[2] # b[3]
             /\ ~h.isAllocated[b[1]] /\ ~h.isAllocated[b[2]] /\ ~h.isAllocated[b[3]]
             /\ \A x \in Ids : got.heap.isAllocated[x] <=>
                                 x \in {b[1], b[2], b[3]} \/ h.isAllocated[x]
<1> DEFINE r1 == Obtain(h, l, SizeOfProcess)
           r2 == Obtain(r1.heap, r1.live, SizeOfProcessMemory)
           r3 == Obtain(r2.heap, r2.live, SizeOfThreadInfo)
           got == AllocateStructures(h, l)
           b == got.blocks
<1>1. {SizeOfProcess, SizeOfProcessMemory, SizeOfThreadInfo} \subseteq StructureSizes
  BY DEF StructureSizes
<1>2. Room(h, (n + 2) + 1) /\ n + 2 \in Nat /\ n + 1 \in Nat
  BY DEF Room
<1>3. /\ HandsOut(r1.heap, r1.live) /\ Len(r1.live) = Len(l) + 1 /\ Room(r1.heap, n + 2)
      /\ r1.block \in Ids /\ ~h.isAllocated[r1.block]
      /\ \A x \in Ids : r1.heap.isAllocated[x] <=> x = r1.block \/ h.isAllocated[x]
  <2> HIDE DEF r1
  <2> QED
    BY <1>1, <1>2, Obtained DEF r1
<1> HIDE DEF r1
<1>4. Room(r1.heap, (n + 1) + 1)
  BY <1>3 DEF Room
<1>5. /\ HandsOut(r2.heap, r2.live) /\ Len(r2.live) = Len(r1.live) + 1 /\ Room(r2.heap, n + 1)
      /\ r2.block \in Ids /\ ~r1.heap.isAllocated[r2.block]
      /\ \A x \in Ids : r2.heap.isAllocated[x] <=> x = r2.block \/ r1.heap.isAllocated[x]
  <2> HIDE DEF r2
  <2> QED
    BY <1>1, <1>2, <1>3, <1>4, Obtained DEF r2
<1> HIDE DEF r2
<1>6. /\ HandsOut(r3.heap, r3.live) /\ Len(r3.live) = Len(r2.live) + 1 /\ Room(r3.heap, n)
      /\ r3.block \in Ids /\ ~r2.heap.isAllocated[r3.block]
      /\ \A x \in Ids : r3.heap.isAllocated[x] <=> x = r3.block \/ r2.heap.isAllocated[x]
  <2> HIDE DEF r3
  <2> QED
    BY <1>1, <1>5, Obtained DEF r3
<1> HIDE DEF r3
<1>7. got = [heap |-> r3.heap, live |-> r3.live, blocks |-> <<r1.block, r2.block, r3.block>>]
  BY DEF AllocateStructures, AllocateProcessMemory, AllocateThreadInfo, Structured,
         r1, r2, r3
<1> HIDE DEF got
<1>8. /\ got.heap = r3.heap /\ got.live = r3.live
      /\ b[1] = r1.block /\ b[2] = r2.block /\ b[3] = r3.block
  BY <1>7
<1> HIDE DEF b
<1>9. Len(got.live) = Len(l) + 3
  <2>1. l \in Seq([block : Ids, size : ClientSizes])
    BY DEF HandsOut
  <2>2. Len(l) \in Nat
    BY <2>1
  <2> QED
    BY <2>2, <1>3, <1>5, <1>6, <1>8
<1>10. /\ b[1] \in Ids /\ b[2] \in Ids /\ b[3] \in Ids
       /\ b[1] # b[2] /\ b[1] # b[3] /\ b[2] # b[3]
       /\ ~h.isAllocated[b[1]] /\ ~h.isAllocated[b[2]] /\ ~h.isAllocated[b[3]]
  BY <1>3, <1>5, <1>6, <1>8
<1>11. \A x \in Ids : got.heap.isAllocated[x] <=> x \in {b[1], b[2], b[3]} \/ h.isAllocated[x]
  BY <1>3, <1>5, <1>6, <1>8
<1> QED
  BY <1>6, <1>8, <1>9, <1>10, <1>11 DEF got, b

\* The heap when there are n processes: besides their structures it has
\* handed out the buffers that were lost, and no more.
HeapFor(h, l, n) ==
  /\ HandsOut(h, l)
  /\ \E lost \in 0 .. MaxLost :
       Len(l) = 3 * n + lost /\ Room(h, KHEAP_BLOCK_NUM - 3 * n - Buffer * lost)

\* Buffer is a number of blocks as HeapIsLargeEnough says that there is.
LEMMA BufferIs ==
  ASSUME HeapIsLargeEnough
  PROVE  /\ Buffer \in Nat
         /\ \A f \in Programs : pow2[RequestedOrder(FileSize[f])] <= Buffer
         /\ \A lost \in 0 .. MaxLost : /\ Buffer * lost \in Nat
                                       /\ 3 * MaxProcesses + Buffer * lost <= KHEAP_BLOCK_NUM
<1>1. Buffer \in Nat /\ BuffersTake(Buffer)
  BY DEF HeapIsLargeEnough, Buffer
<1> HIDE DEF Buffer
<1>2. MaxProcesses \in Nat /\ MaxLost \in Nat /\ KHEAP_BLOCK_NUM \in Nat
  BY ProcessMemoryAssumption, Sizes
<1>3. ASSUME NEW lost \in 0 .. MaxLost
      PROVE  /\ Buffer * lost \in Nat
             /\ 3 * MaxProcesses + Buffer * lost <= KHEAP_BLOCK_NUM
  <2> DEFINE rest == MaxLost - lost
  <2>1. rest \in Nat /\ MaxLost = lost + rest /\ lost \in Nat
    BY <1>2
  <2> HIDE DEF rest
  <2>2. Buffer * MaxLost = Buffer * lost + Buffer * rest
        /\ Buffer * lost \in Nat /\ Buffer * rest \in Nat
    BY <2>1, <1>1
  <2>3. 3 * MaxProcesses + Buffer * MaxLost <= KHEAP_BLOCK_NUM
    BY <1>1 DEF BuffersTake
  <2> QED
    BY <2>2, <2>3, <1>2
<1> QED
  BY <1>1, <1>3 DEF BuffersTake

\* The heap before the first process.
LEMMA EmptyHeap ==
  HandsOut(kHeapInit, <<>>) /\ Room(kHeapInit, KHEAP_BLOCK_NUM)
<1>1. FreeIds(kHeapInit) = Ids
  BY InitialSound DEF FreeIds
<1>2. Cardinality(Ids) = KHEAP_BLOCK_NUM
  <2> DEFINE n == KHEAP_BLOCK_NUM
  <2>1. n \in Nat \ {0} /\ Ids = 0 .. n - 1
    BY Sizes DEF Ids
  <2> HIDE DEF n
  <2>2. Cardinality(0 .. n - 1) = IF 0 > n - 1 THEN 0 ELSE (n - 1) - 0 + 1
    BY <2>1, FS_Interval
  <2>3. Cardinality(0 .. n - 1) = n
    BY <2>1, <2>2
  <2> QED
    BY <2>1, <2>3 DEF n
<1>3. Room(kHeapInit, KHEAP_BLOCK_NUM)
  BY <1>1, <1>2, Sizes DEF Room
<1>4. <<>> \in Seq([block : Ids, size : ClientSizes]) /\ DOMAIN <<>> = {}
  OBVIOUS
<1> QED
  BY <1>3, <1>4, InitialSound DEF HandsOut

\* The heap behind the structures of one more process.
LEMMA HeapForFork ==
  ASSUME HeapIsLargeEnough, NEW h, NEW l, NEW n \in Nat, n < MaxProcesses, HeapFor(h, l, n)
  PROVE  LET got == AllocateStructures(h, l)
             b   == got.blocks
         IN  /\ HeapFor(got.heap, got.live, n + 1)
             /\ b[1] \in Ids /\ b[2] \in Ids /\ b[3] \in Ids
             /\ b[1] # b[2] /\ b[1] # b[3] /\ b[2] # b[3]
             /\ ~h.isAllocated[b[1]] /\ ~h.isAllocated[b[2]] /\ ~h.isAllocated[b[3]]
             /\ \A x \in Ids : got.heap.isAllocated[x] <=>
                                 x \in {b[1], b[2], b[3]} \/ h.isAllocated[x]
<1> DEFINE got == AllocateStructures(h, l)
           b   == got.blocks
<1>1. PICK lost \in 0 .. MaxLost :
        Len(l) = 3 * n + lost /\ Room(h, KHEAP_BLOCK_NUM - 3 * n - Buffer * lost)
  BY DEF HeapFor
<1> DEFINE c == Buffer * lost
           m == KHEAP_BLOCK_NUM - 3 * (n + 1) - c
<1>2. c \in Nat /\ 3 * MaxProcesses + c <= KHEAP_BLOCK_NUM
  BY BufferIs
<1> HIDE DEF c
<1>3. m \in Nat /\ m + 3 = KHEAP_BLOCK_NUM - 3 * n - c
  BY <1>2, ProcessMemoryAssumption, Sizes
<1> HIDE DEF m
<1>4. Room(h, m + 3) /\ HandsOut(h, l)
  BY <1>1, <1>3 DEF c, HeapFor
<1>5. /\ HandsOut(got.heap, got.live) /\ Len(got.live) = Len(l) + 3 /\ Room(got.heap, m)
      /\ b[1] \in Ids /\ b[2] \in Ids /\ b[3] \in Ids
      /\ b[1] # b[2] /\ b[1] # b[3] /\ b[2] # b[3]
      /\ ~h.isAllocated[b[1]] /\ ~h.isAllocated[b[2]] /\ ~h.isAllocated[b[3]]
      /\ \A x \in Ids : got.heap.isAllocated[x] <=>
                          x \in {b[1], b[2], b[3]} \/ h.isAllocated[x]
  BY <1>3, <1>4, ThreeObtained
<1> HIDE DEF got
<1>6. Len(got.live) = 3 * (n + 1) + lost
  BY <1>1, <1>5
<1>7. HeapFor(got.heap, got.live, n + 1)
  BY <1>1, <1>5, <1>6 DEF HeapFor, m, c
<1> QED
  BY <1>5, <1>7 DEF got

\* The heap behind a buffer that is lost.
LEMMA HeapForLoss ==
  ASSUME HeapIsLargeEnough, NEW h, NEW l, NEW n \in Nat, HeapFor(h, l, n),
         NEW file \in Programs, Len(l) - 3 * n < MaxLost,
         kmalloc(h, FileSize[file]).block # NULL
  PROVE  LET r == kmalloc(h, FileSize[file])
         IN  HeapFor(r.heap, Append(l, [block |-> r.block, size |-> FileSize[file]]), n)
<1> DEFINE size == FileSize[file]
           r == kmalloc(h, size)
           m == Append(l, [block |-> r.block, size |-> size])
           o == RequestedOrder(size)
<1>1. size \in Nat \ {0} /\ size \in ClientSizes
  BY ProcessMemoryAssumption DEF ClientSizes
<1>2. HandsOut(h, l) /\ Sound(h)
  BY DEF HeapFor, HandsOut
<1>3. PICK lost \in 0 .. MaxLost :
        Len(l) = 3 * n + lost /\ Room(h, KHEAP_BLOCK_NUM - 3 * n - Buffer * lost)
  BY DEF HeapFor
<1>4. pow2[o] <= Buffer /\ Buffer \in Nat
  BY BufferIs
<1> HIDE DEF size, o
<1>5. HandsOut(r.heap, m) /\ Len(m) = Len(l) + 1
  BY <1>1, <1>2, Recorded DEF size
<1>6. /\ Cardinality(FreeIds(h)) \in Nat /\ Cardinality(FreeIds(r.heap)) \in Nat
      /\ pow2[o] \in Nat
      /\ Cardinality(FreeIds(h)) <= Cardinality(FreeIds(r.heap)) + pow2[o]
  BY <1>1, <1>2, TakesRoom DEF size, o
<1> HIDE DEF r, m
<1>7. lost \in Nat /\ lost + 1 \in 0 .. MaxLost /\ Len(m) = 3 * n + (lost + 1)
  BY <1>3, <1>5, ProcessMemoryAssumption
<1>8. Room(r.heap, KHEAP_BLOCK_NUM - 3 * n - Buffer * (lost + 1))
  <2>1. Buffer * (lost + 1) = Buffer * lost + Buffer /\ Buffer * lost \in Nat
    BY <1>4, <1>7
  <2> DEFINE c == Buffer * lost
  <2>2. KHEAP_BLOCK_NUM - 3 * n - c <= Cardinality(FreeIds(h))
    BY <1>3 DEF Room
  <2> HIDE DEF c
  <2>3. c \in Nat /\ KHEAP_BLOCK_NUM \in Nat
    BY <2>1, Sizes DEF c
  <2>4. KHEAP_BLOCK_NUM - 3 * n - (c + Buffer) <= Cardinality(FreeIds(r.heap))
    BY <2>2, <2>3, <1>4, <1>6
  <2> QED
    BY <2>1, <2>4 DEF Room, c
<1>9. HeapFor(r.heap, m, n)
  BY <1>5, <1>7, <1>8 DEF HeapFor
<1> QED
  BY <1>9 DEF r, m, size

-----------------------------------------------------------------------------
(***************************************************************************)
(* The structures and frames of a process.                                 *)
(***************************************************************************)
PmOf(m, p) == m[m[p].processMemory]
TiOf(m, p) == m[m[p].threadInfo]

\* A process whose three structures lie in blocks of the heap h.
IsProcess(m, h, p) ==
  /\ p \in Ids /\ m[p].processMemory \in Ids /\ m[p].threadInfo \in Ids
  /\ h.isAllocated[p] /\ h.isAllocated[m[p].processMemory] /\ h.isAllocated[m[p].threadInfo]
  /\ m[p] = [kind |-> "Process", processMemory |-> m[p].processMemory,
             threadInfo |-> m[p].threadInfo]
  /\ PmOf(m, p).kind = "ProcessMemory"
  /\ TiOf(m, p) = [kind |-> "ThreadInfo", process |-> p, ring0rsp |-> TiOf(m, p).ring0rsp]

TextFrame(pm)        == Frame(pm.textSegmentPageFrame)
UserStackFrame(pm)   == Frame(pm.userStackPageFrame)
KernelStackFrame(pm) == Frame(pm.kernelStackPageFrame)
TableFrame(pm)       == Frame(pm.l4PageTableBase)

\* Its frames are among the first n.
HasPages(pm, n) ==
  /\ TextFrame(pm) \in 1 .. n /\ UserStackFrame(pm) \in 1 .. n
  /\ KernelStackFrame(pm) \in 1 .. n /\ TableFrame(pm) \in 5 .. n
  /\ pm.textSegmentPageFrame = Address(TextFrame(pm))
  /\ pm.userStackPageFrame = Address(UserStackFrame(pm))
  /\ pm.kernelStackPageFrame = Address(KernelStackFrame(pm))
  /\ pm.l4PageTableBase = Address(TableFrame(pm))

\* Its page tables are as SetUpPageTable left them.
HasTables(c, pm) ==
  \A k \in 1 .. 5 :
    c[TableFrame(pm) - 5 + k] = SetUpPageTable(TableFrame(pm) - 5, pm.textSegmentPageFrame,
                                               StackTop(pm.userStackPageFrame))[k]

\* The frames nobody else has.
Own(pm) == {UserStackFrame(pm), KernelStackFrame(pm)} \cup (TableFrame(pm) - 4 .. TableFrame(pm))

\* A stack pointer of the i-th process lies on its kernel stack, lower by the
\* registers of one call for each process before it at most.
OnStack(pm, sp, i) ==
  /\ sp \in Int
  /\ sp - pm.kernelStackPageFrame \in PAGE_SIZE - 16 - SizeOfStack * (i - 1) .. PAGE_SIZE - 8

\* The frame of an address in a page.
LEMMA FrameOfAddress ==
  ASSUME NEW f \in Nat
  PROVE  /\ Frame(Address(f)) = f /\ Address(f) \in Nat
         /\ \A r \in 0 .. PAGE_SIZE - 1 : Frame(Address(f) + r) = f
<1>1. \A r \in 0 .. 4095 : (f * 4096 + r) \div 4096 = f
  OBVIOUS
<1>2. \A r \in 0 .. PAGE_SIZE - 1 : Frame(Address(f) + r) = f
  BY <1>1 DEF Frame, Address, PAGE_SIZE
<1>3. Address(f) \in Nat /\ Frame(Address(f)) = f
  <2>1. (f * 4096) \div 4096 = f
    OBVIOUS
  <2> QED
    BY <2>1 DEF Frame, Address, PAGE_SIZE
<1> QED
  BY <1>2, <1>3

IsSequence(s) == \E S : s \in Seq(S)

\* c is s followed by t.
JoinOf(c, s, t) ==
  /\ IsSequence(c) /\ Len(s) \in Nat /\ Len(t) \in Nat
  /\ Len(c) = Len(s) + Len(t)
  /\ \A i \in 1 .. Len(s) : c[i] = s[i]
  /\ \A i \in 1 .. Len(t) : c[Len(s) + i] = t[i]

\* A joined sequence holds the one and then the other.
LEMMA Joined ==
  ASSUME NEW s, NEW t, IsSequence(s), IsSequence(t)
  PROVE  JoinOf(s \o t, s, t)
<1>1. PICK S : s \in Seq(S)
  BY DEF IsSequence
<1>2. PICK T : t \in Seq(T)
  BY DEF IsSequence
<1>3. s \in Seq(S \cup T) /\ t \in Seq(S \cup T)
  BY <1>1, <1>2
<1>4. s \o t \in Seq(S \cup T)
  BY <1>3
<1>5. IsSequence(s \o t)
  BY <1>4 DEF IsSequence
<1> QED
  BY <1>3, <1>5 DEF JoinOf

\* The tuples the frames are written as are sequences.
LEMMA Tuples ==
  ASSUME NEW a, NEW b, NEW c, NEW d, NEW e
  PROVE  /\ IsSequence(<<a, b>>) /\ Len(<<a, b>>) = 2
         /\ IsSequence(<<a, b, c>>) /\ Len(<<a, b, c>>) = 3
         /\ IsSequence(<<a, b, c, d, e>>) /\ Len(<<a, b, c, d, e>>) = 5
<1>1. <<a, b>> \in Seq({a, b}) /\ Len(<<a, b>>) = 2
  OBVIOUS
<1>2. <<a, b, c>> \in Seq({a, b, c}) /\ Len(<<a, b, c>>) = 3
  OBVIOUS
<1>3. <<a, b, c, d, e>> \in Seq({a, b, c, d, e}) /\ Len(<<a, b, c, d, e>>) = 5
  OBVIOUS
<1> QED
  BY <1>1, <1>2, <1>3 DEF IsSequence

\* No table has an index that is none.
Fits(frame)  == \A i \in DOMAIN frame.table : i \in 0 .. 511
TablesFit(c) == \A f \in 1 .. Len(c) : Fits(c[f])

\* Data, and tables of at most 512 entries, are frames that fit.
LEMMA FramesFit ==
  /\ \A d : Fits(Data(d))
  /\ \A t : DOMAIN t \subseteq 0 .. 511 => Fits(Table(t))
<1>1. ASSUME NEW d
      PROVE  Fits(Data(d))
  <2>1. Data(d).table = <<>>
    BY DEF Data
  <2>2. DOMAIN <<>> = {}
    OBVIOUS
  <2> QED
    BY <2>1, <2>2 DEF Fits
<1>2. ASSUME NEW t, DOMAIN t \subseteq 0 .. 511
      PROVE  Fits(Table(t))
  <2>1. Table(t).table = t
    BY DEF Table
  <2> QED
    BY <2>1, <1>2 DEF Fits
<1> QED
  BY <1>1, <1>2

\* SetUpPageTable makes five frames that fit.
LEMMA FiveTables ==
  ASSUME NEW n, NEW text, NEW base
  PROVE  /\ IsSequence(SetUpPageTable(n, text, base)) /\ Len(SetUpPageTable(n, text, base)) = 5
         /\ \A k \in 1 .. 5 : Fits(SetUpPageTable(n, text, base)[k])
<1> DEFINE a == [i \in 0 .. 4 |-> Entry1GB(i)]
           b == [i \in {510, 511} |-> IF i = 510 THEN Entry(Frame(text), TRUE)
                                      ELSE Entry(StackFrame(base), TRUE)]
           c == [i \in {511} |-> Entry(n + 2, TRUE)]
           d == [i \in {511} |-> Entry(n + 3, TRUE)]
           e == [i \in {0, 511} |-> IF i = 0 THEN Entry(n + 1, FALSE) ELSE Entry(n + 4, TRUE)]
           s == SetUpPageTable(n, text, base)
<1>1. /\ DOMAIN a \subseteq 0 .. 511 /\ DOMAIN b \subseteq 0 .. 511 /\ DOMAIN c \subseteq 0 .. 511
      /\ DOMAIN d \subseteq 0 .. 511 /\ DOMAIN e \subseteq 0 .. 511
  OBVIOUS
<1>2. s = <<Table(a), Table(b), Table(c), Table(d), Table(e)>>
  BY DEF SetUpPageTable
<1> HIDE DEF s, a, b, c, d, e
<1>3. IsSequence(s) /\ Len(s) = 5
  BY <1>2, Tuples
<1>4. s[1] = Table(a) /\ s[2] = Table(b) /\ s[3] = Table(c) /\ s[4] = Table(d) /\ s[5] = Table(e)
  BY <1>2
<1>5. ASSUME NEW k \in 1 .. 5
      PROVE  Fits(s[k])
  <2>1. k = 1 \/ k = 2 \/ k = 3 \/ k = 4 \/ k = 5
    OBVIOUS
  <2>2. /\ Fits(Table(a)) /\ Fits(Table(b)) /\ Fits(Table(c)) /\ Fits(Table(d)) /\ Fits(Table(e))
    BY <1>1, FramesFit
  <2> QED
    BY <2>1, <2>2, <1>4
<1> QED
  BY <1>3, <1>5 DEF s

\* The structures of the child, with the stack it is resumed on.
LEMMA ChildIs ==
  ASSUME NEW shareVM, NEW x, NEW y, NEW q, NEW r, NEW b, NEW ring0rsp,
         mem[y] = [kind |-> "ThreadInfo", process |-> q, ring0rsp |-> r]
  PROVE  LET original == [kind |-> "Process", processMemory |-> x, threadInfo |-> y]
             child    == [CopyProcess(shareVM, original, b) EXCEPT
                            !.threadInfo = [@ EXCEPT !.ring0rsp = ring0rsp]]
         IN  /\ child.process = [kind |-> "Process", processMemory |-> b[2], threadInfo |-> b[3]]
             /\ child.processMemory = NewProcessMemory(Len(content), shareVM, mem[x])
             /\ child.threadInfo = [kind |-> "ThreadInfo", process |-> b[1], ring0rsp |-> ring0rsp]
             /\ CopyProcess(shareVM, original, b).processMemory = child.processMemory
<1> DEFINE original == [kind |-> "Process", processMemory |-> x, threadInfo |-> y]
           c == CopyProcess(shareVM, original, b)
           pm == NewProcessMemory(Len(content), shareVM, mem[x])
<1>1. original.processMemory = x /\ original.threadInfo = y
  OBVIOUS
<1>0. original = [kind |-> "Process", processMemory |-> x, threadInfo |-> y]
  OBVIOUS
<1> HIDE DEF original
<1>2. [original EXCEPT !.processMemory = b[2], !.threadInfo = b[3]]
        = [kind |-> "Process", processMemory |-> b[2], threadInfo |-> b[3]]
  <2> DEFINE one == [original EXCEPT !.processMemory = b[2]]
  <2>1. one = [kind |-> "Process", processMemory |-> b[2], threadInfo |-> y]
    BY <1>0
  <2> HIDE DEF one
  <2>2. [one EXCEPT !.threadInfo = b[3]]
          = [kind |-> "Process", processMemory |-> b[2], threadInfo |-> b[3]]
    BY <2>1
  <2>3. [original EXCEPT !.processMemory = b[2], !.threadInfo = b[3]]
          = [one EXCEPT !.threadInfo = b[3]]
    BY DEF one
  <2> QED
    BY <2>2, <2>3
<1>3. CopyThreadInfo(mem[y], b[1]) = [kind |-> "ThreadInfo", process |-> b[1], ring0rsp |-> r]
  BY DEF CopyThreadInfo
<1> HIDE DEF pm
<1>4. c = [process |-> [kind |-> "Process", processMemory |-> b[2], threadInfo |-> b[3]],
           processMemory |-> pm,
           threadInfo |-> [kind |-> "ThreadInfo", process |-> b[1], ring0rsp |-> r]]
  BY <1>1, <1>2, <1>3 DEF CopyProcess, pm
<1> DEFINE child == [c EXCEPT !.threadInfo = [@ EXCEPT !.ring0rsp = ring0rsp]]
<1> HIDE DEF c
<1>5. child = [process |-> [kind |-> "Process", processMemory |-> b[2], threadInfo |-> b[3]],
               processMemory |-> pm,
               threadInfo |-> [c.threadInfo EXCEPT !.ring0rsp = ring0rsp]]
  BY <1>4
<1>6. [c.threadInfo EXCEPT !.ring0rsp = ring0rsp]
        = [kind |-> "ThreadInfo", process |-> b[1], ring0rsp |-> ring0rsp]
  <2>1. c.threadInfo = [kind |-> "ThreadInfo", process |-> b[1], ring0rsp |-> r]
    BY <1>4
  <2> QED
    BY <2>1
<1> HIDE DEF child
<1>7. /\ child.process = [kind |-> "Process", processMemory |-> b[2], threadInfo |-> b[3]]
      /\ child.processMemory = pm
      /\ child.threadInfo = [kind |-> "ThreadInfo", process |-> b[1], ring0rsp |-> ring0rsp]
      /\ c.processMemory = pm
  BY <1>4, <1>5, <1>6
<1> QED
  BY <1>7 DEF child, c, original, pm

\* A memory is a function on the blocks.
OnBlocks(m) == m = [x \in Ids \cup {NULL} |-> m[x]]

\* What lies in the heap when they have been written.
LEMMA Stored ==
  ASSUME NEW m, OnBlocks(m), NEW b, NEW child,
         b[1] \in Ids, b[2] \in Ids, b[3] \in Ids, b[1] # b[2], b[1] # b[3], b[2] # b[3]
  PROVE  LET w == WithStructures(m, b, child)
         IN  /\ OnBlocks(w)
             /\ w[b[1]] = child.process /\ w[b[2]] = child.processMemory
             /\ w[b[3]] = child.threadInfo
             /\ \A x \in Ids \cup {NULL} : x \notin {b[1], b[2], b[3]} => w[x] = m[x]
<1>1. DOMAIN m = Ids \cup {NULL}
  BY DEF OnBlocks
<1> DEFINE w == WithStructures(m, b, child)
<1>2. w = [x \in Ids \cup {NULL} |->
             CASE x = b[3] -> child.threadInfo
               [] x = b[2] /\ x # b[3] -> child.processMemory
               [] x = b[1] /\ x \notin {b[2], b[3]} -> child.process
               [] OTHER -> m[x]]
  BY <1>1 DEF WithStructures
<1> HIDE DEF w
<1>3. OnBlocks(w)
  BY <1>2 DEF OnBlocks
<1>4. /\ w[b[1]] = child.process /\ w[b[2]] = child.processMemory
      /\ w[b[3]] = child.threadInfo
  BY <1>2
<1>5. \A x \in Ids \cup {NULL} : x \notin {b[1], b[2], b[3]} => w[x] = m[x]
  BY <1>2
<1> QED
  BY <1>3, <1>4, <1>5 DEF w

\* c is made of s, a and t, in this order.
MadeOf(c, s, a, t) ==
  /\ IsSequence(c) /\ Len(s) \in Nat /\ Len(a) \in Nat /\ Len(t) \in Nat
  /\ Len(c) = Len(s) + Len(a) + Len(t)
  /\ \A i \in 1 .. Len(s) : c[i] = s[i]
  /\ \A i \in 1 .. Len(a) : c[Len(s) + i] = a[i]
  /\ \A i \in 1 .. Len(t) : c[Len(s) + Len(a) + i] = t[i]

\* Frames that are put behind those in use: copies and page tables.
LEMMA PutBehind ==
  ASSUME NEW s, IsSequence(s), NEW a, IsSequence(a), NEW t, IsSequence(t)
  PROVE  MadeOf(s \o (a \o t), s, a, t)
<1> DEFINE u == a \o t
           c == s \o u
<1>1. /\ IsSequence(u) /\ Len(a) \in Nat /\ Len(t) \in Nat /\ Len(u) = Len(a) + Len(t)
      /\ \A i \in 1 .. Len(a) : u[i] = a[i]
      /\ \A i \in 1 .. Len(t) : u[Len(a) + i] = t[i]
  <2>1. JoinOf(u, a, t)
    BY Joined
  <2> HIDE DEF u
  <2> QED
    BY <2>1 DEF JoinOf
<1> HIDE DEF u
<1>2. /\ IsSequence(c) /\ Len(s) \in Nat /\ Len(u) \in Nat /\ Len(c) = Len(s) + Len(u)
      /\ \A i \in 1 .. Len(s) : c[i] = s[i]
      /\ \A i \in 1 .. Len(u) : c[Len(s) + i] = u[i]
  <2>1. JoinOf(c, s, u)
    BY <1>1, Joined
  <2> HIDE DEF c
  <2> QED
    BY <2>1 DEF JoinOf
<1> HIDE DEF c
<1>3. \A i \in 1 .. Len(a) : c[Len(s) + i] = a[i]
  BY <1>1, <1>2
<1>4. ASSUME NEW i \in 1 .. Len(t)
      PROVE  c[Len(s) + Len(a) + i] = t[i]
  <2>1. Len(a) + i \in 1 .. Len(u)
    BY <1>1
  <2>2. c[Len(s) + (Len(a) + i)] = u[Len(a) + i]
    BY <2>1, <1>2
  <2>3. Len(s) + (Len(a) + i) = Len(s) + Len(a) + i
    BY <1>1, <1>2
  <2> QED
    BY <2>2, <2>3, <1>1
<1>5. MadeOf(c, s, a, t)
  BY <1>1, <1>2, <1>3, <1>4 DEF MadeOf
<1> QED
  BY <1>5 DEF c, u

\* What CopyProcessMemory makes for the child of a process.
LEMMA NewFramesAre ==
  ASSUME IsSequence(content), TablesFit(content), NEW shareVM \in BOOLEAN,
         NEW originalPm, HasPages(originalPm, Len(content))
  PROVE  LET n  == Len(content)
             pm == NewProcessMemory(n, shareVM, originalPm)
             c  == content \o NewFrames(n, shareVM, originalPm, pm)
         IN  /\ IsSequence(c) /\ TablesFit(c) /\ n \in Nat /\ Len(c) \in Nat /\ n <= Len(c)
             /\ \A f \in 1 .. n : c[f] = content[f]
             /\ pm.kind = "ProcessMemory" /\ HasPages(pm, Len(c)) /\ HasTables(c, pm)
             /\ Own(pm) \subseteq n + 1 .. Len(c) /\ TextFrame(pm) \notin Own(pm)
             /\ shareVM => TextFrame(pm) = TextFrame(originalPm)
             /\ ~shareVM => /\ TextFrame(pm) \in n + 1 .. Len(c)
                            /\ c[TextFrame(pm)] = content[TextFrame(originalPm)]
<1> DEFINE n  == Len(content)
           pm == NewProcessMemory(n, shareVM, originalPm)
           F  == NewFrames(n, shareVM, originalPm, pm)
           c  == content \o F
           m  == IF shareVM THEN n + 2 ELSE n + 3
           T  == SetUpPageTable(m, pm.textSegmentPageFrame, StackTop(pm.userStackPageFrame))
           H  == IF shareVM THEN <<Data("new"), Data("new")>>
                 ELSE <<content[UserStackFrame(originalPm)],
                        content[KernelStackFrame(originalPm)],
                        content[TextFrame(originalPm)]>>
<1>0. n \in Nat
  BY DEF IsSequence
<1>1. /\ pm = [kind |-> "ProcessMemory",
               userStackPageFrame |-> Address(n + 1),
               kernelStackPageFrame |-> Address(n + 2),
               textSegmentPageFrame |-> IF shareVM THEN originalPm.textSegmentPageFrame
                                        ELSE Address(n + 3),
               l4PageTableBase |-> Address(m + 5)]
  BY DEF NewProcessMemory, SharesText, L4PageTable
<1>2. F = H \o T
  BY DEF NewFrames, SharesText, UserStackFrame, KernelStackFrame, TextFrame
<1>3. IsSequence(H) /\ Len(H) = m - n
  <2>1. CASE shareVM
    <3>1. H = <<Data("new"), Data("new")>>
      BY <2>1
    <3>2. m - n = 2
      BY <2>1, <1>0
    <3> HIDE DEF H, m
    <3> QED
      BY <3>1, <3>2, Tuples
  <2>2. CASE ~shareVM
    <3>1. H = <<content[UserStackFrame(originalPm)], content[KernelStackFrame(originalPm)],
                content[TextFrame(originalPm)]>>
      BY <2>2
    <3>2. m - n = 3
      BY <2>2, <1>0
    <3> HIDE DEF H, m
    <3> QED
      BY <3>1, <3>2, Tuples
  <2> QED
    BY <2>1, <2>2
<1>4. /\ IsSequence(T) /\ Len(T) = 5
      /\ \A k \in 1 .. 5 : Fits(T[k])
  <2> HIDE DEF pm, m
  <2> QED
    BY FiveTables
<1>5. m \in Nat /\ m + 5 \in Nat /\ n + 1 \in Nat /\ n + 2 \in Nat /\ n + 3 \in Nat /\ n <= m
      /\ n + 2 <= m /\ (shareVM => m = n + 2) /\ (~shareVM => m = n + 3)
  BY <1>0
<1>6. /\ UserStackFrame(pm) = n + 1 /\ KernelStackFrame(pm) = n + 2
      /\ TableFrame(pm) = m + 5
      /\ TextFrame(pm) = IF shareVM THEN TextFrame(originalPm) ELSE n + 3
      /\ pm.kind = "ProcessMemory"
      /\ pm.userStackPageFrame = Address(n + 1) /\ pm.kernelStackPageFrame = Address(n + 2)
      /\ pm.l4PageTableBase = Address(m + 5)
      /\ pm.textSegmentPageFrame = IF shareVM THEN originalPm.textSegmentPageFrame
                                   ELSE Address(n + 3)
  <2> HIDE DEF m, pm, n
  <2>1. /\ pm.kind = "ProcessMemory"
        /\ pm.userStackPageFrame = Address(n + 1) /\ pm.kernelStackPageFrame = Address(n + 2)
        /\ pm.l4PageTableBase = Address(m + 5)
        /\ pm.textSegmentPageFrame = IF shareVM THEN originalPm.textSegmentPageFrame
                                     ELSE Address(n + 3)
    BY <1>1
  <2>2. /\ Frame(Address(n + 1)) = n + 1 /\ Frame(Address(n + 2)) = n + 2
        /\ Frame(Address(n + 3)) = n + 3 /\ Frame(Address(m + 5)) = m + 5
    BY <1>5, FrameOfAddress
  <2> QED
    BY <2>1, <2>2 DEF UserStackFrame, KernelStackFrame, TableFrame, TextFrame
<1>7. /\ IsSequence(c) /\ Len(c) = m + 5
      /\ \A i \in 1 .. n : c[i] = content[i]
      /\ \A i \in 1 .. m - n : c[n + i] = H[i]
      /\ \A i \in 1 .. 5 : c[m + i] = T[i]
  <2> HIDE DEF H, T, m
  <2>1. c = content \o (H \o T)
    BY <1>2
  <2> HIDE DEF F, c, n
  <2>0. MadeOf(c, content, H, T)
    BY <2>1, <1>3, <1>4, PutBehind
  <2>2. /\ IsSequence(c) /\ Len(c) = n + Len(H) + Len(T)
        /\ \A i \in 1 .. n : c[i] = content[i]
        /\ \A i \in 1 .. Len(H) : c[n + i] = H[i]
        /\ \A i \in 1 .. Len(T) : c[n + Len(H) + i] = T[i]
    BY <2>0 DEF n, MadeOf
  <2>3. n + Len(H) = m /\ n + Len(H) + Len(T) = m + 5
    <3> HIDE DEF n
    <3> QED
      BY <1>0, <1>3, <1>4, <1>5
  <2> QED
    BY <2>2, <2>3, <1>3, <1>4
<1> HIDE DEF F, c
<1>8. HasTables(c, pm)
  <2>1. TableFrame(pm) - 5 = m
    <3> HIDE DEF m, pm, n
    <3> QED
      BY <1>5, <1>6
  <2> HIDE DEF m
  <2>2. \A k \in 1 .. 5 : c[TableFrame(pm) - 5 + k] = T[k]
    <3> HIDE DEF T, pm
    <3> QED
      BY <2>1, <1>7
  <2> HIDE DEF pm
  <2> QED
    BY <2>1, <2>2 DEF HasTables
<1>9. /\ TextFrame(originalPm) \in 1 .. n /\ UserStackFrame(originalPm) \in 1 .. n
      /\ KernelStackFrame(originalPm) \in 1 .. n
      /\ originalPm.textSegmentPageFrame = Address(TextFrame(originalPm))
  BY DEF HasPages
<1>10. ASSUME NEW f \in 1 .. Len(c)
       PROVE  Fits(c[f])
  <2>1. \A g \in 1 .. n : Fits(content[g])
    BY DEF TablesFit
  <2>2. CASE f \in 1 .. n
    BY <2>1, <2>2, <1>7
  <2>3. CASE f \in n + 1 .. m
    <3> DEFINE k == f - n
    <3>1. k \in 1 .. m - n /\ n + k = f
      <4> HIDE DEF m, n
      <4> QED
        BY <2>3, <1>0, <1>5
    <3>2. c[f] = H[k]
      <4> HIDE DEF m, n, k, H
      <4> QED
        BY <3>1, <1>7
    <3>3. CASE shareVM
      <4>1. k = 1 \/ k = 2
        <5> HIDE DEF k, n, m
        <5> QED
          BY <3>1, <3>3, <1>0, <1>5
      <4>2. H = <<Data("new"), Data("new")>>
        BY <3>3
      <4> HIDE DEF H, k, m, n
      <4>3. H[k] = Data("new")
        BY <4>1, <4>2
      <4> QED
        BY <4>3, <3>2, FramesFit
    <3>4. CASE ~shareVM
      <4>1. k = 1 \/ k = 2 \/ k = 3
        <5> HIDE DEF k, n, m
        <5> QED
          BY <3>1, <3>4, <1>0, <1>5
      <4>2. H = <<content[UserStackFrame(originalPm)], content[KernelStackFrame(originalPm)],
                  content[TextFrame(originalPm)]>>
        BY <3>4
      <4> HIDE DEF H, k, m
      <4>3. \E g \in 1 .. n : H[k] = content[g]
        BY <4>1, <4>2, <1>9
      <4> QED
        BY <4>3, <3>2, <2>1
    <3> QED
      BY <3>3, <3>4
  <2>4. CASE f \in m + 1 .. m + 5
    <3> DEFINE k == f - m
    <3>1. k \in 1 .. 5 /\ m + k = f
      <4> HIDE DEF m
      <4> QED
        BY <2>4, <1>5
    <3> HIDE DEF T, m, k
    <3>2. c[f] = T[k]
      BY <3>1, <1>7
    <3> QED
      BY <3>1, <3>2, <1>4
  <2>5. f \in 1 .. n \/ f \in n + 1 .. m \/ f \in m + 1 .. m + 5
    <3> HIDE DEF m, n
    <3> QED
      BY <1>0, <1>5, <1>7
  <2> QED
    BY <2>2, <2>3, <2>4, <2>5
<1>11. TablesFit(c)
  BY <1>10 DEF TablesFit
<1>12. Own(pm) = {n + 1, n + 2} \cup (m + 1 .. m + 5)
  <2> HIDE DEF pm, m, n
  <2>1. TableFrame(pm) - 4 = m + 1 /\ TableFrame(pm) = m + 5
    BY <1>5, <1>6
  <2>2. UserStackFrame(pm) = n + 1 /\ KernelStackFrame(pm) = n + 2
    BY <1>6
  <2> QED
    BY <2>1, <2>2 DEF Own
<1>13. Own(pm) \subseteq n + 1 .. Len(c)
  <2> HIDE DEF m, n, pm
  <2> QED
    BY <1>0, <1>5, <1>7, <1>12
<1>14. CASE shareVM
  <2> HIDE DEF H, T, m, n, pm
  <2>1. TextFrame(pm) = TextFrame(originalPm) /\ pm.textSegmentPageFrame = Address(TextFrame(pm))
    BY <1>14, <1>6, <1>9
  <2>2. TextFrame(pm) \in 1 .. Len(c) /\ TextFrame(pm) \notin Own(pm)
    BY <2>1, <1>0, <1>5, <1>7, <1>9, <1>12
  <2>3. HasPages(pm, Len(c))
    <3>1. /\ UserStackFrame(pm) \in 1 .. Len(c) /\ KernelStackFrame(pm) \in 1 .. Len(c)
          /\ TableFrame(pm) \in 5 .. Len(c)
      BY <1>0, <1>5, <1>6, <1>7
    <3> QED
      BY <3>1, <2>1, <2>2, <1>6 DEF HasPages
  <2>4. n <= Len(c) /\ Len(c) \in Nat
    BY <1>0, <1>5, <1>7
  <2> QED
    BY <2>1, <2>2, <2>3, <2>4, <1>0, <1>6, <1>7, <1>8, <1>11, <1>13, <1>14 DEF n, pm, c, F
<1>15. CASE ~shareVM
  <2> HIDE DEF T, m, n, pm
  <2>1. TextFrame(pm) = n + 3 /\ pm.textSegmentPageFrame = Address(n + 3) /\ m = n + 3
    BY <1>15, <1>5, <1>6
  <2>2. c[n + 3] = content[TextFrame(originalPm)]
    <3>1. H[3] = content[TextFrame(originalPm)]
      BY <1>15
    <3> HIDE DEF H
    <3>2. 3 \in 1 .. m - n
      BY <2>1, <1>0
    <3> QED
      BY <3>1, <3>2, <1>7
  <2> HIDE DEF H
  <2>3. /\ TextFrame(pm) \in n + 1 .. Len(c) /\ TextFrame(pm) \in 1 .. Len(c)
        /\ TextFrame(pm) \notin Own(pm)
    BY <2>1, <1>0, <1>7, <1>12
  <2>4. HasPages(pm, Len(c))
    <3>1. /\ UserStackFrame(pm) \in 1 .. Len(c) /\ KernelStackFrame(pm) \in 1 .. Len(c)
          /\ TableFrame(pm) \in 5 .. Len(c)
      BY <1>0, <1>5, <1>6, <1>7
    <3> QED
      BY <3>1, <2>1, <2>3, <1>6 DEF HasPages
  <2>5. n <= Len(c) /\ Len(c) \in Nat
    BY <1>0, <1>5, <1>7
  <2> QED
    BY <2>1, <2>2, <2>3, <2>4, <2>5, <1>0, <1>6, <1>7, <1>8, <1>11, <1>13, <1>15 DEF n, pm, c, F
<1> QED
  BY <1>14, <1>15

-----------------------------------------------------------------------------
(***************************************************************************)
(* The invariant, of a heap h that has handed out l, memory m, frames c and*)
(* processes P.                                                            *)
(***************************************************************************)

\* The i-th process is p: its structures, frames, tables and kernel stack.
Settled(m, h, c, p, i) ==
  /\ IsProcess(m, h, p)
  /\ HasPages(PmOf(m, p), Len(c))
  /\ HasTables(c, PmOf(m, p))
  /\ OnStack(PmOf(m, p), TiOf(m, p).ring0rsp, i)

Family(m, h, c, P) ==
  /\ \A i \in DOMAIN P : Settled(m, h, c, P[i], i)
  /\ \A i, j \in DOMAIN P :
       /\ TextFrame(PmOf(m, P[i])) \notin Own(PmOf(m, P[j]))
       /\ i # j => Own(PmOf(m, P[i])) \cap Own(PmOf(m, P[j])) = {}

IsMemory(m) ==
  /\ OnBlocks(m)
  /\ \A x \in Ids \cup {NULL} : m[x].kind \in Kinds

World(h, l, m, c, P) ==
  /\ HeapFor(h, l, Len(P))
  /\ IsMemory(m)
  /\ IsSequence(c) /\ TablesFit(c)
  /\ P \in Seq(Ids) /\ Len(P) <= MaxProcesses
  /\ Family(m, h, c, P)

\* One of them runs, on its stack and with its tables.
Runs(m, P, current, sp, base) ==
  \E i \in DOMAIN P :
    /\ current = P[i] /\ OnStack(PmOf(m, P[i]), sp, i)
    /\ base = PmOf(m, P[i]).l4PageTableBase

ProcInv ==
  /\ World(heap, live, mem, content, processes)
  /\ Runs(mem, processes, currentProcess, rsp0, cr3)
  /\ program \in [Ids \cup {NULL} -> Programs \cup {Kernel}]

\* The blocks that are handed out in h stay so in h2, and what m holds there.
KeepsBlocks(h, m, h2, m2) ==
  \A x \in Ids : h.isAllocated[x] => h2.isAllocated[x] /\ m2[x] = m[x]

\* A process stays as it is while its blocks and its page tables do.
LEMMA Kept ==
  ASSUME NEW h, NEW m, NEW c, NEW h2, NEW m2, NEW c2, NEW p, NEW i, Settled(m, h, c, p, i),
         KeepsBlocks(h, m, h2, m2), Len(c) \in Nat, Len(c2) \in Nat, Len(c) <= Len(c2),
         \A f \in Own(PmOf(m, p)) : c2[f] = c[f]
  PROVE  /\ Settled(m2, h2, c2, p, i)
         /\ m2[p] = m[p] /\ PmOf(m2, p) = PmOf(m, p) /\ TiOf(m2, p) = TiOf(m, p)
<1> DEFINE pm == PmOf(m, p)
<1>1. /\ m2[p] = m[p] /\ PmOf(m2, p) = pm /\ TiOf(m2, p) = TiOf(m, p)
      /\ IsProcess(m2, h2, p)
  BY DEF Settled, IsProcess, KeepsBlocks, PmOf, TiOf
<1>2. HasPages(pm, Len(c2))
  BY DEF Settled, HasPages
<1>3. HasTables(c2, pm)
  <2>1. TableFrame(pm) \in 5 .. Len(c)
    BY DEF Settled, HasPages
  <2>2. HasTables(c, pm)
    BY DEF Settled
  <2> HIDE DEF pm
  <2>3. ASSUME NEW k \in 1 .. 5
        PROVE  c2[TableFrame(pm) - 5 + k] = c[TableFrame(pm) - 5 + k]
    <3>1. TableFrame(pm) - 5 + k \in TableFrame(pm) - 4 .. TableFrame(pm)
      BY <2>1
    <3> QED
      BY <3>1 DEF pm, Own
  <2> QED
    BY <2>2, <2>3 DEF HasTables
<1>4. OnStack(PmOf(m2, p), TiOf(m2, p).ring0rsp, i)
  BY <1>1 DEF Settled
<1> HIDE DEF pm
<1> QED
  BY <1>1, <1>2, <1>3, <1>4 DEF Settled, pm

\* The frames of a process are in use.
LEMMA OwnInUse ==
  ASSUME NEW pm, NEW n \in Nat, HasPages(pm, n)
  PROVE  /\ Own(pm) \subseteq 1 .. n /\ TextFrame(pm) \in 1 .. n
         /\ UserStackFrame(pm) \in Own(pm) /\ KernelStackFrame(pm) \in Own(pm)
         /\ TableFrame(pm) \in Own(pm)
  BY DEF HasPages, Own

\* The structures of a process that lie, or will lie, in the blocks b.
AreStructures(child, b, pm, sp) ==
  /\ child.process = [kind |-> "Process", processMemory |-> b[2], threadInfo |-> b[3]]
  /\ child.processMemory = pm
  /\ child.threadInfo = [kind |-> "ThreadInfo", process |-> b[1], ring0rsp |-> sp]

\* The frames c2 extend c by the frames of a process that comes behind P.  It
\* may share the text page of one of them.
Extends(m, c, P, c2, pm, sp) ==
  /\ IsSequence(c2) /\ TablesFit(c2)
  /\ Len(c) <= Len(c2) /\ \A f \in 1 .. Len(c) : c2[f] = c[f]
  /\ pm.kind = "ProcessMemory" /\ HasPages(pm, Len(c2)) /\ HasTables(c2, pm)
  /\ OnStack(pm, sp, Len(P) + 1)
  /\ Own(pm) \subseteq Len(c) + 1 .. Len(c2) /\ TextFrame(pm) \notin Own(pm)
  /\ \/ TextFrame(pm) \in Len(c) + 1 .. Len(c2)
     \/ \E i \in DOMAIN P : TextFrame(pm) = TextFrame(PmOf(m, P[i]))

\* The process at b has come in h and m, which are now h2 and m2.
HasCome(h, m, h2, m2, b, pm) ==
  /\ b \in Ids /\ ~h.isAllocated[b] /\ KeepsBlocks(h, m, h2, m2)
  /\ PmOf(m2, b) = pm

\* A process whose structures are put into three free blocks, and whose frames
\* nobody has, joins the others.
LEMMA Joins ==
  ASSUME HeapIsLargeEnough, NEW h, NEW l, NEW m, NEW c, NEW P, World(h, l, m, c, P),
         Len(P) < MaxProcesses, NEW got, got = AllocateStructures(h, l),
         NEW child, NEW pm, NEW sp, NEW c2,
         AreStructures(child, got.blocks, pm, sp), Extends(m, c, P, c2, pm, sp)
  PROVE  LET w == WithStructures(m, got.blocks, child)
         IN  /\ World(got.heap, got.live, w, c2, Append(P, got.blocks[1]))
             /\ HasCome(h, m, got.heap, w, got.blocks[1], pm)
<1> DEFINE b == got.blocks
           w == WithStructures(m, b, child)
           n == Len(P)
           Q == Append(P, b[1])
<1>1. P \in Seq(Ids) /\ n \in Nat /\ DOMAIN P = 1 .. n /\ Len(c) \in Nat /\ Len(c2) \in Nat
  BY DEF World, IsSequence, Extends
<1>0. /\ child.processMemory = pm /\ pm.kind = "ProcessMemory"
      /\ IsSequence(c2) /\ TablesFit(c2) /\ Len(c) <= Len(c2)
      /\ \A f \in 1 .. Len(c) : c2[f] = c[f]
      /\ HasPages(pm, Len(c2)) /\ HasTables(c2, pm) /\ OnStack(pm, sp, n + 1)
      /\ Own(pm) \subseteq Len(c) + 1 .. Len(c2) /\ TextFrame(pm) \notin Own(pm)
      /\ \/ TextFrame(pm) \in Len(c) + 1 .. Len(c2)
         \/ \E i \in DOMAIN P : TextFrame(pm) = TextFrame(PmOf(m, P[i]))
  BY DEF AreStructures, Extends
<1>2. HeapFor(h, l, n) /\ IsMemory(m) /\ Family(m, h, c, P)
  BY DEF World
<1>3. /\ HeapFor(got.heap, got.live, n + 1)
      /\ b[1] \in Ids /\ b[2] \in Ids /\ b[3] \in Ids
      /\ b[1] # b[2] /\ b[1] # b[3] /\ b[2] # b[3]
      /\ ~h.isAllocated[b[1]] /\ ~h.isAllocated[b[2]] /\ ~h.isAllocated[b[3]]
      /\ \A x \in Ids : got.heap.isAllocated[x] <=>
                          x \in {b[1], b[2], b[3]} \/ h.isAllocated[x]
  <2> HIDE DEF n
  <2> QED
    BY <1>1, <1>2, HeapForFork DEF n
<1> HIDE DEF b
<1>4. /\ OnBlocks(w)
      /\ w[b[1]] = child.process /\ w[b[2]] = pm /\ w[b[3]] = child.threadInfo
      /\ \A x \in Ids \cup {NULL} : x \notin {b[1], b[2], b[3]} => w[x] = m[x]
  <2>1. OnBlocks(m)
    BY <1>2 DEF IsMemory
  <2> HIDE DEF w
  <2> QED
    BY <2>1, <1>0, <1>3, Stored DEF w
<1> HIDE DEF w
<1>5. /\ child.process = [kind |-> "Process", processMemory |-> b[2], threadInfo |-> b[3]]
      /\ child.threadInfo = [kind |-> "ThreadInfo", process |-> b[1], ring0rsp |-> sp]
  BY DEF b, AreStructures
<1>6. IsMemory(w)
  <2>1. ASSUME NEW x \in Ids \cup {NULL}
        PROVE  w[x].kind \in Kinds
    <3>1. m[x].kind \in Kinds
      BY <1>2 DEF IsMemory
    <3>2. child.process.kind = "Process" /\ child.threadInfo.kind = "ThreadInfo"
      BY <1>5
    <3>3. x = b[1] \/ x = b[2] \/ x = b[3] \/ w[x] = m[x]
      BY <1>4
    <3>4. \/ w[x].kind = "Process" \/ w[x].kind = "ProcessMemory" \/ w[x].kind = "ThreadInfo"
          \/ w[x].kind = m[x].kind
      BY <3>2, <3>3, <1>0, <1>4
    <3> QED
      BY <3>1, <3>4 DEF Kinds
  <2> QED
    BY <2>1, <1>4 DEF IsMemory
<1>7. KeepsBlocks(h, m, got.heap, w)
  BY <1>3, <1>4 DEF KeepsBlocks
<1>8. /\ w[b[1]] = [kind |-> "Process", processMemory |-> b[2], threadInfo |-> b[3]]
      /\ PmOf(w, b[1]) = pm
      /\ TiOf(w, b[1]) = [kind |-> "ThreadInfo", process |-> b[1], ring0rsp |-> sp]
      /\ w[b[1]].processMemory = b[2] /\ w[b[1]].threadInfo = b[3]
      /\ TiOf(w, b[1]).ring0rsp = sp
  <2>1. w[b[1]] = [kind |-> "Process", processMemory |-> b[2], threadInfo |-> b[3]]
    BY <1>4, <1>5
  <2>2. w[b[1]].processMemory = b[2] /\ w[b[1]].threadInfo = b[3]
    BY <2>1
  <2>3. PmOf(w, b[1]) = pm
        /\ TiOf(w, b[1]) = [kind |-> "ThreadInfo", process |-> b[1], ring0rsp |-> sp]
    BY <2>2, <1>4, <1>5 DEF PmOf, TiOf
  <2>4. TiOf(w, b[1]).ring0rsp = sp
    BY <2>3
  <2> QED
    BY <2>1, <2>2, <2>3, <2>4
<1>9. Settled(w, got.heap, c2, b[1], n + 1)
  <2>1. IsProcess(w, got.heap, b[1])
    BY <1>0, <1>3, <1>8 DEF IsProcess
  <2> QED
    BY <2>1, <1>0, <1>8 DEF Settled
<1>10. ASSUME NEW i \in 1 .. n
       PROVE  /\ Settled(w, got.heap, c2, P[i], i) /\ PmOf(w, P[i]) = PmOf(m, P[i])
              /\ Own(PmOf(m, P[i])) \subseteq 1 .. Len(c)
              /\ TextFrame(PmOf(m, P[i])) \in 1 .. Len(c)
  <2>1. Settled(m, h, c, P[i], i)
    BY <1>1, <1>2 DEF Family
  <2>2. /\ Own(PmOf(m, P[i])) \subseteq 1 .. Len(c)
        /\ TextFrame(PmOf(m, P[i])) \in 1 .. Len(c)
    BY <2>1, <1>1, OwnInUse DEF Settled
  <2>3. \A f \in Own(PmOf(m, P[i])) : c2[f] = c[f]
    BY <2>2, <1>0
  <2> QED
    BY <2>1, <2>2, <2>3, <1>0, <1>1, <1>7, Kept
<1>11. /\ Q \in Seq(Ids) /\ Len(Q) = n + 1 /\ DOMAIN Q = 1 .. n + 1
       /\ Q[n + 1] = b[1] /\ \A i \in 1 .. n : Q[i] = P[i]
  BY <1>1, <1>3
<1> HIDE DEF Q
<1>12. Family(w, got.heap, c2, Q)
  <2>1. ASSUME NEW i \in DOMAIN Q
        PROVE  Settled(w, got.heap, c2, Q[i], i)
    <3>1. CASE i \in 1 .. n
      BY <3>1, <1>10, <1>11
    <3>2. CASE i = n + 1
      BY <3>2, <1>9, <1>11
    <3> QED
      BY <3>1, <3>2, <1>1, <1>11
  <2>2. ASSUME NEW i \in DOMAIN Q, NEW j \in DOMAIN Q
        PROVE  /\ TextFrame(PmOf(w, Q[i])) \notin Own(PmOf(w, Q[j]))
               /\ i # j => Own(PmOf(w, Q[i])) \cap Own(PmOf(w, Q[j])) = {}
    <3>1. (i \in 1 .. n \/ i = n + 1) /\ (j \in 1 .. n \/ j = n + 1)
      BY <1>1, <1>11
    <3>2. CASE i \in 1 .. n /\ j \in 1 .. n
      <4>1. /\ TextFrame(PmOf(m, P[i])) \notin Own(PmOf(m, P[j]))
            /\ i # j => Own(PmOf(m, P[i])) \cap Own(PmOf(m, P[j])) = {}
        BY <3>2, <1>1, <1>2 DEF Family
      <4>2. /\ Q[i] = P[i] /\ Q[j] = P[j]
            /\ PmOf(w, P[i]) = PmOf(m, P[i]) /\ PmOf(w, P[j]) = PmOf(m, P[j])
        BY <3>2, <1>10, <1>11
      <4> QED
        BY <4>1, <4>2
    <3>3. CASE i \in 1 .. n /\ j = n + 1
      <4>1. PmOf(w, Q[j]) = pm /\ PmOf(w, Q[i]) = PmOf(m, P[i])
        BY <3>3, <1>8, <1>10, <1>11
      <4>2. /\ Own(PmOf(m, P[i])) \subseteq 1 .. Len(c)
            /\ TextFrame(PmOf(m, P[i])) \in 1 .. Len(c)
        BY <3>3, <1>10
      <4>3. Own(pm) \cap 1 .. Len(c) = {}
        BY <1>0, <1>1
      <4> QED
        BY <4>1, <4>2, <4>3
    <3>4. CASE i = n + 1 /\ j \in 1 .. n
      <4>1. PmOf(w, Q[i]) = pm /\ PmOf(w, Q[j]) = PmOf(m, P[j])
        BY <3>4, <1>8, <1>10, <1>11
      <4>2. Own(PmOf(m, P[j])) \subseteq 1 .. Len(c)
        BY <3>4, <1>10
      <4>3. Own(pm) \cap 1 .. Len(c) = {}
        BY <1>0, <1>1
      <4>4. TextFrame(pm) \notin Own(PmOf(m, P[j]))
        <5>1. CASE TextFrame(pm) \in Len(c) + 1 .. Len(c2)
          BY <5>1, <4>2, <1>1
        <5>2. CASE \E k \in DOMAIN P : TextFrame(pm) = TextFrame(PmOf(m, P[k]))
          BY <5>2, <3>4, <1>1, <1>2 DEF Family
        <5> QED
          BY <5>1, <5>2, <1>0
      <4> QED
        BY <4>1, <4>2, <4>3, <4>4
    <3>5. CASE i = n + 1 /\ j = n + 1
      BY <3>5, <1>0, <1>8, <1>11
    <3> QED
      BY <3>1, <3>2, <3>3, <3>4, <3>5
  <2> QED
    BY <2>1, <2>2 DEF Family
<1>13. World(got.heap, got.live, w, c2, Q)
  <2>1. Len(Q) <= MaxProcesses
    BY <1>1, <1>11, ProcessMemoryAssumption
  <2> QED
    BY <2>1, <1>0, <1>3, <1>6, <1>11, <1>12 DEF World
<1>14. HasCome(h, m, got.heap, w, b[1], pm)
  BY <1>3, <1>7, <1>8 DEF HasCome
<1> QED
  BY <1>13, <1>14 DEF w, b, Q

\* Before the first process.
LEMMA Empty ==
  ASSUME HeapIsLargeEnough
  PROVE  World(kHeapInit, <<>>, [x \in Ids \cup {NULL} |-> Bytes], <<>>, <<>>)
<1> DEFINE m == [x \in Ids \cup {NULL} |-> Bytes]
<1>1. MaxProcesses \in Nat \ {0} /\ MaxLost \in Nat /\ KHEAP_BLOCK_NUM \in Nat
  BY ProcessMemoryAssumption, Sizes
<1>2. <<>> \in Seq(Ids) /\ <<>> \in Seq({}) /\ Len(<<>>) = 0 /\ DOMAIN <<>> = {}
  OBVIOUS
<1>3. HeapFor(kHeapInit, <<>>, 0)
  <2>1. HandsOut(kHeapInit, <<>>) /\ Room(kHeapInit, KHEAP_BLOCK_NUM)
    BY EmptyHeap
  <2>2. Buffer * 0 = 0
    BY BufferIs
  <2>3. KHEAP_BLOCK_NUM - 3 * 0 - Buffer * 0 = KHEAP_BLOCK_NUM
    BY <2>2, <1>1
  <2>4. 0 \in 0 .. MaxLost /\ Len(<<>>) = 3 * 0 + 0
    BY <1>1, <1>2
  <2> QED
    BY <2>1, <2>3, <2>4 DEF HeapFor
<1>4. IsMemory(m)
  <2>1. OnBlocks(m)
    BY DEF OnBlocks
  <2>2. \A x \in Ids \cup {NULL} : m[x].kind = "bytes"
    BY DEF Bytes
  <2> HIDE DEF m
  <2> QED
    BY <2>1, <2>2 DEF IsMemory, Kinds
<1>5. IsSequence(<<>>) /\ TablesFit(<<>>)
  BY <1>2 DEF IsSequence, TablesFit
<1> HIDE DEF m
<1>6. Family(m, kHeapInit, <<>>, <<>>)
  BY <1>2 DEF Family
<1>7. 0 <= MaxProcesses
  BY <1>1
<1>8. World(kHeapInit, <<>>, m, <<>>, <<>>)
  BY <1>2, <1>3, <1>4, <1>5, <1>6, <1>7 DEF World
<1> QED
  BY <1>8 DEF m

\* The frames of the first process.
LEMMA FirstFrames ==
  ASSUME NEW pm,
         pm = [kind                 |-> "ProcessMemory",
               textSegmentPageFrame |-> Address(1),
               kernelStackPageFrame |-> Address(2),
               userStackPageFrame   |-> Address(3),
               l4PageTableBase      |-> L4PageTable(3)],
         NEW c, c = <<Data("new"), Data("new"), Data("new")>>
                      \o SetUpPageTable(3, pm.textSegmentPageFrame,
                                        StackTop(pm.userStackPageFrame))
  PROVE  /\ IsSequence(c) /\ TablesFit(c) /\ Len(c) = 8
         /\ HasPages(pm, 8) /\ HasTables(c, pm) /\ Own(pm) \subseteq 2 .. 8
         /\ TextFrame(pm) = 1 /\ pm.kind = "ProcessMemory"
         /\ OnStack(pm, StackTop(pm.kernelStackPageFrame), 1)
<1> DEFINE T == SetUpPageTable(3, pm.textSegmentPageFrame, StackTop(pm.userStackPageFrame))
           D == <<Data("new"), Data("new"), Data("new")>>
<1>1. /\ pm.kind = "ProcessMemory" /\ pm.textSegmentPageFrame = Address(1)
      /\ pm.kernelStackPageFrame = Address(2) /\ pm.userStackPageFrame = Address(3)
      /\ pm.l4PageTableBase = L4PageTable(3)
  OBVIOUS
<1>2. pm.l4PageTableBase = Address(8)
  BY <1>1 DEF L4PageTable
<1>3. /\ Frame(Address(1)) = 1 /\ Frame(Address(2)) = 2 /\ Frame(Address(3)) = 3
      /\ Frame(Address(8)) = 8
  <2>1. 1 \in Nat /\ 2 \in Nat /\ 3 \in Nat /\ 8 \in Nat
    OBVIOUS
  <2> QED
    BY <2>1, FrameOfAddress
<1>4. /\ TextFrame(pm) = 1 /\ KernelStackFrame(pm) = 2 /\ UserStackFrame(pm) = 3
      /\ TableFrame(pm) = 8
  BY <1>1, <1>2, <1>3 DEF TextFrame, KernelStackFrame, UserStackFrame, TableFrame
<1>5. IsSequence(T) /\ Len(T) = 5 /\ \A k \in 1 .. 5 : Fits(T[k])
  BY FiveTables
<1>6. IsSequence(D) /\ Len(D) = 3
  BY Tuples
<1>7. \A k \in 1 .. 3 : Fits(D[k])
  <2>1. \A k \in 1 .. 3 : k = 1 \/ k = 2 \/ k = 3
    OBVIOUS
  <2>2. D[1] = Data("new") /\ D[2] = Data("new") /\ D[3] = Data("new")
    OBVIOUS
  <2> HIDE DEF D
  <2>3. Fits(Data("new"))
    BY FramesFit
  <2> QED
    BY <2>1, <2>2, <2>3
<1> HIDE DEF T, D
<1>8. /\ IsSequence(c) /\ Len(c) = 8
      /\ \A i \in 1 .. 3 : c[i] = D[i]
      /\ \A i \in 1 .. 5 : c[3 + i] = T[i]
  <2>1. c = D \o T
    BY DEF D, T
  <2>2. JoinOf(c, D, T)
    <3>1. JoinOf(D \o T, D, T)
      BY <1>5, <1>6, Joined, Zenon
    <3> QED
      BY <2>1, <3>1
  <2>3. /\ IsSequence(c) /\ Len(c) = Len(D) + Len(T)
        /\ \A i \in 1 .. Len(D) : c[i] = D[i]
        /\ \A i \in 1 .. Len(T) : c[Len(D) + i] = T[i]
    BY <2>2, Zenon DEF JoinOf
  <2>4. Len(D) + Len(T) = 8
    BY <1>5, <1>6
  <2> QED
    BY <2>3, <2>4, <1>5, <1>6, Zenon
<1>9. TablesFit(c)
  <2> SUFFICES ASSUME NEW f \in 1 .. 8
               PROVE  Fits(c[f])
    BY <1>8 DEF TablesFit
  <2>1. CASE f \in 1 .. 3
    BY <2>1, <1>7, <1>8
  <2>2. CASE f \in 4 .. 8
    <3>1. f - 3 \in 1 .. 5 /\ 3 + (f - 3) = f
      BY <2>2
    <3> QED
      BY <3>1, <1>5, <1>8
  <2>3. f \in 1 .. 3 \/ f \in 4 .. 8
    OBVIOUS
  <2> QED
    BY <2>1, <2>2, <2>3
<1>10. HasTables(c, pm)
  <2>1. TableFrame(pm) - 5 = 3
    BY <1>4
  <2> QED
    BY <2>1, <1>8 DEF HasTables, T
<1>11. HasPages(pm, 8) /\ Own(pm) \subseteq 2 .. 8
  BY <1>1, <1>2, <1>4 DEF HasPages, Own
<1>12. OnStack(pm, StackTop(pm.kernelStackPageFrame), 1)
  BY <1>1 DEF OnStack, StackTop, Address, PAGE_SIZE, SizeOfStack
<1> QED
  BY <1>1, <1>4, <1>8, <1>9, <1>10, <1>11, <1>12

\* ProcessInit: the first process is settled and runs.
LEMMA FirstProcess ==
  ASSUME HeapIsLargeEnough, ProcessInit
  PROVE  ProcInv
<1> DEFINE pm == [kind                 |-> "ProcessMemory",
                  textSegmentPageFrame |-> Address(1),
                  kernelStackPageFrame |-> Address(2),
                  userStackPageFrame   |-> Address(3),
                  l4PageTableBase      |-> L4PageTable(3)]
           sp == StackTop(pm.kernelStackPageFrame)
           first(blocks) ==
             [process       |-> [kind |-> "Process", processMemory |-> blocks[2],
                                 threadInfo |-> blocks[3]],
              processMemory |-> pm,
              threadInfo    |-> [kind |-> "ThreadInfo", process |-> blocks[1], ring0rsp |-> sp]]
           m == [x \in Ids \cup {NULL} |-> Bytes]
<1>1. PICK got : got = AllocateStructures(kHeapInit, <<>>)
  OBVIOUS
<1> DEFINE b == got.blocks
           child == first(b)
           w == WithStructures(m, b, child)
<1>2. /\ heap = got.heap /\ live = got.live /\ mem = w
      /\ processes = <<b[1]>> /\ currentProcess = b[1]
      /\ content = <<Data("new"), Data("new"), Data("new")>>
                     \o SetUpPageTable(3, pm.textSegmentPageFrame,
                                       StackTop(pm.userStackPageFrame))
      /\ program = [x \in Ids \cup {NULL} |-> Kernel]
      /\ cr3 = pm.l4PageTableBase /\ rsp0 = sp
  BY <1>1 DEF ProcessInit
<1>3. AreStructures(child, b, pm, sp)
  <2> HIDE DEF pm, sp
  <2> QED
    BY DEF AreStructures
<1> HIDE DEF child, m
<1>4. /\ IsSequence(content) /\ TablesFit(content) /\ Len(content) = 8
      /\ HasPages(pm, 8) /\ HasTables(content, pm) /\ Own(pm) \subseteq 2 .. 8
      /\ TextFrame(pm) = 1 /\ pm.kind = "ProcessMemory"
      /\ OnStack(pm, sp, 1)
  <2>1. pm = [kind                 |-> "ProcessMemory",
              textSegmentPageFrame |-> Address(1),
              kernelStackPageFrame |-> Address(2),
              userStackPageFrame   |-> Address(3),
              l4PageTableBase      |-> L4PageTable(3)]
    OBVIOUS
  <2>2. content = <<Data("new"), Data("new"), Data("new")>>
                    \o SetUpPageTable(3, pm.textSegmentPageFrame,
                                      StackTop(pm.userStackPageFrame))
    BY <1>2
  <2> HIDE DEF pm
  <2> QED
    BY <2>1, <2>2, FirstFrames
<1> HIDE DEF pm, sp
<1>5. World(kHeapInit, <<>>, m, <<>>, <<>>)
  BY Empty DEF m
<1>6. Len(<<>>) = 0 /\ DOMAIN <<>> = {} /\ Len(<<>>) < MaxProcesses
  BY ProcessMemoryAssumption
<1>7. /\ World(got.heap, got.live, w, content, Append(<<>>, b[1]))
      /\ HasCome(kHeapInit, m, got.heap, w, b[1], pm)
  <2>1. Extends(m, <<>>, <<>>, content, pm, sp)
    BY <1>4, <1>6 DEF Extends
  <2> QED
    BY <1>1, <1>3, <1>5, <1>6, <2>1, Joins
<1>8. Append(<<>>, b[1]) = <<b[1]>>
  OBVIOUS
<1>9. World(heap, live, mem, content, processes)
  BY <1>2, <1>7, <1>8
<1>10. Runs(mem, processes, currentProcess, rsp0, cr3)
  <2>1. 1 \in DOMAIN processes /\ processes[1] = b[1]
    BY <1>2
  <2> QED
    BY <2>1, <1>2, <1>4, <1>7 DEF Runs, HasCome
<1>11. program \in [Ids \cup {NULL} -> Programs \cup {Kernel}]
  BY <1>2
<1> QED
  BY <1>9, <1>10, <1>11 DEF ProcInv

-----------------------------------------------------------------------------
(***************************************************************************)
(* The steps.                                                              *)
(***************************************************************************)

\* The process that runs.
LEMMA Running ==
  ASSUME ProcInv
  PROVE  /\ processes \in Seq(Ids) /\ Len(processes) \in Nat
         /\ DOMAIN processes = 1 .. Len(processes) /\ Len(content) \in Nat
         /\ \E i \in 1 .. Len(processes) :
              /\ currentProcess = processes[i]
              /\ Settled(mem, heap, content, currentProcess, i)
              /\ OnStack(PmOf(mem, currentProcess), rsp0, i)
              /\ cr3 = PmOf(mem, currentProcess).l4PageTableBase
<1>1. /\ processes \in Seq(Ids) /\ Len(processes) \in Nat
      /\ DOMAIN processes = 1 .. Len(processes) /\ Len(content) \in Nat
  BY DEF ProcInv, World, IsSequence
<1>2. PICK i \in DOMAIN processes :
        /\ currentProcess = processes[i] /\ OnStack(PmOf(mem, processes[i]), rsp0, i)
        /\ cr3 = PmOf(mem, processes[i]).l4PageTableBase
  BY DEF ProcInv, Runs
<1>3. Settled(mem, heap, content, processes[i], i)
  BY DEF ProcInv, World, Family
<1> QED
  BY <1>1, <1>2, <1>3

\* The first sp0 on a stack, after it has been aligned and the registers of a
\* call are stored.
LEMMA CallsFit ==
  ASSUME NEW pm, NEW f \in Nat, pm.kernelStackPageFrame = Address(f), NEW sp \in Int,
         NEW i \in Nat \ {0}, OnStack(pm, sp, i)
  PROVE  OnStack(pm, (sp \div 16) * 16 - SizeOfStack, i + 1)
<1> DEFINE a == Address(f)
           s == (sp \div 16) * 16
<1>1. a = 16 * (256 * f) /\ 256 * f \in Nat /\ a \in Nat
  BY DEF Address, PAGE_SIZE
<1>2. s <= sp /\ sp < s + 16 /\ s \in Int /\ \E k \in Int : s = 16 * k
  OBVIOUS
<1>3. sp - a \in 4096 - 16 - 160 * (i - 1) .. 4096 - 8
  BY DEF OnStack, PAGE_SIZE, SizeOfStack
<1> HIDE DEF a, s
<1>4. PICK k \in Int : s = 16 * k
  BY <1>2
<1>5. PICK g \in Nat : a = 16 * g
  BY <1>1
<1>6. s - a >= 4096 - 16 - 160 * (i - 1)
  <2>1. 16 * k + 16 > 4096 - 16 - 160 * (i - 1) + 16 * g
    BY <1>1, <1>2, <1>3, <1>4, <1>5
  <2>2. k + 1 > 256 - 1 - 10 * (i - 1) + g
    BY <2>1
  <2>3. k >= 256 - 1 - 10 * (i - 1) + g
    BY <2>2
  <2> QED
    BY <2>3, <1>4, <1>5
<1>7. s - 160 - a \in 4096 - 16 - 160 * i .. 4096 - 8
  BY <1>1, <1>2, <1>3, <1>6
<1>8. s - 160 - pm.kernelStackPageFrame \in 4096 - 16 - 160 * i .. 4096 - 8
  BY <1>7 DEF a
<1>9. s - 160 \in Int /\ (i + 1) - 1 = i
  BY <1>2
<1> QED
  BY <1>8, <1>9 DEF OnStack, PAGE_SIZE, SizeOfStack, s

\* What a fork leads to: one more process at b, with the frames of pm.
Forked(shareVM, b, pm) ==
  /\ World(heap', live', mem', content', processes')
  /\ HasCome(heap, mem, heap', mem', b, pm)
  /\ processes' = Append(processes, b)
  /\ Len(content) <= Len(content') /\ Len(content') \in Nat
  /\ \A f \in 1 .. Len(content) : content'[f] = content[f]
  /\ shareVM => TextFrame(pm) = TextFrame(PmOf(mem, currentProcess))
  /\ ~shareVM => /\ TextFrame(pm) \in Len(content) + 1 .. Len(content')
                 /\ content'[TextFrame(pm)] = content[TextFrame(PmOf(mem, currentProcess))]
  /\ program' = [program EXCEPT ![b] = IF shareVM THEN Kernel ELSE program[currentProcess]]
  /\ UNCHANGED <<currentProcess, cr3, rsp0>>

\* DoFork leads to one process more, on a stack of its own, if the caller's
\* registers lie on the caller's stack.
LEMMA Fork ==
  ASSUME HeapIsLargeEnough, ProcInv, NEW shareVM \in BOOLEAN, NEW rsp, DoFork(shareVM, rsp),
         ~shareVM => OnStack(PmOf(mem, currentProcess), rsp, Len(processes) + 1)
  PROVE  \E b, pm : Forked(shareVM, b, pm)
<1> DEFINE n == Len(processes)
           k == Len(content)
           original == mem[currentProcess]
           originalPm == PmOf(mem, currentProcess)
<1>1. PICK got : /\ got = AllocateStructures(heap, live)
                 /\ \E child \in {CopyProcess(shareVM, original, got.blocks)} :
                      LET pm       == child.processMemory
                          ring0rsp == Ring0Rsp(shareVM, rsp, originalPm, pm)
                      IN  /\ heap' = got.heap
                          /\ live' = got.live
                          /\ mem' = WithStructures(mem, got.blocks,
                               [child EXCEPT !.threadInfo = [@ EXCEPT !.ring0rsp = ring0rsp]])
                          /\ content' = content \o NewFrames(k, shareVM, originalPm, pm)
                          /\ processes' = Append(processes, got.blocks[1])
                          /\ program' = [program EXCEPT ![got.blocks[1]] =
                               IF shareVM THEN Kernel ELSE program[currentProcess]]
  BY DEF DoFork, ProcessMemoryOf, PmOf
<1> DEFINE b        == got.blocks
           copy     == CopyProcess(shareVM, original, b)
           pm       == copy.processMemory
           ring0rsp == Ring0Rsp(shareVM, rsp, originalPm, pm)
           child    == [copy EXCEPT !.threadInfo = [@ EXCEPT !.ring0rsp = ring0rsp]]
<1>2. /\ heap' = got.heap
      /\ live' = got.live
      /\ mem' = WithStructures(mem, b, child)
      /\ content' = content \o NewFrames(k, shareVM, originalPm, pm)
      /\ processes' = Append(processes, b[1])
      /\ program' = [program EXCEPT ![b[1]] =
                       IF shareVM THEN Kernel ELSE program[currentProcess]]
      /\ UNCHANGED <<currentProcess, cr3, rsp0>>
      /\ n < MaxProcesses
  BY <1>1 DEF DoFork
<1>3. /\ processes \in Seq(Ids) /\ n \in Nat /\ DOMAIN processes = 1 .. n /\ k \in Nat
  BY Running
<1>4. PICK i \in 1 .. n :
        currentProcess = processes[i] /\ Settled(mem, heap, content, currentProcess, i)
  BY Running
<1>5. /\ original = [kind |-> "Process", processMemory |-> original.processMemory,
                     threadInfo |-> original.threadInfo]
      /\ mem[original.threadInfo]
           = [kind |-> "ThreadInfo", process |-> currentProcess,
              ring0rsp |-> TiOf(mem, currentProcess).ring0rsp]
      /\ HasPages(originalPm, k) /\ mem[original.processMemory] = originalPm
  BY <1>4 DEF Settled, IsProcess, TiOf, PmOf
<1> HIDE DEF originalPm
<1>6. /\ AreStructures(child, b, pm, ring0rsp)
      /\ pm = NewProcessMemory(k, shareVM, originalPm)
  <2> DEFINE x == original.processMemory
             y == original.threadInfo
             r == TiOf(mem, currentProcess).ring0rsp
             o == [kind |-> "Process", processMemory |-> x, threadInfo |-> y]
             e == [CopyProcess(shareVM, o, b) EXCEPT
                     !.threadInfo = [@ EXCEPT !.ring0rsp = ring0rsp]]
  <2>1. mem[y] = [kind |-> "ThreadInfo", process |-> currentProcess, ring0rsp |-> r]
    BY <1>5
  <2>2. original = o /\ mem[x] = originalPm
    BY <1>5
  <2> HIDE DEF x, y, r, b, ring0rsp, original
  <2>3. /\ e.process = [kind |-> "Process", processMemory |-> b[2], threadInfo |-> b[3]]
        /\ e.processMemory = NewProcessMemory(k, shareVM, mem[x])
        /\ e.threadInfo = [kind |-> "ThreadInfo", process |-> b[1], ring0rsp |-> ring0rsp]
        /\ CopyProcess(shareVM, o, b).processMemory = e.processMemory
    BY <2>1, ChildIs
  <2>4. child = e /\ pm = CopyProcess(shareVM, o, b).processMemory
    BY <2>2
  <2> HIDE DEF e, child, pm
  <2> QED
    BY <2>2, <2>3, <2>4 DEF AreStructures
<1> HIDE DEF original, copy, child, pm, b
<1>7. /\ IsSequence(content') /\ TablesFit(content') /\ Len(content') \in Nat /\ k <= Len(content')
      /\ \A f \in 1 .. k : content'[f] = content[f]
      /\ pm.kind = "ProcessMemory" /\ HasPages(pm, Len(content')) /\ HasTables(content', pm)
      /\ Own(pm) \subseteq k + 1 .. Len(content') /\ TextFrame(pm) \notin Own(pm)
      /\ shareVM => TextFrame(pm) = TextFrame(originalPm)
      /\ ~shareVM => /\ TextFrame(pm) \in k + 1 .. Len(content')
                     /\ content'[TextFrame(pm)] = content[TextFrame(originalPm)]
  <2>1. IsSequence(content) /\ TablesFit(content)
    BY DEF ProcInv, World
  <2> QED
    BY <2>1, <1>2, <1>5, <1>6, NewFramesAre
<1>8. OnStack(pm, ring0rsp, n + 1)
  <2>1. n >= 1
    BY <1>3, <1>4
  <2>2. KernelStackFrame(pm) \in Nat /\ pm.kernelStackPageFrame = Address(KernelStackFrame(pm))
    BY <1>7 DEF HasPages
  <2>3. pm.kernelStackPageFrame \in Nat
    BY <2>2, FrameOfAddress
  <2>4. CASE shareVM
    <3>1. ring0rsp = (pm.kernelStackPageFrame - 8 + PAGE_SIZE) - SizeOfStack + 8
      BY <2>4 DEF Ring0Rsp, SetUpKernelStack, StackTop
    <3> DEFINE a == pm.kernelStackPageFrame
    <3>2. a \in Nat /\ ring0rsp = (a - 8 + 4096) - 160 + 8
      BY <3>1, <2>3 DEF PAGE_SIZE, SizeOfStack
    <3>3. n \in Nat /\ (n + 1) - 1 = n
      BY <1>3
    <3> HIDE DEF ring0rsp, n, a
    <3>4. ring0rsp \in Int /\ ring0rsp - a = 4096 - 160
      BY <3>2
    <3>5. 160 <= 160 * n
      BY <2>1, <3>3
    <3>6. ring0rsp - a \in 4096 - 16 - 160 * ((n + 1) - 1) .. 4096 - 8
      BY <3>3, <3>4, <3>5
    <3> QED
      BY <3>4, <3>6 DEF OnStack, PAGE_SIZE, SizeOfStack, a
  <2>5. CASE ~shareVM
    <3>1. ring0rsp = pm.kernelStackPageFrame + (rsp - originalPm.kernelStackPageFrame)
      BY <2>5 DEF Ring0Rsp, ChildStack
    <3>2. OnStack(originalPm, rsp, n + 1)
      BY <2>5 DEF originalPm
    <3>3. originalPm.kernelStackPageFrame \in Nat
      <4>1. /\ KernelStackFrame(originalPm) \in Nat
            /\ originalPm.kernelStackPageFrame = Address(KernelStackFrame(originalPm))
        BY <1>5, <1>3 DEF HasPages
      <4> QED
        BY <4>1, FrameOfAddress
    <3> HIDE DEF ring0rsp, n
    <3> QED
      BY <3>1, <3>2, <3>3, <2>3, <1>3 DEF OnStack, PAGE_SIZE, SizeOfStack
  <2> QED
    BY <2>4, <2>5
<1> HIDE DEF ring0rsp
<1>9. Extends(mem, content, processes, content', pm, ring0rsp)
  <2>1. \/ TextFrame(pm) \in k + 1 .. Len(content')
        \/ \E j \in DOMAIN processes : TextFrame(pm) = TextFrame(PmOf(mem, processes[j]))
    BY <1>3, <1>4, <1>7 DEF originalPm
  <2> QED
    BY <2>1, <1>7, <1>8 DEF Extends
<1>10. /\ World(heap', live', mem', content', processes')
       /\ HasCome(heap, mem, heap', mem', b[1], pm)
  <2>1. World(heap, live, mem, content, processes)
    BY DEF ProcInv
  <2>2. /\ World(got.heap, got.live, WithStructures(mem, got.blocks, child), content',
                 Append(processes, got.blocks[1]))
        /\ HasCome(heap, mem, got.heap, WithStructures(mem, got.blocks, child),
                   got.blocks[1], pm)
    BY <2>1, <1>1, <1>2, <1>6, <1>9, Joins DEF b
  <2> QED
    BY <2>2, <1>2 DEF b
<1>11. Forked(shareVM, b[1], pm)
  BY <1>2, <1>7, <1>10 DEF Forked, originalPm
<1> QED
  BY <1>11

\* The frames c2 differ from c in no frame that one of the processes has for
\* itself.
KeepsFrames(m, c, P, c2) ==
  /\ IsSequence(c2) /\ TablesFit(c2) /\ Len(c2) = Len(c)
  /\ \A j \in DOMAIN P : \A f \in Own(PmOf(m, P[j])) : c2[f] = c[f]

\* The processes have the memory in m2 that they have in m.
SameMemory(m, m2, P) == \A j \in DOMAIN P : PmOf(m2, P[j]) = PmOf(m, P[j])

\* The processes do not see a change of the heap that keeps their blocks, nor
\* one of frames that none of them has for itself.
LEMMA StaysAWorld ==
  ASSUME NEW h, NEW l, NEW m, NEW c, NEW P, World(h, l, m, c, P),
         NEW h2, NEW l2, NEW m2, NEW c2, HeapFor(h2, l2, Len(P)), IsMemory(m2),
         KeepsBlocks(h, m, h2, m2), KeepsFrames(m, c, P, c2)
  PROVE  /\ World(h2, l2, m2, c2, P)
         /\ SameMemory(m, m2, P)
<1>1. Len(c) \in Nat
  BY DEF World, IsSequence
<1>2. ASSUME NEW j \in DOMAIN P
      PROVE  /\ Settled(m2, h2, c2, P[j], j)
             /\ PmOf(m2, P[j]) = PmOf(m, P[j])
  <2>1. Settled(m, h, c, P[j], j)
    BY DEF World, Family
  <2>2. \A f \in Own(PmOf(m, P[j])) : c2[f] = c[f]
    BY DEF KeepsFrames
  <2>3. Len(c) <= Len(c2) /\ Len(c2) \in Nat
    BY <1>1 DEF KeepsFrames
  <2> QED
    BY <2>1, <2>2, <2>3, <1>1, Kept
<1>3. Family(m2, h2, c2, P)
  BY <1>2 DEF World, Family
<1> QED
  BY <1>2, <1>3 DEF World, KeepsFrames, SameMemory

\* The parent runs on as it was.
LEMMA ForkKeeps ==
  ASSUME ProcInv, NEW shareVM \in BOOLEAN, NEW b, NEW pm, Forked(shareVM, b, pm)
  PROVE  ProcInv'
<1>1. PICK i \in 1 .. Len(processes) :
        /\ currentProcess = processes[i]
        /\ Settled(mem, heap, content, currentProcess, i)
        /\ OnStack(PmOf(mem, currentProcess), rsp0, i)
        /\ cr3 = PmOf(mem, currentProcess).l4PageTableBase
  BY Running
<1>2. PmOf(mem', currentProcess) = PmOf(mem, currentProcess)
  <2>1. KeepsBlocks(heap, mem, heap', mem') /\ IsProcess(mem, heap, currentProcess)
    BY <1>1 DEF Forked, HasCome, Settled
  <2> QED
    BY <2>1 DEF KeepsBlocks, IsProcess, PmOf
<1>3. Runs(mem', processes', currentProcess', rsp0', cr3')
  <2>1. processes \in Seq(Ids) /\ Len(processes) \in Nat /\ b \in Ids
        /\ processes' = Append(processes, b)
    BY Running DEF Forked, HasCome
  <2>2. i \in DOMAIN processes' /\ processes'[i] = processes[i]
    BY <2>1
  <2>3. currentProcess' = currentProcess /\ rsp0' = rsp0 /\ cr3' = cr3
    BY DEF Forked
  <2> QED
    BY <2>2, <2>3, <1>1, <1>2 DEF Runs
<1>4. program' \in [Ids \cup {NULL} -> Programs \cup {Kernel}]
  <2>1. currentProcess \in Ids /\ program \in [Ids \cup {NULL} -> Programs \cup {Kernel}]
    BY <1>1, Running DEF ProcInv
  <2>2. program' = [program EXCEPT ![b] = IF shareVM THEN Kernel ELSE program[currentProcess]]
    BY DEF Forked
  <2> QED
    BY <2>1, <2>2
<1>5. World(heap', live', mem', content', processes')
  BY DEF Forked
<1> QED
  BY <1>3, <1>4, <1>5 DEF ProcInv

\* A process whose memory is what it was, may run on.
LEMMA RunsOn ==
  ASSUME NEW m, NEW P, NEW p, NEW sp, NEW base, Runs(m, P, p, sp, base), NEW m2,
         SameMemory(m, m2, P)
  PROVE  Runs(m2, P, p, sp, base)
  BY DEF Runs, SameMemory

\* What a file is read into.
LEMMA WrittenKeeps ==
  ASSUME ProcInv, NEW size \in Nat \ {0}, kmalloc(heap, size).block # NULL
  PROVE  LET r == kmalloc(heap, size)
             w == Written(r.block, size)
         IN  /\ IsMemory(w)
             /\ KeepsBlocks(heap, mem, r.heap, w) /\ KeepsBlocks(heap, mem, heap, w)
             /\ kfree(r.heap, r.block) = heap
<1> DEFINE r == kmalloc(heap, size)
           w == Written(r.block, size)
<1>1. Sound(heap) /\ IsMemory(mem)
  BY DEF ProcInv, World, HeapFor, HandsOut
<1>2. /\ kfree(r.heap, r.block) = heap
      /\ \A x \in Ids : r.heap.isAllocated[x] <=> x = r.block \/ heap.isAllocated[x]
  BY <1>1, Allocates
<1>3. \A x \in Ids : heap.isAllocated[x] =>
        ~(r.block <= x /\ x < r.block + BlocksFor(size))
  BY <1>1, BufferApart
<1> HIDE DEF r
<1>4. w = [x \in Ids \cup {NULL} |->
             IF r.block <= x /\ x < r.block + BlocksFor(size) THEN Bytes ELSE mem[x]]
  <2>1. DOMAIN mem = Ids \cup {NULL}
    BY <1>1 DEF IsMemory, OnBlocks
  <2> QED
    BY <2>1 DEF Written
<1> HIDE DEF w
<1>5. IsMemory(w)
  <2>1. OnBlocks(w)
    BY <1>4 DEF OnBlocks
  <2>2. ASSUME NEW x \in Ids \cup {NULL}
        PROVE  w[x].kind \in Kinds
    <3>1. mem[x].kind \in Kinds
      BY <1>1 DEF IsMemory
    <3>2. w[x] = Bytes \/ w[x] = mem[x]
      BY <1>4
    <3>3. Bytes.kind = "bytes"
      BY DEF Bytes
    <3> QED
      BY <3>1, <3>2, <3>3 DEF Kinds
  <2> QED
    BY <2>1, <2>2 DEF IsMemory
<1>6. \A x \in Ids : heap.isAllocated[x] => w[x] = mem[x]
  BY <1>3, <1>4
<1>7. KeepsBlocks(heap, mem, r.heap, w) /\ KeepsBlocks(heap, mem, heap, w)
  BY <1>2, <1>6 DEF KeepsBlocks
<1> QED
  BY <1>2, <1>5, <1>7 DEF r, w

\* exec changes the text page of the process that runs, and nothing the
\* others have for themselves.
LEMMA ExecChanges ==
  ASSUME ProcInv, NEW file \in Programs, sysExec(file)
  PROVE  /\ ProcInv' /\ MayExec
         /\ SameMemory(mem, mem', processes)
         /\ content' = [content EXCEPT ![TextFrame(PmOf(mem, currentProcess))] = Data(file)]
         /\ program' = [program EXCEPT ![currentProcess] = file]
         /\ UNCHANGED <<processes, currentProcess>>
<1> DEFINE size == FileSize[file]
           r == kmalloc(heap, size)
           pm == PmOf(mem, currentProcess)
           t == TextFrame(pm)
<1>1. /\ MayExec /\ r.block # NULL
      /\ heap' = kfree(r.heap, r.block) /\ mem' = Written(r.block, size)
      /\ content' = [content EXCEPT ![t] = Data(file)]
      /\ program' = [program EXCEPT ![currentProcess] = file]
      /\ rsp0' = StackTop(pm.kernelStackPageFrame)
      /\ UNCHANGED <<live, processes, currentProcess, cr3>>
  BY DEF sysExec, ProcessMemoryOf, PmOf, TextFrame
<1>2. size \in Nat \ {0}
  BY ProcessMemoryAssumption
<1> HIDE DEF size
<1>3. /\ heap' = heap /\ IsMemory(mem') /\ KeepsBlocks(heap, mem, heap', mem')
  BY <1>1, <1>2, WrittenKeeps
<1>4. PICK i \in 1 .. Len(processes) :
        /\ currentProcess = processes[i]
        /\ Settled(mem, heap, content, currentProcess, i)
        /\ OnStack(pm, rsp0, i) /\ cr3 = pm.l4PageTableBase
  BY Running
<1> HIDE DEF r
<1>5. /\ processes \in Seq(Ids) /\ DOMAIN processes = 1 .. Len(processes)
      /\ Len(processes) \in Nat /\ Len(content) \in Nat
  BY Running
<1>6. t \in 1 .. Len(content)
  BY <1>4 DEF Settled, HasPages
<1>7. World(heap, live, mem, content, processes)
  BY DEF ProcInv
<1>8. \A j \in DOMAIN processes : t \notin Own(PmOf(mem, processes[j]))
  BY <1>4, <1>5, <1>7 DEF World, Family
<1> HIDE DEF t
<1>9. IsSequence(content') /\ Len(content') = Len(content)
      /\ \A f \in 1 .. Len(content) : content'[f] = IF f = t THEN Data(file) ELSE content[f]
  <2>1. PICK S : content \in Seq(S)
    BY <1>7 DEF World, IsSequence
  <2> DEFINE d == Data(file)
  <2>2. content' = [content EXCEPT ![t] = d]
    BY <1>1
  <2> HIDE DEF d
  <2>3. content \in Seq(S \cup {d}) /\ d \in S \cup {d}
    BY <2>1
  <2>4. content' \in Seq(S \cup {d}) /\ Len(content') = Len(content)
        /\ \A f \in 1 .. Len(content) : content'[f] = IF f = t THEN d ELSE content[f]
    BY <2>2, <2>3, <1>6
  <2> QED
    BY <2>4 DEF IsSequence, d
<1>10. TablesFit(content')
  <2>1. \A f \in 1 .. Len(content) : Fits(content[f])
    BY <1>7 DEF World, TablesFit
  <2>2. Fits(Data(file))
    BY FramesFit
  <2>3. \A f \in 1 .. Len(content) : content'[f] = Data(file) \/ content'[f] = content[f]
    BY <1>9
  <2>4. \A f \in 1 .. Len(content) : Fits(content'[f])
    BY <2>1, <2>2, <2>3
  <2> QED
    BY <2>4, <1>9 DEF TablesFit
<1>11. \A j \in DOMAIN processes : \A f \in Own(PmOf(mem, processes[j])) : content'[f] = content[f]
  <2> SUFFICES ASSUME NEW j \in DOMAIN processes, NEW f \in Own(PmOf(mem, processes[j]))
               PROVE  content'[f] = content[f]
    OBVIOUS
  <2>1. HasPages(PmOf(mem, processes[j]), Len(content))
    BY <1>7 DEF World, Family, Settled
  <2>2. f \in 1 .. Len(content)
    BY <2>1, <1>5, OwnInUse
  <2> QED
    BY <2>2, <1>8, <1>9
<1>12. HeapFor(heap', live', Len(processes))
  BY <1>1, <1>3, <1>7 DEF World
<1>13. /\ World(heap', live', mem', content', processes)
       /\ SameMemory(mem, mem', processes)
  <2>1. KeepsFrames(mem, content, processes, content')
    BY <1>9, <1>10, <1>11 DEF KeepsFrames
  <2> QED
    BY <2>1, <1>3, <1>7, <1>12, StaysAWorld
<1>14. Runs(mem', processes, currentProcess, rsp0', cr3)
  <2>1. OnStack(pm, rsp0', i)
    <3>1. KernelStackFrame(pm) \in Nat /\ pm.kernelStackPageFrame = Address(KernelStackFrame(pm))
      BY <1>4, <1>5 DEF Settled, HasPages
    <3>2. pm.kernelStackPageFrame \in Nat
      BY <3>1, FrameOfAddress
    <3>3. rsp0' = pm.kernelStackPageFrame - 8 + PAGE_SIZE
      BY <1>1 DEF StackTop
    <3>4. i \in Nat \ {0}
      BY <1>5
    <3> HIDE DEF pm
    <3> QED
      BY <3>2, <3>3, <3>4 DEF OnStack, PAGE_SIZE, SizeOfStack
  <2>2. Runs(mem, processes, currentProcess, rsp0', cr3)
    BY <2>1, <1>4, <1>5 DEF Runs
  <2> QED
    BY <2>2, <1>13, RunsOn
<1>15. program' \in [Ids \cup {NULL} -> Programs \cup {Kernel}]
  <2>1. currentProcess \in Ids
    BY <1>4, <1>5
  <2> QED
    BY <2>1, <1>1 DEF ProcInv
<1>16. ProcInv'
  <2>1. processes' = processes /\ currentProcess' = currentProcess /\ cr3' = cr3
    BY <1>1
  <2> QED
    BY <2>1, <1>13, <1>14, <1>15 DEF ProcInv
<1>17. content' = [content EXCEPT ![TextFrame(PmOf(mem, currentProcess))] = Data(file)]
  BY <1>1, Zenon DEF pm, t
<1>18. MayExec /\ program' = [program EXCEPT ![currentProcess] = file]
       /\ UNCHANGED <<processes, currentProcess>>
  BY <1>1
<1> QED
  BY <1>13, <1>16, <1>17, <1>18, Zenon

\* A buffer that is lost.
LEMMA LossKeeps ==
  ASSUME HeapIsLargeEnough, ProcInv, NEW file \in Programs, sysExecFails(file)
  PROVE  /\ ProcInv'
         /\ SameMemory(mem, mem', processes)
         /\ UNCHANGED <<content, processes, program>>
<1> DEFINE size == FileSize[file]
           r == kmalloc(heap, size)
<1>1. /\ r.block # NULL /\ Len(live) - 3 * Len(processes) < MaxLost
      /\ heap' = r.heap /\ live' = Append(live, [block |-> r.block, size |-> size])
      /\ mem' = Written(r.block, size)
      /\ UNCHANGED <<content, processes, currentProcess, program, cr3, rsp0>>
  BY DEF sysExecFails
<1>2. size \in Nat \ {0}
  BY ProcessMemoryAssumption
<1>3. Len(processes) \in Nat /\ Len(content) \in Nat
  BY Running
<1>4. World(heap, live, mem, content, processes)
  BY DEF ProcInv
<1>5. HeapFor(heap', live', Len(processes))
  BY <1>1, <1>3, <1>4, HeapForLoss DEF World
<1>6. IsMemory(mem') /\ KeepsBlocks(heap, mem, heap', mem')
  <2> HIDE DEF size
  <2> QED
    BY <1>1, <1>2, WrittenKeeps
<1>7. KeepsFrames(mem, content, processes, content)
  BY <1>4 DEF World, KeepsFrames
<1>8. /\ World(heap', live', mem', content, processes)
      /\ SameMemory(mem, mem', processes)
  BY <1>4, <1>5, <1>6, <1>7, StaysAWorld
<1>9. Runs(mem', processes, currentProcess, rsp0, cr3)
  <2>1. Runs(mem, processes, currentProcess, rsp0, cr3)
    BY DEF ProcInv
  <2> QED
    BY <2>1, <1>8, RunsOn
<1>10. ProcInv'
  BY <1>1, <1>8, <1>9 DEF ProcInv
<1> QED
  BY <1>1, <1>8, <1>10

\* A switch leaves everything but the processor alone, and the next process
\* runs on its own stack and tables.
LEMMA SwitchKeeps ==
  ASSUME ProcInv, Switch
  PROVE  /\ ProcInv' /\ UNCHANGED <<heap, live, mem, content, processes, program>>
<1>1. PICK i \in DOMAIN processes : Schedule(processes[i])
  BY DEF Switch
<1>2. UNCHANGED <<heap, live, mem, content, processes, program>>
  BY DEF Switch
<1>3. /\ currentProcess' = processes[i]
      /\ cr3' = PmOf(mem, processes[i]).l4PageTableBase
      /\ rsp0' = TiOf(mem, processes[i]).ring0rsp
  BY <1>1 DEF Schedule, ProcessMemoryOf, ThreadInfoOf, PmOf, TiOf
<1>4. OnStack(PmOf(mem, processes[i]), TiOf(mem, processes[i]).ring0rsp, i)
  BY DEF ProcInv, World, Family, Settled
<1>5. Runs(mem, processes, currentProcess', rsp0', cr3')
  BY <1>3, <1>4 DEF Runs
<1>6. ProcInv'
  BY <1>2, <1>5 DEF ProcInv
<1> QED
  BY <1>2, <1>6

\* fork by a program: its registers lie one call further down its stack.
LEMMA SysForkIs ==
  ASSUME HeapIsLargeEnough, ProcInv, sysFork
  PROVE  \E b, pm : Forked(FALSE, b, pm)
<1>1. PICK i \in 1 .. Len(processes) :
        /\ currentProcess = processes[i]
        /\ Settled(mem, heap, content, currentProcess, i)
        /\ OnStack(PmOf(mem, currentProcess), rsp0, i)
  BY Running
<1>2. Len(processes) \in Nat /\ Len(content) \in Nat
  BY Running
<1> DEFINE pm == PmOf(mem, currentProcess)
<1>3. OnStack(pm, SyscallStack, Len(processes) + 1)
  <2>1. KernelStackFrame(pm) \in Nat /\ pm.kernelStackPageFrame = Address(KernelStackFrame(pm))
    BY <1>1, <1>2 DEF Settled, HasPages
  <2>2. i \in Nat \ {0} /\ rsp0 \in Int /\ OnStack(pm, rsp0, i)
    BY <1>1, <1>2 DEF OnStack
  <2> HIDE DEF pm
  <2>3. OnStack(pm, SyscallStack, i + 1)
    BY <2>1, <2>2, CallsFit DEF SyscallStack
  <2> QED
    BY <2>2, <2>3, <1>1, <1>2 DEF OnStack, SizeOfStack, PAGE_SIZE
<1>4. DoFork(FALSE, SyscallStack)
  BY DEF sysFork
<1> QED
  BY <1>3, <1>4, Fork

\* A thread of the kernel shares the text page.
LEMMA KernelThreadIs ==
  ASSUME HeapIsLargeEnough, ProcInv, KernelThread
  PROVE  \E b, pm : Forked(TRUE, b, pm)
<1>1. DoFork(TRUE, 0)
  BY DEF KernelThread
<1> QED
  BY <1>1, Fork

\* ProcInv is inductive.
LEMMA NextKeeps ==
  ASSUME HeapIsLargeEnough, ProcInv, [ProcessMemoryNext]_pmVars
  PROVE  ProcInv'
<1>1. CASE sysFork
  BY <1>1, SysForkIs, ForkKeeps
<1>2. CASE KernelThread
  BY <1>2, KernelThreadIs, ForkKeeps
<1>3. ASSUME NEW file \in Programs, sysExec(file) PROVE ProcInv'
  BY <1>3, ExecChanges
<1>4. ASSUME NEW file \in Programs, sysExecFails(file) PROVE ProcInv'
  BY <1>4, LossKeeps
<1>5. CASE Switch
  BY <1>5, SwitchKeeps
<1>6. CASE UNCHANGED pmVars
  BY <1>6 DEF pmVars, ProcInv
<1> QED
  BY <1>1, <1>2, <1>3, <1>4, <1>5, <1>6 DEF ProcessMemoryNext

\* ProcInv is an invariant.
LEMMA ProcessInvariant ==
  ASSUME HeapIsLargeEnough
  PROVE  ProcessMemorySpec => []ProcInv
<1>1. ProcessInit => ProcInv
  BY FirstProcess
<1>2. ProcInv /\ [ProcessMemoryNext]_pmVars => ProcInv'
  BY NextKeeps
<1> QED
  BY <1>1, <1>2, PTL DEF ProcessMemorySpec

-----------------------------------------------------------------------------
(***************************************************************************)
(* Which program lies in which text page.                                  *)
(***************************************************************************)

\* A thread of the kernel that KernelThread has made: it executes no program.
IsThread(P, prog, i) == i # 1 /\ prog[P[i]] = Kernel

\* A text page holds the program of its process, and is shared with threads only.
RunsPrograms(m, c, P, prog) ==
  /\ \A i \in DOMAIN P :
       prog[P[i]] # Kernel => c[TextFrame(PmOf(m, P[i]))].data = prog[P[i]]
  /\ \A i, j \in DOMAIN P :
       i # j /\ TextFrame(PmOf(m, P[i])) = TextFrame(PmOf(m, P[j])) =>
         IsThread(P, prog, i) \/ IsThread(P, prog, j)

ProgInv == RunsPrograms(mem, content, processes, program)

\* No process is there twice.
LEMMA AllDifferent ==
  ASSUME NEW h, NEW l, NEW m, NEW c, NEW P, World(h, l, m, c, P),
         NEW i \in DOMAIN P, NEW j \in DOMAIN P, i # j
  PROVE  P[i] # P[j]
<1>1. Own(PmOf(m, P[i])) \cap Own(PmOf(m, P[j])) = {}
  BY DEF World, Family
<1>2. UserStackFrame(PmOf(m, P[i])) \in Own(PmOf(m, P[i]))
  BY DEF Own
<1> QED
  BY <1>1, <1>2

\* The processes before a fork are as they were.
LEMMA AfterFork ==
  ASSUME ProcInv, NEW shareVM \in BOOLEAN, NEW b, NEW pm, Forked(shareVM, b, pm)
  PROVE  LET n == Len(processes)
         IN  /\ n \in Nat /\ DOMAIN processes = 1 .. n /\ DOMAIN processes' = 1 .. n + 1
             /\ processes'[n + 1] = b /\ PmOf(mem', b) = pm
             /\ program'[b] = IF shareVM THEN Kernel ELSE program[currentProcess]
             /\ \A i \in 1 .. n : /\ processes'[i] = processes[i]
                                  /\ PmOf(mem', processes[i]) = PmOf(mem, processes[i])
                                  /\ program'[processes[i]] = program[processes[i]]
                                  /\ TextFrame(PmOf(mem, processes[i])) \in 1 .. Len(content)
<1> DEFINE n == Len(processes)
<1>1. /\ processes \in Seq(Ids) /\ n \in Nat /\ DOMAIN processes = 1 .. n
      /\ Len(content) \in Nat
  BY Running
<1>2. /\ processes' = Append(processes, b) /\ b \in Ids /\ ~heap.isAllocated[b]
      /\ KeepsBlocks(heap, mem, heap', mem') /\ PmOf(mem', b) = pm
      /\ program' = [program EXCEPT ![b] = IF shareVM THEN Kernel ELSE program[currentProcess]]
      /\ program \in [Ids \cup {NULL} -> Programs \cup {Kernel}]
  BY DEF Forked, HasCome, ProcInv
<1>3. /\ DOMAIN processes' = 1 .. n + 1 /\ processes'[n + 1] = b
      /\ \A i \in 1 .. n : processes'[i] = processes[i]
  BY <1>1, <1>2
<1>4. ASSUME NEW i \in 1 .. n
      PROVE  /\ PmOf(mem', processes[i]) = PmOf(mem, processes[i])
             /\ program'[processes[i]] = program[processes[i]]
             /\ TextFrame(PmOf(mem, processes[i])) \in 1 .. Len(content)
  <2>1. Settled(mem, heap, content, processes[i], i)
    BY <1>1 DEF ProcInv, World, Family
  <2>2. PmOf(mem', processes[i]) = PmOf(mem, processes[i])
    BY <2>1, <1>2 DEF Settled, IsProcess, KeepsBlocks, PmOf
  <2>3. processes[i] # b /\ processes[i] \in Ids
    BY <2>1, <1>2 DEF Settled, IsProcess
  <2>4. program'[processes[i]] = program[processes[i]]
    BY <2>3, <1>2
  <2>5. TextFrame(PmOf(mem, processes[i])) \in 1 .. Len(content)
    BY <2>1 DEF Settled, HasPages
  <2> QED
    BY <2>2, <2>4, <2>5
<1>5. program'[b] = IF shareVM THEN Kernel ELSE program[currentProcess]
  BY <1>2
<1> QED
  BY <1>1, <1>2, <1>3, <1>4, <1>5

\* A fork copies the program, or makes a thread that has none.
LEMMA ForkRunsPrograms ==
  ASSUME ProcInv, ProgInv, NEW shareVM \in BOOLEAN, NEW b, NEW pm, Forked(shareVM, b, pm)
  PROVE  ProgInv'
<1> DEFINE n == Len(processes)
           k == Len(content)
<1>1. /\ n \in Nat /\ DOMAIN processes = 1 .. n /\ DOMAIN processes' = 1 .. n + 1
      /\ processes'[n + 1] = b /\ PmOf(mem', b) = pm
      /\ program'[b] = IF shareVM THEN Kernel ELSE program[currentProcess]
      /\ \A i \in 1 .. n : /\ processes'[i] = processes[i]
                           /\ PmOf(mem', processes[i]) = PmOf(mem, processes[i])
                           /\ program'[processes[i]] = program[processes[i]]
                           /\ TextFrame(PmOf(mem, processes[i])) \in 1 .. k
  BY AfterFork
<1>2. PICK cur \in 1 .. n : currentProcess = processes[cur]
  BY Running
<1>3. /\ \A f \in 1 .. k : content'[f] = content[f]
      /\ ~shareVM => /\ TextFrame(pm) \in k + 1 .. Len(content')
                     /\ content'[TextFrame(pm)] = content[TextFrame(PmOf(mem, currentProcess))]
  BY DEF Forked
<1>4. k \in Nat
  BY Running
<1> HIDE DEF n, k
<1>5. ASSUME NEW i \in 1 .. n
      PROVE  program[processes[i]] # Kernel =>
               content[TextFrame(PmOf(mem, processes[i]))].data = program[processes[i]]
  BY <1>1 DEF ProgInv, RunsPrograms
<1>6. ASSUME NEW i \in 1 .. n + 1, program'[processes'[i]] # Kernel
      PROVE  content'[TextFrame(PmOf(mem', processes'[i]))].data = program'[processes'[i]]
  <2>1. CASE i \in 1 .. n
    <3>1. /\ processes'[i] = processes[i] /\ program'[processes[i]] = program[processes[i]]
          /\ PmOf(mem', processes[i]) = PmOf(mem, processes[i])
          /\ TextFrame(PmOf(mem, processes[i])) \in 1 .. k
      BY <2>1, <1>1
    <3>2. content[TextFrame(PmOf(mem, processes[i]))].data = program[processes[i]]
      BY <2>1, <3>1, <1>5, <1>6
    <3>3. content'[TextFrame(PmOf(mem, processes[i]))] = content[TextFrame(PmOf(mem, processes[i]))]
      BY <3>1, <1>3
    <3> QED
      BY <3>1, <3>2, <3>3
  <2>2. CASE i = n + 1
    <3>1. processes'[i] = b /\ PmOf(mem', b) = pm
      BY <2>2, <1>1
    <3>2. ~shareVM /\ program'[b] = program[currentProcess]
      BY <3>1, <1>1, <1>6
    <3>3. content[TextFrame(PmOf(mem, currentProcess))].data = program[currentProcess]
      BY <3>1, <3>2, <1>2, <1>5, <1>6
    <3> QED
      BY <3>1, <3>2, <3>3, <1>3
  <2> QED
    BY <2>1, <2>2, <1>1
<1>7. ASSUME NEW i \in 1 .. n + 1, NEW j \in 1 .. n + 1, i # j,
             TextFrame(PmOf(mem', processes'[i])) = TextFrame(PmOf(mem', processes'[j]))
      PROVE  IsThread(processes', program', i) \/ IsThread(processes', program', j)
  <2>1. (i \in 1 .. n \/ i = n + 1) /\ (j \in 1 .. n \/ j = n + 1)
    BY <1>1
  <2>2. CASE i \in 1 .. n /\ j \in 1 .. n
    <3>1. /\ processes'[i] = processes[i] /\ program'[processes[i]] = program[processes[i]]
          /\ PmOf(mem', processes[i]) = PmOf(mem, processes[i])
          /\ processes'[j] = processes[j] /\ program'[processes[j]] = program[processes[j]]
          /\ PmOf(mem', processes[j]) = PmOf(mem, processes[j])
      BY <2>2, <1>1
    <3>2. TextFrame(PmOf(mem, processes[i])) = TextFrame(PmOf(mem, processes[j]))
      BY <3>1, <1>7
    <3>3. IsThread(processes, program, i) \/ IsThread(processes, program, j)
      BY <2>2, <3>2, <1>1, <1>7 DEF ProgInv, RunsPrograms
    <3> QED
      BY <3>1, <3>3 DEF IsThread
  <2>3. ASSUME NEW x \in 1 .. n, TextFrame(pm) = TextFrame(PmOf(mem', processes'[x]))
        PROVE  IsThread(processes', program', n + 1)
    <3>1. TextFrame(pm) \in 1 .. k
      BY <2>3, <1>1
    <3>2. shareVM
      BY <3>1, <1>3, <1>4
    <3>3. program'[b] = Kernel /\ n + 1 # 1
      BY <3>2, <2>3, <1>1
    <3> QED
      BY <3>3, <1>1 DEF IsThread
  <2>4. CASE i \in 1 .. n /\ j = n + 1
    BY <2>3, <2>4, <1>1, <1>7
  <2>5. CASE i = n + 1 /\ j \in 1 .. n
    BY <2>3, <2>5, <1>1, <1>7
  <2> QED
    BY <2>1, <2>2, <2>4, <2>5, <1>7
<1> QED
  BY <1>1, <1>6, <1>7 DEF ProgInv, RunsPrograms

\* exec writes a text page that only threads share, unless they call exec too.
LEMMA ExecRunsPrograms ==
  ASSUME ~KernelThreadsExec, ProcInv, ProgInv, NEW file \in Programs, sysExec(file)
  PROVE  ProgInv'
<1> DEFINE n == Len(processes)
           text(i) == TextFrame(PmOf(mem, processes[i]))
<1>1. /\ MayExec
      /\ \A j \in DOMAIN processes : PmOf(mem', processes[j]) = PmOf(mem, processes[j])
      /\ content' = [content EXCEPT ![TextFrame(PmOf(mem, currentProcess))] = Data(file)]
      /\ program' = [program EXCEPT ![currentProcess] = file]
      /\ processes' = processes
  BY ExecChanges DEF SameMemory
<1>2. /\ DOMAIN processes = 1 .. n /\ n \in Nat /\ processes \in Seq(Ids) /\ IsSequence(content)
      /\ World(heap, live, mem, content, processes)
      /\ program \in [Ids \cup {NULL} -> Programs \cup {Kernel}]
  BY Running DEF ProcInv, World
<1>3. PICK cur \in 1 .. n : currentProcess = processes[cur]
  BY Running
<1>4. ~IsThread(processes, program, cur)
  <2>1. program[processes[cur]] # Kernel \/ processes[cur] = processes[1]
    BY <1>1, <1>3 DEF MayExec
  <2>2. cur # 1 => processes[cur] # processes[1]
    <3>1. 1 \in 1 .. n
      BY <1>2, <1>3
    <3> QED
      BY <3>1, <1>2, <1>3, AllDifferent
  <2> QED
    BY <2>1, <2>2 DEF IsThread
<1>5. ASSUME NEW i \in 1 .. n
      PROVE  /\ processes[i] \in Ids /\ text(i) \in DOMAIN content
             /\ i # cur => /\ program'[processes[i]] = program[processes[i]]
                           /\ program[processes[i]] # Kernel => text(i) # text(cur)
             /\ program'[processes[cur]] = file
  <2>1. Settled(mem, heap, content, processes[i], i)
    BY <1>2 DEF World, Family
  <2>2. text(i) \in DOMAIN content
    BY <2>1, <1>2 DEF Settled, HasPages, IsSequence
  <2>3. i # cur => processes[i] # processes[cur]
    BY <1>2, <1>3, AllDifferent
  <2>4. processes[i] \in Ids /\ processes[cur] \in Ids
    BY <1>2, <1>3
  <2>5. i # cur /\ text(i) = text(cur) => IsThread(processes, program, i)
    BY <1>2, <1>3, <1>4 DEF ProgInv, RunsPrograms
  <2>6. i # cur => program'[processes[i]] = program[processes[i]]
    <3> HIDE DEF n
    <3> QED
      BY <2>3, <2>4, <1>1, <1>2, <1>3
  <2>7. program'[processes[cur]] = file
    BY <2>4, <1>1, <1>2, <1>3
  <2> HIDE DEF text
  <2> QED
    BY <2>2, <2>4, <2>5, <2>6, <2>7 DEF IsThread
<1>6. \A i \in 1 .. n : /\ TextFrame(PmOf(mem', processes'[i])) = text(i)
                        /\ processes'[i] = processes[i]
  BY <1>1, <1>2
<1>7. ASSUME NEW i \in 1 .. n, program'[processes[i]] # Kernel
      PROVE  content'[text(i)].data = program'[processes[i]]
  <2>1. CASE i = cur
    <3> DEFINE d == Data(file)
    <3>0. d.data = file
      BY DEF Data
    <3>1. text(cur) \in DOMAIN content /\ content' = [content EXCEPT ![text(cur)] = d]
      BY <1>1, <1>3, <1>5
    <3> HIDE DEF d, text
    <3>2. content'[text(cur)] = d
      BY <3>1
    <3>3. program'[processes[cur]] = file
      BY <1>5
    <3> QED
      BY <2>1, <3>0, <3>2, <3>3
  <2>2. CASE i # cur
    <3>1. program'[processes[i]] = program[processes[i]] /\ text(i) # text(cur)
          /\ text(i) \in DOMAIN content
      BY <2>2, <1>5, <1>7
    <3>2. content[text(i)].data = program[processes[i]]
      BY <3>1, <1>2, <1>7 DEF ProgInv, RunsPrograms
    <3>3. content'[text(i)] = content[text(i)]
      <4> DEFINE d == Data(file)
      <4>1. content' = [content EXCEPT ![text(cur)] = d]
        BY <1>1, <1>3
      <4> HIDE DEF d, text
      <4> QED
        BY <4>1, <3>1
    <3> QED
      BY <3>1, <3>2, <3>3
  <2> QED
    BY <2>1, <2>2
<1>8. ASSUME NEW i \in 1 .. n, NEW j \in 1 .. n, i # j, text(i) = text(j)
      PROVE  IsThread(processes, program', i) \/ IsThread(processes, program', j)
  <2>1. IsThread(processes, program, i) \/ IsThread(processes, program, j)
    BY <1>2, <1>8 DEF ProgInv, RunsPrograms
  <2>2. ASSUME NEW x \in 1 .. n, IsThread(processes, program, x)
        PROVE  IsThread(processes, program', x)
    BY <2>2, <1>4, <1>5 DEF IsThread
  <2> QED
    BY <2>1, <2>2
<1> HIDE DEF n, text
<1>9. DOMAIN processes' = 1 .. n
  BY <1>1, <1>2
<1>10. ASSUME NEW i \in 1 .. n, NEW j \in 1 .. n, i # j,
              TextFrame(PmOf(mem', processes'[i])) = TextFrame(PmOf(mem', processes'[j]))
       PROVE  IsThread(processes', program', i) \/ IsThread(processes', program', j)
  <2>1. text(i) = text(j)
    BY <1>6, <1>10
  <2>2. IsThread(processes, program', i) \/ IsThread(processes, program', j)
    BY <2>1, <1>8, <1>10
  <2> QED
    BY <2>2, <1>1
<1>11. ASSUME NEW i \in 1 .. n, program'[processes'[i]] # Kernel
       PROVE  content'[TextFrame(PmOf(mem', processes'[i]))].data = program'[processes'[i]]
  <2>1. processes'[i] = processes[i] /\ TextFrame(PmOf(mem', processes'[i])) = text(i)
    BY <1>6
  <2> QED
    BY <2>1, <1>7, <1>11
<1> QED
  BY <1>9, <1>10, <1>11 DEF ProgInv, RunsPrograms

\* ProgInv is an invariant as long as threads of the kernel do not call exec.
LEMMA ProgramInvariant ==
  ASSUME HeapIsLargeEnough, ~KernelThreadsExec
  PROVE  ProcessMemorySpec => []ProgInv
<1>1. ProcessInit => ProgInv
  <2> SUFFICES ASSUME ProcessInit
               PROVE  ProgInv
    OBVIOUS
  <2>1. Len(processes) = 1 /\ DOMAIN processes = 1 .. 1
    BY DEF ProcessInit
  <2>2. program = [x \in Ids \cup {NULL} |-> Kernel] /\ processes[1] \in Ids
    <3>1. ProcInv
      BY FirstProcess
    <3> QED
      BY <2>1, <3>1, Running DEF ProcessInit
  <2>3. program[processes[1]] = Kernel
    BY <2>2
  <2> QED
    BY <2>1, <2>3 DEF ProgInv, RunsPrograms
<1>2. ProcInv /\ ProgInv /\ [ProcessMemoryNext]_pmVars => ProgInv'
  <2> SUFFICES ASSUME ProcInv, ProgInv, [ProcessMemoryNext]_pmVars
               PROVE  ProgInv'
    OBVIOUS
  <2>1. CASE sysFork
    BY <2>1, SysForkIs, ForkRunsPrograms
  <2>2. CASE KernelThread
    BY <2>2, KernelThreadIs, ForkRunsPrograms
  <2>3. ASSUME NEW file \in Programs, sysExec(file) PROVE ProgInv'
    BY <2>3, ExecRunsPrograms
  <2>4. ASSUME NEW file \in Programs, sysExecFails(file) PROVE ProgInv'
    <3>1. SameMemory(mem, mem', processes) /\ UNCHANGED <<content, processes, program>>
      BY <2>4, LossKeeps
    <3> QED
      BY <3>1 DEF ProgInv, RunsPrograms, SameMemory, IsThread
  <2>5. CASE Switch
    BY <2>5, SwitchKeeps DEF ProgInv
  <2>6. CASE UNCHANGED pmVars
    BY <2>6 DEF pmVars, ProgInv
  <2> QED
    BY <2>1, <2>2, <2>3, <2>4, <2>5, <2>6 DEF ProcessMemoryNext
<1> QED
  BY <1>1, <1>2, ProcessInvariant, PTL DEF ProcessMemorySpec

-----------------------------------------------------------------------------
(***************************************************************************)
(* The walk of the page tables.                                            *)
(***************************************************************************)

\* The entries for the index i in the tables at some frames, and where they lead.
Entries(frames, i) ==
  {content[f].table[i] : f \in {g \in frames : i \in DOMAIN content[g].table}}

Targets(entries) == {e.frame : e \in entries}

\* Where entries e4, e3 and, unless e3 is huge, e2 and e1 lead.
AllUser(entries) == \A e \in entries : e.user

Walk(l4, l3, l2, l1) ==
  IF \E e \in l3 : e.huge
  THEN {[frame |-> e.frame, huge |-> TRUE, user |-> AllUser(l4 \cup l3)] : e \in l3}
  ELSE {[frame |-> e.frame, huge |-> FALSE,
         user |-> AllUser(l4 \cup l3 \cup l2 \cup l1)] : e \in l1}

\* CalcPhyAddr, level by level.
LEMMA WalkIs ==
  ASSUME NEW base, NEW va
  PROVE  LET l4 == Entries({Frame(base)}, va[1])
             l3 == Entries(Targets(l4), va[2])
             l2 == Entries(Targets(l3), va[3])
             l1 == Entries(Targets(l2), va[4])
         IN  CalcPhyAddr(base, va) = Walk(l4, l3, l2, l1)
BY DEF CalcPhyAddr, Walk, Entries, Targets, AllUser

\* A table has one entry for an index, or none.
LEMMA OneEntry ==
  ASSUME NEW f, NEW i
  PROVE  /\ i \in DOMAIN content[f].table => Entries({f}, i) = {content[f].table[i]}
         /\ i \notin DOMAIN content[f].table => Entries({f}, i) = {}
<1>1. ASSUME i \in DOMAIN content[f].table
      PROVE  Entries({f}, i) = {content[f].table[i]}
  <2>1. {g \in {f} : i \in DOMAIN content[g].table} = {f}
    BY <1>1
  <2> QED
    BY <2>1 DEF Entries
<1>2. ASSUME i \notin DOMAIN content[f].table
      PROVE  Entries({f}, i) = {}
  BY <1>2 DEF Entries
<1> QED
  BY <1>1, <1>2

\* Where one entry leads.
LEMMA OneTarget ==
  ASSUME NEW e
  PROVE  Targets({e}) = {e.frame}
BY DEF Targets

\* Nowhere leads to nothing.
LEMMA NoTarget ==
  ASSUME NEW i
  PROVE  Entries(Targets({}), i) = {}
BY DEF Targets, Entries

\* What the tables of a process hold, the frames of four of them beginning at n.
KernelTable     == [i \in 0 .. 4 |-> Entry1GB(i)]
PagesTable(pm)  == [i \in {510, 511} |-> IF i = 510 THEN Entry(TextFrame(pm), TRUE)
                                         ELSE Entry(UserStackFrame(pm), TRUE)]
LastTable(f)    == [i \in {511} |-> Entry(f, TRUE)]
RootTable(f, g) == [i \in {0, 511} |-> IF i = 0 THEN Entry(f, FALSE) ELSE Entry(g, TRUE)]

HaveTables(n, pm) ==
  /\ content[n + 1].table = KernelTable
  /\ content[n + 2].table = PagesTable(pm)
  /\ content[n + 3].table = LastTable(n + 2)
  /\ content[n + 4].table = LastTable(n + 3)
  /\ content[n + 5].table = RootTable(n + 1, n + 4)

\* The tables of a process.
LEMMA TablesAre ==
  ASSUME NEW pm, HasPages(pm, Len(content)), Len(content) \in Nat, HasTables(content, pm)
  PROVE  LET n == TableFrame(pm) - 5
         IN  n \in Nat /\ Frame(pm.l4PageTableBase) = n + 5 /\ HaveTables(n, pm)
<1> DEFINE n == TableFrame(pm) - 5
           base == StackTop(pm.userStackPageFrame)
           a == [i \in 0 .. 4 |-> Entry1GB(i)]
           b == [i \in {510, 511} |-> IF i = 510 THEN Entry(Frame(pm.textSegmentPageFrame), TRUE)
                                      ELSE Entry(StackFrame(base), TRUE)]
           c == [i \in {511} |-> Entry(n + 2, TRUE)]
           d == [i \in {511} |-> Entry(n + 3, TRUE)]
           e == [i \in {0, 511} |-> IF i = 0 THEN Entry(n + 1, FALSE) ELSE Entry(n + 4, TRUE)]
           T == SetUpPageTable(n, pm.textSegmentPageFrame, base)
<1>1. n \in Nat /\ Frame(pm.l4PageTableBase) = n + 5
  BY DEF HasPages, TableFrame
<1>2. StackFrame(base) = UserStackFrame(pm)
  <2>1. UserStackFrame(pm) \in Nat /\ pm.userStackPageFrame = Address(UserStackFrame(pm))
    BY DEF HasPages
  <2>2. pm.userStackPageFrame \in Nat
    BY <2>1, FrameOfAddress
  <2>3. base + 8 - PAGE_SIZE = pm.userStackPageFrame
    BY <2>2 DEF StackTop, PAGE_SIZE
  <2> QED
    BY <2>3 DEF StackFrame, UserStackFrame
<1>3. T = <<Table(a), Table(b), Table(c), Table(d), Table(e)>>
  BY DEF SetUpPageTable
<1>4. \A k \in 1 .. 5 : content[n + k] = T[k]
  BY DEF HasTables
<1> HIDE DEF T, n
<1>5. \A t : Table(t).table = t
  BY DEF Table
<1>6. /\ content[n + 1].table = a /\ content[n + 2].table = b /\ content[n + 3].table = c
      /\ content[n + 4].table = d /\ content[n + 5].table = e
  <2> HIDE DEF a, b, c, d, e
  <2>1. /\ T[1] = Table(a) /\ T[2] = Table(b) /\ T[3] = Table(c) /\ T[4] = Table(d)
        /\ T[5] = Table(e)
    BY <1>3
  <2>2. /\ content[n + 1] = T[1] /\ content[n + 2] = T[2] /\ content[n + 3] = T[3]
        /\ content[n + 4] = T[4] /\ content[n + 5] = T[5]
    BY <1>4
  <2> QED
    BY <2>1, <2>2, <1>5
<1>7. /\ a = KernelTable /\ b = PagesTable(pm) /\ c = LastTable(n + 2)
      /\ d = LastTable(n + 3) /\ e = RootTable(n + 1, n + 4)
  BY <1>2 DEF TextFrame, KernelTable, PagesTable, LastTable, RootTable
<1> HIDE DEF a, b, c, d, e
<1> QED
  BY <1>1, <1>6, <1>7 DEF n, HaveTables

\* What a process finds at a virtual page.
Found(f) == [frame |-> f, huge |-> FALSE, user |-> TRUE]

\* The table at f leads to g for the index top, and nowhere for another.
Leads(f, g, top, i) ==
  /\ i = top => Entries({f}, i) = {Entry(g, TRUE)}
  /\ i # top => Entries({f}, i) = {}

\* The walk through a process's tables: its two pages, and nothing else that a
\* user may reach.
LEMMA Reaches ==
  ASSUME NEW pm, HasPages(pm, Len(content)), Len(content) \in Nat, HasTables(content, pm)
  PROVE  LET base == pm.l4PageTableBase
         IN  /\ CalcPhyAddr(base, TextPage) = {Found(TextFrame(pm))}
             /\ CalcPhyAddr(base, StackPage) = {Found(UserStackFrame(pm))}
             /\ \A va \in VirtualPages : \A w \in CalcPhyAddr(base, va) :
                  w.user => va = TextPage \/ va = StackPage
<1> DEFINE base == pm.l4PageTableBase
           n == TableFrame(pm) - 5
           b == PagesTable(pm)
           f1 == n + 1
           f2 == n + 2
           f3 == n + 3
           f4 == n + 4
           f5 == n + 5
           low == 510
           top == 511
<1>1. Frame(base) = f5 /\ HaveTables(n, pm)
  BY TablesAre
<1> HIDE DEF base
<1>2. /\ content[f5].table = RootTable(f1, f4) /\ content[f4].table = LastTable(f3)
      /\ content[f3].table = LastTable(f2) /\ content[f2].table = b
  <2> HIDE DEF n
  <2> QED
    BY <1>1 DEF HaveTables
<1> HIDE DEF n, b, f1, f2, f3, f4, f5, low, top
<1>3. \A f, u : Entry(f, u).frame = f /\ Entry(f, u).user = u /\ Entry(f, u).huge = FALSE
  BY DEF Entry
<1>4. \A i : Entry1GB(i).frame = i /\ Entry1GB(i).user = FALSE /\ Entry1GB(i).huge = TRUE
  BY DEF Entry1GB
<1> DEFINE Level4(va) == Entries({Frame(base)}, va[1])
           Level3(va) == Entries(Targets(Level4(va)), va[2])
           Level2(va) == Entries(Targets(Level3(va)), va[3])
           Level1(va) == Entries(Targets(Level2(va)), va[4])
<1>5. ASSUME NEW va
      PROVE  CalcPhyAddr(base, va) = Walk(Level4(va), Level3(va), Level2(va), Level1(va))
  BY WalkIs
<1>6. /\ Entries({f5}, 0) = {Entry(f1, FALSE)} /\ Entries({f5}, top) = {Entry(f4, TRUE)}
      /\ Targets({Entry(f4, TRUE)}) = {f4}
  <2>1. 0 \in DOMAIN content[f5].table
    BY <1>2 DEF RootTable, top
  <2>2. top \in DOMAIN content[f5].table
    BY <1>2 DEF RootTable, top
  <2>3. content[f5].table[0] = Entry(f1, FALSE) /\ content[f5].table[top] = Entry(f4, TRUE)
    BY <1>2 DEF RootTable, top
  <2>4. Entries({f5}, 0) = {content[f5].table[0]}
    BY <2>1, OneEntry
  <2>5. Entries({f5}, top) = {content[f5].table[top]}
    BY <2>2, OneEntry
  <2>6. Targets({Entry(f4, TRUE)}) = {Entry(f4, TRUE).frame}
    BY OneTarget
  <2>7. Entry(f4, TRUE).frame = f4
    BY <1>3
  <2> QED
    BY <2>3, <2>4, <2>5, <2>6, <2>7
<1>7. ASSUME NEW f, NEW g, content[f].table = LastTable(g)
      PROVE  /\ \A i : Leads(f, g, top, i)
             /\ Targets({Entry(g, TRUE)}) = {g}
  <2>1. DOMAIN content[f].table = {top}
    BY <1>7 DEF LastTable, top
  <2>2. content[f].table[top] = Entry(g, TRUE)
    BY <1>7 DEF LastTable, top
  <2>3. ASSUME NEW i, i = top
        PROVE  Entries({f}, i) = {Entry(g, TRUE)}
    <3>1. top \in DOMAIN content[f].table
      BY <2>1
    <3>2. Entries({f}, top) = {content[f].table[top]}
      BY <3>1, OneEntry
    <3> QED
      BY <3>2, <2>2, <2>3
  <2>4. ASSUME NEW i, i # top
        PROVE  Entries({f}, i) = {}
    <3>1. i \notin DOMAIN content[f].table
      BY <2>1, <2>4
    <3> QED
      BY <3>1, OneEntry
  <2>5. Targets({Entry(g, TRUE)}) = {Entry(g, TRUE).frame}
    BY OneTarget
  <2>6. Entry(g, TRUE).frame = g
    BY <1>3
  <2> QED
    BY <2>3, <2>4, <2>5, <2>6 DEF Leads
<1>8. /\ DOMAIN b = {low, top}
      /\ b[low] = Entry(TextFrame(pm), TRUE) /\ b[top] = Entry(UserStackFrame(pm), TRUE)
  BY DEF b, PagesTable, low, top
<1>9. ASSUME NEW i
      PROVE  /\ i \in {low, top} => Entries({f2}, i) = {b[i]}
             /\ i \notin {low, top} => Entries({f2}, i) = {}
  <2>1. content[f2].table = b /\ DOMAIN b = {low, top}
    BY <1>2, <1>8
  <2>2. ASSUME i \in {low, top}
        PROVE  Entries({f2}, i) = {b[i]}
    <3>1. i \in DOMAIN content[f2].table
      BY <2>1, <2>2
    <3>2. Entries({f2}, i) = {content[f2].table[i]}
      BY <3>1, OneEntry
    <3> QED
      BY <3>2, <2>1
  <2>3. ASSUME i \notin {low, top}
        PROVE  Entries({f2}, i) = {}
    <3>1. i \notin DOMAIN content[f2].table
      BY <2>1, <2>3
    <3> QED
      BY <3>1, OneEntry
  <2> QED
    BY <2>2, <2>3
<1>10. ASSUME NEW va, va[1] = top
       PROVE  /\ Level4(va) = {Entry(f4, TRUE)}
              /\ va[2] = top => Level3(va) = {Entry(f3, TRUE)}
              /\ va[2] # top => Level3(va) = {}
  <2>1. Level4(va) = {Entry(f4, TRUE)}
    BY <1>1, <1>6, <1>10
  <2> HIDE DEF Level4
  <2>2. Level3(va) = Entries({f4}, va[2])
    BY <2>1, <1>6
  <2> HIDE DEF Level3
  <2>3. content[f4].table = LastTable(f3)
    BY <1>2
  <2>4. Leads(f4, f3, top, va[2])
    BY <2>3, <1>7
  <2> QED
    BY <2>1, <2>2, <2>4 DEF Leads
<1>11. ASSUME NEW va, Level3(va) = {Entry(f3, TRUE)}
       PROVE  /\ va[3] = top => Level2(va) = {Entry(f2, TRUE)}
              /\ va[3] # top => Level2(va) = {}
  <2> HIDE DEF Level3
  <2>1. content[f4].table = LastTable(f3) /\ content[f3].table = LastTable(f2)
    BY <1>2
  <2>2. Targets({Entry(f3, TRUE)}) = {f3}
    BY <2>1, <1>7
  <2>3. Level2(va) = Entries({f3}, va[3])
    BY <2>2, <1>11
  <2>4. Leads(f3, f2, top, va[3])
    BY <2>1, <1>7
  <2> HIDE DEF Level2
  <2> QED
    BY <2>3, <2>4 DEF Leads
<1>12. ASSUME NEW va, Level2(va) = {Entry(f2, TRUE)}
       PROVE  /\ va[4] \in {low, top} => Level1(va) = {b[va[4]]}
              /\ va[4] \notin {low, top} => Level1(va) = {}
  <2> HIDE DEF Level2
  <2>1. content[f3].table = LastTable(f2)
    BY <1>2
  <2>2. Targets({Entry(f2, TRUE)}) = {f2}
    BY <2>1, <1>7
  <2>3. Level1(va) = Entries({f2}, va[4])
    BY <2>2, <1>12
  <2> HIDE DEF Level1
  <2> QED
    BY <2>3, <1>9
<1>13. ASSUME NEW va, Level3(va) = {}
       PROVE  Level2(va) = {}
  <2> HIDE DEF Level3
  <2> QED
    BY <1>13, NoTarget
<1>14. ASSUME NEW va, Level2(va) = {}
       PROVE  Level1(va) = {}
  <2> HIDE DEF Level2
  <2> QED
    BY <1>14, NoTarget
<1>15. ASSUME NEW va, va[1] = 0
       PROVE  Level4(va) = {Entry(f1, FALSE)}
  BY <1>1, <1>6, <1>15
<1> HIDE DEF Level4, Level3, Level2, Level1
<1>16. ASSUME NEW va, va[1] = top, va[2] = top, va[3] = top, va[4] \in {low, top}
       PROVE  CalcPhyAddr(base, va) = {Found(b[va[4]].frame)}
  <2>1. Level4(va) = {Entry(f4, TRUE)} /\ Level3(va) = {Entry(f3, TRUE)}
    BY <1>10, <1>16
  <2>2. Level2(va) = {Entry(f2, TRUE)}
    BY <2>1, <1>11, <1>16
  <2>3. Level1(va) = {b[va[4]]}
    BY <2>2, <1>12, <1>16
  <2>4. b[va[4]].user = TRUE
    <3>1. b[va[4]] = Entry(TextFrame(pm), TRUE) \/ b[va[4]] = Entry(UserStackFrame(pm), TRUE)
      BY <1>8, <1>16
    <3>2. Entry(TextFrame(pm), TRUE).user = TRUE /\ Entry(UserStackFrame(pm), TRUE).user = TRUE
      BY <1>3
    <3> QED
      BY <3>1, <3>2
  <2>5. AllUser(Level4(va) \cup Level3(va) \cup Level2(va) \cup Level1(va)) = TRUE
    <3>1. Entry(f4, TRUE).user /\ Entry(f3, TRUE).user /\ Entry(f2, TRUE).user
      BY <1>3
    <3> QED
      BY <2>1, <2>2, <2>3, <2>4, <3>1 DEF AllUser
  <2>6. ~(\E x \in Level3(va) : x.huge)
    <3>1. Entry(f3, TRUE).huge = FALSE
      BY <1>3
    <3> QED
      BY <2>1, <3>1
  <2>7. CalcPhyAddr(base, va) =
          {[frame |-> x.frame, huge |-> FALSE, user |-> TRUE] : x \in Level1(va)}
    BY <2>5, <2>6, <1>5 DEF Walk
  <2> QED
    BY <2>3, <2>7 DEF Found
<1>17. /\ TextPage[1] = top /\ TextPage[2] = top /\ TextPage[3] = top /\ TextPage[4] = low
       /\ StackPage[1] = top /\ StackPage[2] = top /\ StackPage[3] = top /\ StackPage[4] = top
  BY DEF TextPage, StackPage, low, top
<1>18. CalcPhyAddr(base, TextPage) = {Found(TextFrame(pm))}
  <2>1. CalcPhyAddr(base, TextPage) = {Found(b[low].frame)}
    BY <1>16, <1>17
  <2>2. b[low].frame = TextFrame(pm)
    BY <1>3, <1>8
  <2> QED
    BY <2>1, <2>2
<1>19. CalcPhyAddr(base, StackPage) = {Found(UserStackFrame(pm))}
  <2>1. CalcPhyAddr(base, StackPage) = {Found(b[top].frame)}
    BY <1>16, <1>17
  <2>2. b[top].frame = UserStackFrame(pm)
    BY <1>3, <1>8
  <2> QED
    BY <2>1, <2>2
<1>20. ASSUME NEW va \in VirtualPages, NEW w \in CalcPhyAddr(base, va), w.user
       PROVE  va = TextPage \/ va = StackPage
  <2>1. /\ va = <<va[1], va[2], va[3], va[4]>>
        /\ va[1] = 0 \/ va[1] = top
    BY DEF VirtualPages, top
  <2>2. w \in Walk(Level4(va), Level3(va), Level2(va), Level1(va))
    BY <1>5
  <2>3. CASE va[1] = 0
    <3>1. Level4(va) = {Entry(f1, FALSE)}
      BY <2>3, <1>15
    <3>2. Entry(f1, FALSE).user = FALSE
      BY <1>3
    <3>3. /\ AllUser(Level4(va) \cup Level3(va)) = FALSE
          /\ AllUser(Level4(va) \cup Level3(va) \cup Level2(va) \cup Level1(va)) = FALSE
      BY <3>1, <3>2 DEF AllUser
    <3>4. w.user = FALSE
      <4>1. CASE \E x \in Level3(va) : x.huge
        <5>1. w \in {[frame |-> x.frame, huge |-> TRUE, user |-> FALSE] : x \in Level3(va)}
          BY <4>1, <3>3, <2>2 DEF Walk
        <5> QED
          BY <5>1
      <4>2. CASE ~(\E x \in Level3(va) : x.huge)
        <5>1. w \in {[frame |-> x.frame, huge |-> FALSE, user |-> FALSE] : x \in Level1(va)}
          BY <4>2, <3>3, <2>2 DEF Walk
        <5> QED
          BY <5>1
      <4> QED
        BY <4>1, <4>2
    <3> QED
      BY <3>4, <1>20
  <2>4. CASE va[1] = top
    <3>1. ~(\E x \in Level3(va) : x.huge)
      <4>1. Level3(va) = {Entry(f3, TRUE)} \/ Level3(va) = {}
        BY <2>4, <1>10
      <4>2. Entry(f3, TRUE).huge = FALSE
        BY <1>3
      <4> QED
        BY <4>1, <4>2
    <3>2. Level1(va) # {}
      BY <3>1, <2>2 DEF Walk
    <3>3. va[2] = top
      <4> SUFFICES ASSUME va[2] # top
                   PROVE  FALSE
        OBVIOUS
      <4>1. Level3(va) = {}
        BY <2>4, <1>10
      <4> QED
        BY <4>1, <3>2, <1>13, <1>14
    <3>4. Level3(va) = {Entry(f3, TRUE)}
      BY <2>4, <3>3, <1>10
    <3>5. va[3] = top
      <4> SUFFICES ASSUME va[3] # top
                   PROVE  FALSE
        OBVIOUS
      <4>1. Level2(va) = {}
        BY <3>4, <1>11
      <4> QED
        BY <4>1, <3>2, <1>14
    <3>6. Level2(va) = {Entry(f2, TRUE)}
      BY <3>4, <3>5, <1>11
    <3>7. va[4] \in {low, top}
      BY <3>2, <3>6, <1>12
    <3> QED
      BY <3>3, <3>5, <3>7, <2>1, <2>4 DEF TextPage, StackPage, low, top
  <2> QED
    BY <2>1, <2>3, <2>4
<1> QED
  BY <1>18, <1>19, <1>20 DEF base

-----------------------------------------------------------------------------
(***************************************************************************)
(* The invariants the runs check, of every number of processes.            *)
(***************************************************************************)

\* A kernel stack has room for the registers of one call of each process: what
\* the theorems on stack pointers ask.
StackHoldsTheCalls == MaxProcesses * SizeOfStack <= PAGE_SIZE - 16

\* Every process is one of the family, and ProcessMemoryOf is its memory.
LEMMA Member ==
  ASSUME ProcInv, NEW p \in AllProcesses
  PROVE  /\ \E i \in 1 .. MaxProcesses : /\ i \in DOMAIN processes /\ p = processes[i]
                                         /\ Settled(mem, heap, content, p, i)
         /\ ProcessMemoryOf(p) = PmOf(mem, p) /\ ThreadInfoOf(p) = TiOf(mem, p)
         /\ HasPages(PmOf(mem, p), Len(content)) /\ HasTables(content, PmOf(mem, p))
         /\ Len(content) \in Nat
<1>1. PICK i \in DOMAIN processes : p = processes[i]
  BY DEF AllProcesses
<1>2. Settled(mem, heap, content, p, i)
  BY <1>1 DEF ProcInv, World, Family
<1>3. i \in 1 .. MaxProcesses
  <2>1. DOMAIN processes = 1 .. Len(processes) /\ Len(processes) \in Nat
    BY Running
  <2>2. Len(processes) <= MaxProcesses
    BY DEF ProcInv, World
  <2> QED
    BY <2>1, <2>2, ProcessMemoryAssumption
<1>4. ProcessMemoryOf(p) = PmOf(mem, p) /\ ThreadInfoOf(p) = TiOf(mem, p)
  BY DEF ProcessMemoryOf, ThreadInfoOf, PmOf, TiOf
<1>5. Len(content) \in Nat
  BY Running
<1>6. HasPages(PmOf(mem, p), Len(content)) /\ HasTables(content, PmOf(mem, p))
  BY <1>2 DEF Settled
<1> QED
  BY <1>1, <1>2, <1>3, <1>4, <1>5, <1>6

\* A stack pointer of the i-th process points into the page of its stack.
LEMMA StaysOnThePage ==
  ASSUME StackHoldsTheCalls, NEW pm, NEW sp, NEW i \in Nat \ {0}, i <= MaxProcesses + 1,
         KernelStackFrame(pm) \in Nat, OnStack(pm, sp, i),
         pm.kernelStackPageFrame = Address(KernelStackFrame(pm))
  PROVE  Frame(sp) = KernelStackFrame(pm)
<1> DEFINE f == KernelStackFrame(pm)
           a == Address(f)
           r == sp - a
<1>1. /\ sp \in Int /\ r \in 4096 - 16 - 160 * (i - 1) .. 4096 - 8
      /\ MaxProcesses * 160 <= 4096 - 16 /\ MaxProcesses \in Nat
  BY ProcessMemoryAssumption DEF OnStack, StackHoldsTheCalls, PAGE_SIZE, SizeOfStack
<1>2. a \in Nat /\ f \in Nat
  BY FrameOfAddress
<1> HIDE DEF a
<1>3. r \in 0 .. 4095 /\ a + r = sp
  <2>1. 160 * (i - 1) <= 4096 - 16
    BY <1>1
  <2>2. r \in Int /\ a + r = sp
    BY <1>1, <1>2
  <2> HIDE DEF r
  <2> QED
    BY <2>1, <2>2, <1>1
<1> HIDE DEF r, f
<1>4. Frame(a + r) = f
  <2>1. \A s \in 0 .. PAGE_SIZE - 1 : Frame(Address(f) + s) = f
    BY <1>2, FrameOfAddress
  <2>2. r \in 0 .. PAGE_SIZE - 1
    BY <1>3 DEF PAGE_SIZE
  <2> QED
    BY <2>1, <2>2 DEF a
<1> QED
  BY <1>3, <1>4 DEF f

\* A program can reach the frames of its text and of its stack, and no other.
LEMMA UserFramesAre ==
  ASSUME ProcInv, NEW p \in AllProcesses
  PROVE  LET pm   == PmOf(mem, p)
             at(va) == {w.frame : w \in CalcPhyAddr(pm.l4PageTableBase, va)}
         IN  /\ at(TextPage) = {TextFrame(pm)} /\ at(StackPage) = {UserStackFrame(pm)}
             /\ UserFrames(p) = {TextFrame(pm), UserStackFrame(pm)}
<1> DEFINE pm == PmOf(mem, p)
           base == pm.l4PageTableBase
           walks == UNION {CalcPhyAddr(base, va) : va \in VirtualPages}
           open == {v \in walks : v.user}
<1>1. /\ CalcPhyAddr(base, TextPage) = {Found(TextFrame(pm))}
      /\ CalcPhyAddr(base, StackPage) = {Found(UserStackFrame(pm))}
      /\ \A va \in VirtualPages : \A w \in CalcPhyAddr(base, va) :
           w.user => va = TextPage \/ va = StackPage
  BY Member, Reaches
<1>2. ProcessMemoryOf(p).l4PageTableBase = base
  BY Member
<1>3. UserFrames(p) = {w.frame : w \in open}
  BY <1>2 DEF UserFrames
<1> HIDE DEF base, pm
<1>4. \A f : Found(f).frame = f /\ Found(f).user = TRUE
  BY DEF Found
<1>5. TextPage \in VirtualPages /\ StackPage \in VirtualPages
  <2>1. 511 \in {0, 511} /\ 511 \in 0 .. 4 \cup {511} /\ 510 \in {0, 510, 511}
        /\ 511 \in {0, 510, 511}
    OBVIOUS
  <2> QED
    BY <2>1 DEF TextPage, StackPage, VirtualPages
<1>6. open = {Found(TextFrame(pm)), Found(UserStackFrame(pm))}
  <2>1. ASSUME NEW w \in open
        PROVE  w \in {Found(TextFrame(pm)), Found(UserStackFrame(pm))}
    <3>1. PICK va \in VirtualPages : w \in CalcPhyAddr(base, va)
      OBVIOUS
    <3>2. va = TextPage \/ va = StackPage
      BY <3>1, <1>1
    <3> QED
      BY <3>1, <3>2, <1>1
  <2>2. Found(TextFrame(pm)) \in walks /\ Found(UserStackFrame(pm)) \in walks
    BY <1>1, <1>5
  <2> HIDE DEF walks
  <2>3. Found(TextFrame(pm)) \in open /\ Found(UserStackFrame(pm)) \in open
    BY <2>2, <1>4
  <2> HIDE DEF open
  <2> QED
    BY <2>1, <2>3
<1> HIDE DEF open
<1>7. UserFrames(p) = {TextFrame(pm), UserStackFrame(pm)}
  BY <1>3, <1>4, <1>6
<1>8. {w.frame : w \in CalcPhyAddr(base, TextPage)} = {TextFrame(pm)}
  BY <1>1, <1>4
<1>9. {w.frame : w \in CalcPhyAddr(base, StackPage)} = {UserStackFrame(pm)}
  BY <1>1, <1>4
<1> QED
  BY <1>7, <1>8, <1>9 DEF base, pm

\* Every value is of its type: the page table register names a page table and
\* the stack pointer a page that has been handed out (ProcessMemoryTypeOK).
THEOREM ProcessMemoryTypeCorrect ==
  ASSUME HeapIsLargeEnough, StackHoldsTheCalls
  PROVE  ProcessMemorySpec => []ProcessMemoryTypeOK
<1>1. ASSUME ProcInv
      PROVE  ProcessMemoryTypeOK
  <2>1. World(heap, live, mem, content, processes)
    BY <1>1 DEF ProcInv
  <2>2. heap \in HeapType /\ live \in Seq([block : Ids, size : ClientSizes])
    BY <2>1 DEF World, HeapFor, HandsOut, Sound
  <2>3. \A x \in Ids \cup {NULL} : mem[x].kind \in Kinds
    BY <2>1 DEF World, IsMemory
  <2>4. \A f \in Frames : \A i \in DOMAIN content[f].table : i \in 0 .. 511
    BY <2>1 DEF World, TablesFit, Fits, Frames
  <2>5. PICK i \in 1 .. Len(processes) :
          /\ currentProcess = processes[i]
          /\ Settled(mem, heap, content, currentProcess, i)
          /\ OnStack(PmOf(mem, currentProcess), rsp0, i)
          /\ cr3 = PmOf(mem, currentProcess).l4PageTableBase
    BY <1>1, Running
  <2>6. processes \in Seq(Ids) /\ currentProcess \in Ids /\ Len(processes) \in Nat
    <3>1. processes \in Seq(Ids) /\ DOMAIN processes = 1 .. Len(processes) /\ Len(processes) \in Nat
      BY <1>1, Running
    <3> QED
      BY <3>1, <2>5
  <2>7. i \in Nat \ {0} /\ i <= MaxProcesses + 1
    <3>1. Len(processes) <= MaxProcesses
      BY <2>1 DEF World
    <3> QED
      BY <3>1, <2>6, ProcessMemoryAssumption
  <2> DEFINE pm == PmOf(mem, currentProcess)
  <2>8. HasPages(pm, Len(content)) /\ Len(content) \in Nat
    BY <1>1, <2>5, Running DEF Settled
  <2> HIDE DEF pm
  <2>9. /\ KernelStackFrame(pm) \in Frames /\ TableFrame(pm) \in Frames
        /\ KernelStackFrame(pm) \in Nat /\ pm.kernelStackPageFrame = Address(KernelStackFrame(pm))
    BY <2>8 DEF HasPages, Frames
  <2>10. Frame(cr3) \in Frames
    BY <2>5, <2>9 DEF TableFrame, pm
  <2>11. Frame(rsp0) \in Frames
    <3>1. OnStack(pm, rsp0, i)
      BY <2>5 DEF pm
    <3>2. Frame(rsp0) = KernelStackFrame(pm)
      BY <3>1, <2>7, <2>9, StaysOnThePage
    <3> QED
      BY <3>2, <2>9
  <2>12. program \in [Ids \cup {NULL} -> Programs \cup {Kernel}]
    BY <1>1 DEF ProcInv
  <2> QED
    BY <2>2, <2>3, <2>4, <2>6, <2>10, <2>11, <2>12 DEF ProcessMemoryTypeOK, ClientSizes
<1> QED
  BY <1>1, ProcessInvariant, PTL

\* The structures of every process stay in heap blocks of their own, and its
\* ThreadInfo leads back to it, whatever is forked, read and executed.
THEOREM StructuresAreAlwaysIntact ==
  ASSUME HeapIsLargeEnough
  PROVE  ProcessMemorySpec => []StructuresAreIntact
<1>1. ASSUME ProcInv
      PROVE  StructuresAreIntact
  <2>1. ASSUME NEW p \in AllProcesses
        PROVE  /\ IsProcess(mem, heap, p) /\ ProcessMemoryOf(p) = PmOf(mem, p)
               /\ ThreadInfoOf(p) = TiOf(mem, p) /\ mem[p].kind = "Process"
               /\ PmOf(mem, p).kind = "ProcessMemory"
               /\ TiOf(mem, p).kind = "ThreadInfo" /\ TiOf(mem, p).process = p
    BY <1>1, Member DEF Settled, IsProcess
  <2>2. ASSUME NEW p \in AllProcesses
        PROVE  Structures(p) \subseteq {live[i].block : i \in DOMAIN live}
    <3>1. \A x \in Ids : heap.isAllocated[x] <=> \E i \in DOMAIN live : live[i].block = x
      BY <1>1 DEF ProcInv, World, HeapFor, HandsOut
    <3>2. /\ p \in Ids /\ mem[p].processMemory \in Ids /\ mem[p].threadInfo \in Ids
          /\ heap.isAllocated[p] /\ heap.isAllocated[mem[p].processMemory]
          /\ heap.isAllocated[mem[p].threadInfo]
      BY <2>1 DEF IsProcess
    <3> QED
      BY <3>1, <3>2 DEF Structures
  <2>3. ASSUME NEW p \in AllProcesses, NEW q \in AllProcesses, p # q
        PROVE  Structures(p) \cap Structures(q) = {}
    <3>1. /\ mem[p].kind = "Process" /\ mem[q].kind = "Process"
          /\ mem[mem[p].processMemory].kind = "ProcessMemory"
          /\ mem[mem[q].processMemory].kind = "ProcessMemory"
          /\ mem[mem[p].threadInfo].kind = "ThreadInfo" /\ mem[mem[p].threadInfo].process = p
          /\ mem[mem[q].threadInfo].kind = "ThreadInfo" /\ mem[mem[q].threadInfo].process = q
      BY <2>1 DEF PmOf, TiOf
    <3>2. PmOf(mem, p) # PmOf(mem, q)
      <4>1. PICK i \in DOMAIN processes : p = processes[i]
        BY DEF AllProcesses
      <4>2. PICK j \in DOMAIN processes : q = processes[j]
        BY DEF AllProcesses
      <4>3. Own(PmOf(mem, p)) \cap Own(PmOf(mem, q)) = {}
        BY <1>1, <2>3, <4>1, <4>2 DEF ProcInv, World, Family
      <4>4. UserStackFrame(PmOf(mem, p)) \in Own(PmOf(mem, p))
        BY DEF Own
      <4> QED
        BY <4>3, <4>4
    <3>3. mem[p].processMemory # mem[q].processMemory
      BY <3>2 DEF PmOf
    <3> QED
      BY <2>3, <3>1, <3>3 DEF Structures
  <2> QED
    BY <2>1, <2>2, <2>3 DEF StructuresAreIntact
<1> QED
  BY <1>1, ProcessInvariant, PTL

\* In its address space a program finds its text and its stack, and reaches no
\* other frame.
THEOREM UsersAlwaysReachOnlyTheirOwn ==
  ASSUME HeapIsLargeEnough
  PROVE  ProcessMemorySpec => []UserReachesOnlyItsOwn
<1>1. ASSUME ProcInv
      PROVE  UserReachesOnlyItsOwn
  <2> SUFFICES ASSUME NEW p \in AllProcesses
               PROVE  LET pm == ProcessMemoryOf(p)
                          at(va) == {w.frame : w \in CalcPhyAddr(pm.l4PageTableBase, va)}
                      IN  /\ at(TextPage)  = {Frame(pm.textSegmentPageFrame)}
                          /\ at(StackPage) = {Frame(pm.userStackPageFrame)}
                          /\ UserFrames(p) = at(TextPage) \cup at(StackPage)
    BY DEF UserReachesOnlyItsOwn
  <2> DEFINE pm == PmOf(mem, p)
             at(va) == {w.frame : w \in CalcPhyAddr(pm.l4PageTableBase, va)}
  <2>1. at(TextPage) = {TextFrame(pm)} /\ at(StackPage) = {UserStackFrame(pm)}
        /\ UserFrames(p) = {TextFrame(pm), UserStackFrame(pm)}
    BY <1>1, UserFramesAre
  <2>2. ProcessMemoryOf(p) = pm
    BY <1>1, Member
  <2> HIDE DEF pm
  <2>3. UserFrames(p) = at(TextPage) \cup at(StackPage)
    <3> HIDE DEF at
    <3> QED
      BY <2>1
  <2>4. /\ at(TextPage)  = {Frame(pm.textSegmentPageFrame)}
        /\ at(StackPage) = {Frame(pm.userStackPageFrame)}
    <3> HIDE DEF at
    <3> QED
      BY <2>1 DEF TextFrame, UserStackFrame
  <2> QED
    BY <2>2, <2>3, <2>4
<1> QED
  BY <1>1, ProcessInvariant, PTL

\* A program finds its own file in its text page, and shares no frame with
\* another program, unless a thread of the kernel calls exec: such a thread
\* shares its text page with the process it was made by.
THEOREM EachAlwaysRunsItsProgram ==
  ASSUME HeapIsLargeEnough, ~KernelThreadsExec
  PROVE  ProcessMemorySpec => []EachRunsItsProgram
<1>1. ASSUME ProcInv, ProgInv
      PROVE  EachRunsItsProgram
  <2> DEFINE text(p) == TextFrame(PmOf(mem, p))
             own(p) == Own(PmOf(mem, p))
  <2>1. ASSUME NEW p \in AllProcesses, program[p] # Kernel
        PROVE  content[Frame(ProcessMemoryOf(p).textSegmentPageFrame)].data = program[p]
    <3>1. PICK i \in DOMAIN processes : p = processes[i]
      BY DEF AllProcesses
    <3>2. content[text(p)].data = program[p]
      BY <1>1, <2>1, <3>1 DEF ProgInv, RunsPrograms
    <3>3. ProcessMemoryOf(p) = PmOf(mem, p)
      BY <1>1, Member
    <3> QED
      BY <3>2, <3>3 DEF TextFrame
  <2>2. ASSUME NEW p \in AllProcesses, NEW q \in AllProcesses \ {p},
               program[p] # Kernel, program[q] # Kernel
        PROVE  UserFrames(p) \cap UserFrames(q) = {}
    <3>1. PICK i \in DOMAIN processes : p = processes[i]
      BY DEF AllProcesses
    <3>2. PICK j \in DOMAIN processes : q = processes[j]
      BY DEF AllProcesses
    <3>3. i # j
      BY <2>2, <3>1, <3>2
    <3>4. /\ text(p) \notin own(q) /\ text(q) \notin own(p) /\ own(p) \cap own(q) = {}
      BY <1>1, <3>1, <3>2, <3>3 DEF ProcInv, World, Family
    <3>5. text(p) # text(q)
      <4>1. ~IsThread(processes, program, i) /\ ~IsThread(processes, program, j)
        BY <2>2, <3>1, <3>2 DEF IsThread
      <4> QED
        BY <1>1, <3>1, <3>2, <3>3, <4>1 DEF ProgInv, RunsPrograms
    <3>6. /\ UserStackFrame(PmOf(mem, p)) \in own(p) /\ UserStackFrame(PmOf(mem, q)) \in own(q)
      BY DEF Own
    <3>7. /\ UserFrames(p) = {text(p), UserStackFrame(PmOf(mem, p))}
          /\ UserFrames(q) = {text(q), UserStackFrame(PmOf(mem, q))}
      BY <1>1, UserFramesAre
    <3> HIDE DEF text, own
    <3> QED
      BY <3>4, <3>5, <3>6, <3>7
  <2> QED
    BY <2>1, <2>2 DEF EachRunsItsProgram
<1> QED
  BY <1>1, ProcessInvariant, ProgramInvariant, PTL

\* Whoever runs, the kernel is entered in his address space and on his kernel
\* stack, whose page the registers of a call do not leave.
THEOREM KernelAlwaysEntersOnItsOwnStack ==
  ASSUME HeapIsLargeEnough, StackHoldsTheCalls
  PROVE  ProcessMemorySpec => []KernelEntersOnItsOwnStack
<1>1. ASSUME ProcInv
      PROVE  KernelEntersOnItsOwnStack
  <2> DEFINE pm(p) == PmOf(mem, p)
             inside(p, sp) == Frame(sp) = Frame(ProcessMemoryOf(p).kernelStackPageFrame)
  <2>1. ASSUME NEW p \in AllProcesses
        PROVE  /\ KernelStackFrame(pm(p)) \in Nat /\ ProcessMemoryOf(p) = pm(p)
               /\ pm(p).kernelStackPageFrame = Address(KernelStackFrame(pm(p)))
    <3>1. HasPages(pm(p), Len(content)) /\ Len(content) \in Nat /\ ProcessMemoryOf(p) = pm(p)
      BY <1>1, Member
    <3> HIDE DEF pm
    <3> QED
      BY <3>1 DEF HasPages
  <2>2. ASSUME NEW p \in AllProcesses, NEW sp, NEW i \in 1 .. MaxProcesses + 1,
               OnStack(pm(p), sp, i)
        PROVE  inside(p, sp)
    <3>1. i \in Nat \ {0} /\ i <= MaxProcesses + 1
      BY ProcessMemoryAssumption
    <3>2. Frame(sp) = KernelStackFrame(pm(p))
      BY <2>1, <2>2, <3>1, StaysOnThePage
    <3> QED
      BY <2>1, <3>2 DEF KernelStackFrame
  <2>3. PICK i \in 1 .. Len(processes) :
          /\ currentProcess = processes[i]
          /\ OnStack(pm(currentProcess), rsp0, i)
          /\ cr3 = pm(currentProcess).l4PageTableBase
    BY <1>1, Running
  <2>4. currentProcess \in AllProcesses
    BY <1>1, <2>3, Running DEF AllProcesses
  <2>5. i \in 1 .. MaxProcesses + 1 /\ i + 1 \in 1 .. MaxProcesses + 1 /\ i \in Nat \ {0}
    <3>1. Len(processes) <= MaxProcesses /\ Len(processes) \in Nat
      BY <1>1, Running DEF ProcInv, World
    <3> QED
      BY <3>1, ProcessMemoryAssumption
  <2>6. inside(currentProcess, SyscallStack)
    <3>1. rsp0 \in Int
      BY <2>3 DEF OnStack
    <3>2. OnStack(pm(currentProcess), SyscallStack, i + 1)
      <4> HIDE DEF pm
      <4> QED
        BY <2>1, <2>3, <2>4, <2>5, <3>1, CallsFit DEF SyscallStack
    <3> QED
      BY <2>2, <2>4, <2>5, <3>2
  <2>7. inside(currentProcess, rsp0)
    BY <2>2, <2>3, <2>4, <2>5
  <2>8. ASSUME NEW p \in AllProcesses
        PROVE  inside(p, ThreadInfoOf(p).ring0rsp)
    <3>1. PICK k \in 1 .. MaxProcesses : Settled(mem, heap, content, p, k)
      BY <1>1, Member
    <3>2. OnStack(pm(p), TiOf(mem, p).ring0rsp, k) /\ ThreadInfoOf(p) = TiOf(mem, p)
      BY <1>1, <3>1, Member DEF Settled
    <3>3. k \in 1 .. MaxProcesses + 1
      BY ProcessMemoryAssumption
    <3> QED
      BY <2>2, <3>2, <3>3
  <2>9. cr3 = ProcessMemoryOf(currentProcess).l4PageTableBase
    BY <2>1, <2>3, <2>4
  <2> HIDE DEF pm, inside
  <2> QED
    BY <2>6, <2>7, <2>8, <2>9 DEF KernelEntersOnItsOwnStack, inside
<1> QED
  BY <1>1, ProcessInvariant, PTL
=============================================================================
