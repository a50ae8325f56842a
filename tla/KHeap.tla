-------------------------------- MODULE KHeap --------------------------------
(***************************************************************************)
(* The kernel heap of kHeap.c: a buddy allocator over the blocks of one    *)
(* page, with a doubly linked list of free blocks for each order.          *)
(*                                                                         *)
(* A heap is a record of the block table and the list heads; kmalloc and   *)
(* kfree are functions on heaps.  The kernel never frees the structures of *)
(* a process (ProcessInit, CopyProcess) and frees the buffer of DriveInit  *)
(* or sysExec before it allocates anything else, or never.  The client     *)
(* here is a little freer, it may free whatever it allocated last; module  *)
(* ProcessMemory is the kernel's own client.                               *)
(***************************************************************************)
EXTENDS BuddyArithmetic, FiniteSets, Sequences

CONSTANTS KHEAP_MAX_ORDER,
          KHEAP_BLOCK_SIZE,
          RequestSizes  \* the sizes of structures, sectors and files, in bytes

ASSUME KHeapAssumption ==
  /\ KHEAP_MAX_ORDER \in Nat
  /\ KHEAP_BLOCK_SIZE \in Nat \ {0}
  /\ RequestSizes \subseteq Nat \ {0}

VARIABLES heap, \* kHeapBlocks and kHeapOrder
          live  \* what kmalloc returned and nobody freed, oldest first

heapVars == <<heap, live>>

KHEAP_BLOCK_NUM == pow2[KHEAP_MAX_ORDER]
KHEAP_HEAP_SIZE == KHEAP_BLOCK_NUM * KHEAP_BLOCK_SIZE

Orders == 0 .. KHEAP_MAX_ORDER
Ids    == 0 .. KHEAP_BLOCK_NUM - 1
NULL   == -1 \* a block is known by its id, a pointer to none by NULL

HeapType ==
  [order : [Ids -> Orders], isAllocated : [Ids -> BOOLEAN],
   prev : [Ids -> Ids \cup {NULL}], next : [Ids -> Ids \cup {NULL}],
   front : [Orders -> Ids \cup {NULL}]]

\* Mutant: the only block is one order too large.
kHeapInitOrderTooLarge ==
  [order       |-> [i \in Ids |-> IF i = 0 THEN KHEAP_MAX_ORDER + 1 ELSE 0],
   isAllocated |-> [i \in Ids |-> FALSE],
   prev        |-> [i \in Ids |-> NULL],
   next        |-> [i \in Ids |-> NULL],
   front       |-> [o \in Orders |-> IF o = KHEAP_MAX_ORDER THEN 0 ELSE NULL]]

kHeapInit ==
  [order       |-> [i \in Ids |-> IF i = 0 THEN KHEAP_MAX_ORDER ELSE 0],
   isAllocated |-> [i \in Ids |-> FALSE],
   prev        |-> [i \in Ids |-> NULL],
   next        |-> [i \in Ids |-> NULL],
   front       |-> [o \in Orders |-> IF o = KHEAP_MAX_ORDER THEN 0 ELSE NULL]]

-----------------------------------------------------------------------------
\* The block is put in front; the one that was there keeps its prev.
AddTokHeapOrder(h, o, id) ==
  [order       |-> [h.order EXCEPT ![id] = o],
   isAllocated |-> [h.isAllocated EXCEPT ![id] = FALSE],
   prev        |-> [h.prev EXCEPT ![id] = NULL],
   next        |-> [h.next EXCEPT ![id] = h.front[o]],
   front       |-> [h.front EXCEPT ![o] = id]]

\* f with the value y for the block x, if x is a block.
Assign(f, x, y) == IF x = NULL THEN f ELSE [f EXCEPT ![x] = y]

\* Mutant: the head of the list is not moved on.
DeleteKeepsFront(h, o, id) ==
  LET n == h.next[id]
  IN  [order       |-> [h.order EXCEPT ![id] = 0],
       isAllocated |-> [h.isAllocated EXCEPT ![id] = FALSE],
       prev        |-> Assign(h.prev, n, h.prev[id]),
       next        |-> [h.next EXCEPT ![id] = NULL],
       front       |-> h.front]

DeleteFromkHeapOrder(h, o, id) ==
  LET p == h.prev[id]
      n == h.next[id]
  IN  [order       |-> [h.order EXCEPT ![id] = 0],
       isAllocated |-> [h.isAllocated EXCEPT ![id] = FALSE],
       prev        |-> Assign(Assign(h.prev, n, p), id, NULL),
       next        |-> Assign(Assign(h.next, p, n), id, NULL),
       front       |-> IF p = NULL THEN [h.front EXCEPT ![o] = n] ELSE h.front]

-----------------------------------------------------------------------------
(***************************************************************************)
(* kmalloc                                                                 *)
(***************************************************************************)

\* Mutant: the last, partly used block of a request is not counted.
BlocksForTruncates(size) == IF size < KHEAP_BLOCK_SIZE THEN 1 ELSE size \div KHEAP_BLOCK_SIZE

BlocksFor(size) ==
  size \div KHEAP_BLOCK_SIZE + (IF size % KHEAP_BLOCK_SIZE = 0 THEN 0 ELSE 1)

RequestedOrder(size) ==
  LET n == BlocksFor(size) IN IF pow2[log2(n)] < n THEN log2(n) + 1 ELSE log2(n)

Candidates(h, o) == {k \in Orders : k >= o /\ h.front[k] # NULL}

\* Mutant: the upper half is put in front of the lower one.
SplitUpperFirst(h, k) ==
  LET id == h.front[k]
  IN  AddTokHeapOrder(
        AddTokHeapOrder(DeleteFromkHeapOrder(h, k, id), k - 1, id),
        k - 1, id + pow2[k - 1])

\* The front block of order k, split into two of order k - 1.
Split(h, k) ==
  LET id == h.front[k]
  IN  AddTokHeapOrder(
        AddTokHeapOrder(DeleteFromkHeapOrder(h, k, id), k - 1, id + pow2[k - 1]),
        k - 1, id)

\* The block that leaves its list is handed out.
MarkAllocated(h, o, id) ==
  [order       |-> [h.order EXCEPT ![id] = o],
   isAllocated |-> [h.isAllocated EXCEPT ![id] = TRUE],
   prev        |-> h.prev,
   next        |-> h.next,
   front       |-> h.front]

\* The result of kmalloc(size): a heap, and the block or NULL.
kmalloc(h, size) ==
  LET o == RequestedOrder(size)
      from == CHOOSE k \in Candidates(h, o) : \A j \in Candidates(h, o) : k <= j
      \* split[k]: the heap when the loop is down to order k
      split[k \in o .. from] == IF k = from THEN h ELSE Split(split[k + 1], k + 1)
      id == split[o].front[o]
      taken == DeleteFromkHeapOrder(split[o], o, id)
  IN  IF size > KHEAP_HEAP_SIZE \/ Candidates(h, o) = {}
      THEN [heap |-> h, block |-> NULL]
      ELSE [heap |-> MarkAllocated(taken, o, id), block |-> id]

-----------------------------------------------------------------------------
(***************************************************************************)
(* kfree                                                                   *)
(***************************************************************************)
Buddy(id, o) == IF (id \div pow2[o]) % 2 = 0 THEN id + pow2[o] ELSE id - pow2[o]

MergedId(id, o) == IF id < Buddy(id, o) THEN id ELSE Buddy(id, o)

Merge(h, o, id) ==
  AddTokHeapOrder(
    DeleteFromkHeapOrder(DeleteFromkHeapOrder(h, o, id), o, Buddy(id, o)),
    o + 1, MergedId(id, o))

\* Mutant: freed blocks are put back without looking at the buddy.
MayMergeNever(h, o, id) == FALSE

\* All the code asks of the buddy: that it is not the start of an allocation.
MayMerge(h, o, id) == ~h.isAllocated[Buddy(id, o)]

kfree(h, id) ==
  LET o == h.order[id]
      \* at[k]: the heap and the block when the loop reaches order k
      at[k \in o .. KHEAP_MAX_ORDER] ==
        IF k = o
        THEN [heap |-> AddTokHeapOrder(h, o, id), block |-> id, loop |-> TRUE]
        ELSE LET s == at[k - 1]
             IN  IF s.loop /\ MayMerge(s.heap, k - 1, s.block)
                 THEN [heap  |-> Merge(s.heap, k - 1, s.block),
                       block |-> MergedId(s.block, k - 1), loop |-> TRUE]
                 ELSE [heap |-> s.heap, block |-> s.block, loop |-> FALSE]
  IN  IF h.isAllocated[id] THEN at[KHEAP_MAX_ORDER].heap ELSE h

-----------------------------------------------------------------------------
HeapInit == heap = kHeapInit /\ live = <<>>

\* A call of kmalloc; one that fails changes nothing.
Allocate(size) ==
  LET r == kmalloc(heap, size)
  IN  /\ r.block # NULL
      /\ heap' = r.heap
      /\ live' = Append(live, [block |-> r.block, size |-> size])

\* A call of kfree with the address that kmalloc returned last.
Free ==
  /\ live # <<>>
  /\ heap' = kfree(heap, live[Len(live)].block)
  /\ live' = SubSeq(live, 1, Len(live) - 1)

HeapNext ==
  \/ \E size \in RequestSizes : Allocate(size)
  \/ Free

HeapSpec == HeapInit /\ [][HeapNext]_heapVars

-----------------------------------------------------------------------------
(***************************************************************************)
(* Properties                                                              *)
(***************************************************************************)
HeapTypeOK ==
  /\ heap \in HeapType
  /\ live \in Seq([block : Ids, size : RequestSizes])

\* The blocks a block of order o at id stands for.
Extent(id, o) == id .. id + pow2[o] - 1

\* The blocks on the free list of order o of the heap h, from the front.
FreeList(h, o) ==
  LET walk[k \in Ids] == IF k = 0 THEN h.front[o]
                         ELSE IF walk[k - 1] = NULL THEN NULL ELSE h.next[walk[k - 1]]
      length == Cardinality({k \in Ids : walk[k] # NULL})
  IN  [k \in 1 .. length |-> walk[k - 1]]

FreeBlocks == UNION {{<<FreeList(heap, o)[k], o>> : k \in DOMAIN FreeList(heap, o)} :
                       o \in Orders}

\* What was handed out: blocks of the order that was asked for.
Used == {<<live[i].block, RequestedOrder(live[i].size)>> : i \in DOMAIN live}

\* Each block of the heap belongs to exactly one live allocation or to one
\* entry of a free list: none is handed out twice, none is lost, and split and
\* merged blocks fit together (kmalloc, kfree and their list operations).
HeapIsPartitioned ==
  LET parts == FreeBlocks \cup Used
  IN  /\ Cardinality(Used) = Len(live)
      /\ \A b \in Ids : Cardinality({e \in parts : b \in Extent(e[1], e[2])}) = 1

\* An allocation has room for the bytes that were asked for.
AllocationsAreLargeEnough ==
  \A i \in DOMAIN live :
    pow2[heap.order[live[i].block]] * KHEAP_BLOCK_SIZE >= live[i].size

\* No two free buddies are left apart (kfree), so a request only fails when no
\* free block of its order can be had.
FreeBuddiesAreMerged ==
  LET free == FreeBlocks
  IN  \A e \in free : e[2] < KHEAP_MAX_ORDER => <<Buddy(e[1], e[2]), e[2]>> \notin free

\* In every heap, freeing what was just allocated restores all free lists as
\* they were, the order of their entries included: kfree joins exactly what
\* kmalloc has split.
FreeUndoesAllocate ==
  \A size \in RequestSizes :
    LET r == kmalloc(heap, size)
    IN  r.block # NULL =>
          \A o \in Orders : FreeList(kfree(r.heap, r.block), o) = FreeList(heap, o)
=============================================================================
