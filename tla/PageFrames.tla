------------------------------ MODULE PageFrames ------------------------------
(***************************************************************************)
(* The page frame allocator of physicalMemory.c: a buddy system built over *)
(* the memory map the boot loader hands over, with a list of free blocks   *)
(* for each order.  The kernel only ever allocates (kHeapInit, ProcessInit,*)
(* CopyProcess), which takes blocks from the fronts of the lists; a list is*)
(* a sequence of first pages, front first.                                 *)
(***************************************************************************)
EXTENDS BuddyArithmetic, FiniteSets, Sequences

CONSTANTS PAGE_FRAME_MAX_ORDER,
          TotalPages,     \* pages the memory map describes
          Maps,           \* the sets of pages it may mark PAGE_RESERVED
          BeyondReserved, \* whether what follows the map reads as PAGE_RESERVED
          Requests,       \* numbers of pages that are asked for
          XsdtIsHead      \* does the pointer xsdt lie at pageFrameOrder[MAX]?

ASSUME PageFramesAssumption ==
  /\ PAGE_FRAME_MAX_ORDER \in Nat
  /\ TotalPages \in Nat \ {0}
  /\ Maps \subseteq SUBSET (0 .. TotalPages - 1)
  /\ BeyondReserved \in BOOLEAN
  /\ Requests \subseteq Nat \ {0}
  /\ XsdtIsHead \in BOOLEAN

VARIABLES reserved,       \* the pages marked PAGE_RESERVED
          pageFrameOrder, \* [order -> sequence of first pages]
          allocated,      \* marked PAGE_ALLOCATED: <<first page, order, number asked for>>
          returned,       \* what the last AllocatePageFrames returned
          acpiDone        \* has ACPIInit run?

pageVars == <<reserved, pageFrameOrder, allocated, returned, acpiDone>>

PAGE_SIZE == 4096

Orders == 0 .. PAGE_FRAME_MAX_ORDER
Pages  == 0 .. TotalPages - 1
Xsdt   == -1 \* what is no entry of the map: the first entry is page 0

-----------------------------------------------------------------------------
(***************************************************************************)
(* The list of an order.  Only the block at its front is ever deleted.     *)
(***************************************************************************)
AddToPageFrameOrder(lists, o, page) == [lists EXCEPT ![o] = <<page>> \o @]

DeleteFromPageFrameOrder(lists, o) == [lists EXCEPT ![o] = Tail(@)]

(***************************************************************************)
(* BuddySystemInit                                                         *)
(***************************************************************************)
IsReserved(res, page) == IF page \in Pages THEN page \in res ELSE BeyondReserved

\* The largest order of a block that may start at this page.
MaxOrder(start) ==
  CHOOSE o \in Orders : /\ start % pow2[o] = 0
                        /\ \A k \in Orders : start % pow2[k] = 0 => k <= o

\* The end of the streak of usable pages that starts here, as far as it fits
\* into one block.  The end of the map is only seen when it is met exactly.
StreakEnd(res, start) ==
  LET ends == {e \in start + 1 .. start + pow2[MaxOrder(start)] :
                 \/ e = TotalPages
                 \/ e = start + pow2[MaxOrder(start)]
                 \/ IsReserved(res, e)}
  IN  CHOOSE e \in ends : \A f \in ends : e <= f

BlockOrder(res, start) == log2(StreakEnd(res, start) - start)

(***************************************************************************)
(* The lists of the blocks that begin at this page or behind it.  The code *)
(* walks upwards and puts each block in front of those found before: here, *)
(* seen from the end of the map, at the end of its list.                   *)
(* The skipping loop leaves the map with start = TotalPages when it ends in*)
(* reserved pages, and the test behind it then reads the flags of an entry *)
(* there is not.                                                           *)
(***************************************************************************)
NoBlocks == [o \in Orders |-> <<>>]

ListsFrom(res, page) ==
  LET from[start \in 0 .. TotalPages] ==
        IF start = TotalPages THEN NoBlocks
        ELSE IF IsReserved(res, start)
        THEN IF start + 1 < TotalPages \/ BeyondReserved THEN from[start + 1]
             ELSE [NoBlocks EXCEPT ![BlockOrder(res, TotalPages)] = <<TotalPages>>]
        ELSE LET o == BlockOrder(res, start)
             IN  [from[start + pow2[o]] EXCEPT ![o] = Append(@, start)]
  IN  from[page]

BuddySystemInit(res) == ListsFrom(res, 0)

-----------------------------------------------------------------------------
(***************************************************************************)
(* AllocatePageFrames                                                      *)
(***************************************************************************)

\* Mutant: log2 rounds down and is left at that.
RequestedOrderDown(n) == log2(n)

RequestedOrder(n) == IF pow2[log2(n)] < n THEN log2(n) + 1 ELSE log2(n)

\* Mutant: a block of the very order that is asked for is passed over.
CandidatesAbove(lists, o) == {k \in Orders : k > o /\ lists[k] # <<>>}

Candidates(lists, o) == {k \in Orders : k >= o /\ lists[k] # <<>>}

\* Mutant: the buddy is taken to be the half in front of the block.
SplitBuddyBefore(lists, k) ==
  LET front == Head(lists[k])
      rest  == DeleteFromPageFrameOrder(lists, k)
  IN  AddToPageFrameOrder(
        AddToPageFrameOrder(rest, k - 1, front - pow2[k - 1]), k - 1, front)

\* Mutant: the block that is split stays in its list.
SplitKeeps(lists, k) ==
  LET front == Head(lists[k])
  IN  AddToPageFrameOrder(
        AddToPageFrameOrder(lists, k - 1, front + pow2[k - 1]), k - 1, front)

\* The front block of order k, split: its two halves in front of order k - 1.
\* The front is aligned, so the buddy's id, an exclusive or, is a sum.
Split(lists, k) ==
  LET front == Head(lists[k])
      rest  == DeleteFromPageFrameOrder(lists, k)
  IN  AddToPageFrameOrder(
        AddToPageFrameOrder(rest, k - 1, front + pow2[k - 1]), k - 1, front)

\* The lists when the front of the smallest order that will do has been split
\* down to order o.
SplitDownTo(lists, o) ==
  LET from == CHOOSE k \in Candidates(lists, o) : \A j \in Candidates(lists, o) : k <= j
      down[k \in o .. from] == IF k = from THEN lists ELSE Split(down[k + 1], k + 1)
  IN  down[o]

\* What a caller is told when there is no block for it.
NoFrames == 0

\* (allocated - memoryMap) << 12: the address of a block, from its first page.
\* The block at page 0 has the address that stands for no block.
AddressOf(page) == page * PAGE_SIZE

Serves(o) == o \in Orders /\ Candidates(pageFrameOrder, o) # {}

AllocatePageFrames(n) ==
  LET o == RequestedOrder(n)
  IN  /\ \/ /\ Serves(o)
            /\ LET lists == SplitDownTo(pageFrameOrder, o)
               IN  /\ pageFrameOrder' = DeleteFromPageFrameOrder(lists, o)
                   /\ allocated' = allocated \cup {<<Head(lists[o]), o, n>>}
                   /\ returned' = AddressOf(Head(lists[o]))
         \/ /\ ~Serves(o)
            /\ returned' = NoFrames
            /\ UNCHANGED <<pageFrameOrder, allocated>>
      /\ UNCHANGED <<reserved, acpiDone>>

(***************************************************************************)
(* ACPIInit, which runs once ProcessInit has its frames, stores the address*)
(* of the XSDT.  pageFrameOrder has PAGE_FRAME_MAX_ORDER elements and is   *)
(* used with one more: in this build the pointer xsdt follows the array.   *)
(***************************************************************************)
ACPIInit ==
  /\ ~acpiDone
  /\ acpiDone' = TRUE
  /\ pageFrameOrder' =
       IF XsdtIsHead THEN [pageFrameOrder EXCEPT ![PAGE_FRAME_MAX_ORDER] = <<Xsdt>>]
       ELSE pageFrameOrder
  /\ UNCHANGED <<reserved, allocated, returned>>

PageInit ==
  /\ reserved \in Maps
  /\ pageFrameOrder = BuddySystemInit(reserved)
  /\ allocated = {}
  /\ returned = NoFrames
  /\ acpiDone = FALSE

PageNext ==
  \/ \E n \in Requests : AllocatePageFrames(n)
  \/ ACPIInit

PageSpec == PageInit /\ [][PageNext]_pageVars

-----------------------------------------------------------------------------
(***************************************************************************)
(* Properties                                                              *)
(***************************************************************************)
PageTypeOK ==
  /\ reserved \in Maps
  /\ pageFrameOrder \in [Orders -> Seq(Pages)]
  /\ allocated \subseteq Pages \X Orders \X Requests
  /\ returned \in {NoFrames} \cup {AddressOf(p) : p \in Pages}
  /\ acpiDone \in BOOLEAN

Extent(b) == b[1] .. b[1] + pow2[b[2]] - 1

FreeBlocks ==
  UNION {{<<pageFrameOrder[o][i], o>> : i \in DOMAIN pageFrameOrder[o]} : o \in Orders}

\* Every usable page of the map is in exactly one free block or one allocated
\* block, and no reserved page in any, however the map is cut into blocks and
\* the blocks are split (BuddySystemInit, AllocatePageFrames).
PagesArePartitioned ==
  LET parts == FreeBlocks \cup allocated
  IN  /\ \A p \in Pages : Cardinality({b \in parts : p \in Extent(b)})
                            = IF p \in reserved THEN 0 ELSE 1
      /\ \A o \in Orders : \A i, j \in DOMAIN pageFrameOrder[o] :
           pageFrameOrder[o][i] = pageFrameOrder[o][j] => i = j

\* A block of order o starts at a multiple of 2^o pages, which is what makes the
\* buddy of a block, found by an exclusive or, its other half; and a request
\* gets the smallest block it fits into.
BlocksAreWhole ==
  /\ \A b \in FreeBlocks \cup allocated : b[1] % pow2[b[2]] = 0
  /\ \A b \in allocated : pow2[b[2]] >= b[3] /\ pow2[b[2]] < 2 * b[3]

\* An aligned run of free pages, 2^o of them.
Room(o) ==
  LET free == UNION {Extent(b) : b \in FreeBlocks}
  IN  \E p \in Pages : p % pow2[o] = 0 /\ Extent(<<p, o>>) \subseteq free

\* On a map with page 0 reserved, a caller who asks for no more pages than the
\* largest block has is told that there are none (AllocatePageFrames returns 0)
\* only when no aligned run of free pages is long enough: the map is cut into
\* blocks as large as can be, allocations split no more than they have to, and
\* no block that is handed out has the address 0.
FailsOnlyWithoutRoom ==
  [][\A n \in Requests :
       /\ AllocatePageFrames(n)
       /\ 0 \in reserved
       /\ RequestedOrder(n) \in Orders
       /\ returned' = NoFrames
       => ~Room(RequestedOrder(n))]_pageVars

\* The lists are "the blocks of orders 0, 1, ..., L" of the region that is
\* managed (BuddyMemoryAllocation.md:8-9): their pages are pages of the map.
ListsHoldPagesOfTheMap == \A b \in FreeBlocks : Extent(b) \subseteq Pages
=============================================================================
