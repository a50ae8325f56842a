--------------------------- MODULE PageFramesProofs ---------------------------
(***************************************************************************)
(* The page frame allocator, for every number of orders and pages, and     *)
(* every memory map.                                                       *)
(*                                                                         *)
(* The argument: what BuddySystemInit finds from a page on is a partition  *)
(* of the usable pages from there on into aligned blocks, each as large as *)
(* can be (ListsFrom, from the end of the map backwards); an allocation    *)
(* splits a block of the least order that will do into halves that lie in  *)
(* empty lists, so each list afterwards is known entry by entry (Taken).   *)
(***************************************************************************)
EXTENDS PageFrames, ArithmeticProofs, FiniteSetTheorems

\* BuddySystemInit sees where the map ends: its last page is usable, or what
\* follows it reads as reserved.
MapsEnd == \A m \in Maps : TotalPages - 1 \notin m \/ BeyondReserved

Usable(res)   == Pages \ res
Span(p, o)    == p .. p + pow2[o] - 1
Aligned(p, o) == \E q \in Nat : p = q * pow2[o]

\* The block is in its list.
FreeAt(lists, p, o) == \E i \in DOMAIN lists[o] : lists[o][i] = p

\* No larger block could begin where this one does.
Largest(res, p, k) ==
  \A o \in Orders : o > k /\ Aligned(p, o) => \E x \in Span(p, o) : x \notin Usable(res)

\* Lists of blocks of usable pages from a page on, disjoint and as large as can be.
Blocks(res, lists, start) ==
  /\ lists \in [Orders -> Seq(Pages)]
  /\ \A o \in Orders : \A i, j \in DOMAIN lists[o] : lists[o][i] = lists[o][j] => i = j
  /\ \A p \in Pages, o \in Orders : FreeAt(lists, p, o) =>
       /\ start <= p /\ Aligned(p, o) /\ Largest(res, p, o)
       /\ Span(p, o) \subseteq Usable(res)
  /\ \A p, q \in Pages, o, k \in Orders, x \in Pages :
       FreeAt(lists, p, o) /\ FreeAt(lists, q, k) /\ x \in Span(p, o) /\ x \in Span(q, k)
         => p = q /\ o = k

LEMMA OrderTypes ==
  /\ Orders \subseteq Nat /\ Pages \subseteq Nat /\ 0 \in Orders
  /\ \A o \in Orders : pow2[o] \in Nat \ {0}
  /\ TotalPages \in Nat \ {0} /\ TotalPages \notin Pages
BY PageFramesAssumption, PowersOfTwo DEF Orders, Pages

LEMMA AlignedMeans ==
  ASSUME NEW p \in Nat, NEW o \in Nat
  PROVE  p % pow2[o] = 0 <=> Aligned(p, o)
<1> DEFINE x == pow2[o]
<1>1. x \in Nat \ {0}
  BY PowersOfTwo
<1>2. ASSUME p % x = 0
      PROVE  \E q \in Nat : p = q * x
  <2> HIDE DEF x
  <2> DEFINE d == p \div x
  <2>1. d \in Nat /\ p = x * d + (p % x)
    BY <1>1
  <2> HIDE DEF d
  <2>2. x * d = d * x /\ x * d \in Nat
    BY <1>1, <2>1
  <2>3. p = d * x
    BY <1>2, <2>1, <2>2
  <2> QED
    BY <2>1, <2>3
<1>3. ASSUME NEW q \in Nat, p = q * x
      PROVE  p % x = 0
  <2> HIDE DEF x
  <2> QED
    BY <1>1, <1>3, MultipleDivides
<1> QED
  BY <1>2, <1>3 DEF Aligned

\* A multiple of a power is one of each smaller power.
LEMMA AlignedBelow ==
  ASSUME NEW p \in Nat, NEW o \in Nat, NEW k \in Nat, k <= o, Aligned(p, o)
  PROVE  Aligned(p, k)
<1>1. PICK q \in Nat : p = q * pow2[o]
  BY DEF Aligned
<1>2. PICK m \in Nat \ {0} : pow2[o] = m * pow2[k]
  BY PowersGrow
<1> DEFINE x == pow2[k]
<1>3. x \in Nat
  BY PowersOfTwo
<1>4. p = q * (m * x)
  BY <1>1, <1>2
<1> HIDE DEF x
<1>5. q * (m * x) = (q * m) * x /\ q * m \in Nat
  BY <1>3
<1> QED
  BY <1>4, <1>5 DEF Aligned, x

\* Between the multiples of a power there are only pages of the block.
LEMMA OneBlockAround ==
  ASSUME NEW p \in Nat, NEW q \in Nat, NEW o \in Nat, Aligned(p, o), Aligned(q, o),
         NEW x \in Nat, x \in Span(p, o), x \in Span(q, o)
  PROVE  p = q
<1> DEFINE s == pow2[o]
<1>1. s \in Nat \ {0}
  BY PowersOfTwo
<1>2. PICK a \in Nat : p = a * s
  BY DEF Aligned
<1>3. PICK b \in Nat : q = b * s
  BY DEF Aligned
<1>4. p <= x /\ x < p + s /\ q <= x /\ x < q + s
  BY <1>1 DEF Span
<1> HIDE DEF s
<1>5. ASSUME NEW c \in Nat, NEW d \in Nat, c < d
      PROVE  c * s + s <= d * s
  <2> DEFINE e == d - (c + 1)
  <2>1. e \in Nat /\ d = (c + 1) + e
    BY <1>5
  <2> HIDE DEF e
  <2>2. d * s = (c * s + s) + e * s /\ e * s \in Nat /\ c * s \in Nat
    BY <2>1, <1>1
  <2> QED
    BY <2>2, <1>1
<1>6. a * s \in Nat /\ b * s \in Nat
  BY <1>1
<1>7. ~(a < b) /\ ~(b < a)
  BY <1>1, <1>2, <1>3, <1>4, <1>5, <1>6
<1> QED
  BY <1>2, <1>3, <1>7

\* The block found at a usable page: aligned, of usable pages, and of the
\* largest order there is.
LEMMA MaxOrderIs ==
  ASSUME NEW s \in Nat
  PROVE  /\ MaxOrder(s) \in Orders /\ Aligned(s, MaxOrder(s))
         /\ \A k \in Orders : Aligned(s, k) => k <= MaxOrder(s)
<1> DEFINE M == PAGE_FRAME_MAX_ORDER
           A == {o \in Orders : s % pow2[o] = 0}
           T == {M - o : o \in A}
<1>1. M \in Nat /\ Orders = 0 .. M
  BY PageFramesAssumption DEF Orders
<1>2. 0 \in A
  <2>1. pow2[0] = 1 /\ s % 1 = 0
    BY PowersOfTwo
  <2> QED
    BY <2>1, OrderTypes
<1>3. T \subseteq Nat /\ T # {}
  BY <1>1, <1>2
<1>4. PICK t \in T : \A u \in T : t <= u
  BY <1>3, LeastNumber
<1>5. PICK m \in A : t = M - m
  BY <1>4
<1>6. \A k \in A : k <= m
  <2> SUFFICES ASSUME NEW k \in A
               PROVE  k <= m
    OBVIOUS
  <2>1. M - k \in T
    OBVIOUS
  <2>2. M - m <= M - k
    BY <2>1, <1>4, <1>5
  <2> QED
    BY <2>2, <1>1
<1>7. \E o \in Orders : s % pow2[o] = 0 /\ \A k \in Orders : s % pow2[k] = 0 => k <= o
  BY <1>5, <1>6
<1>8. /\ MaxOrder(s) \in Orders /\ s % pow2[MaxOrder(s)] = 0
      /\ \A k \in Orders : s % pow2[k] = 0 => k <= MaxOrder(s)
  BY <1>7 DEF MaxOrder
<1> QED
  BY <1>8, AlignedMeans, OrderTypes

LEMMA BlockIs ==
  ASSUME NEW res \in SUBSET Pages, NEW s \in Usable(res)
  PROVE  LET k == BlockOrder(res, s)
         IN  /\ k \in Orders /\ Aligned(s, k) /\ Largest(res, s, k)
             /\ Span(s, k) \subseteq Usable(res) /\ s + pow2[k] <= TotalPages
<1> DEFINE M    == MaxOrder(s)
           top  == s + pow2[M]
           ends == {e \in s + 1 .. s + pow2[M] :
                      e = TotalPages \/ e = s + pow2[M] \/ IsReserved(res, e)}
           E    == StreakEnd(res, s)
           k    == BlockOrder(res, s)
<1>1. s \in Pages /\ s \notin res /\ s \in Nat /\ s < TotalPages /\ TotalPages \in Nat
  BY PageFramesAssumption DEF Usable, Pages
<1>2. M \in Orders /\ M \in Nat /\ Aligned(s, M) /\ \A o \in Orders : Aligned(s, o) => o <= M
  BY <1>1, MaxOrderIs, OrderTypes
<1>3. pow2[M] \in Nat \ {0} /\ top \in Nat /\ top \in s + 1 .. top
  BY <1>1, <1>2, PowersOfTwo
<1> HIDE DEF M
<1>4. E \in ends /\ \A e \in ends : E <= e
  <2>1. ends \subseteq Nat /\ ends # {}
    BY <1>1, <1>3
  <2>2. \E e \in ends : \A f \in ends : e <= f
    BY <2>1, LeastNumber
  <2>3. E = CHOOSE e \in ends : \A f \in ends : e <= f
    BY DEF StreakEnd, M
  <2> HIDE DEF ends, E
  <2> QED
    BY <2>2, <2>3
<1>5. /\ E \in Nat /\ s + 1 <= E /\ E <= top
      /\ E = TotalPages \/ E = top \/ IsReserved(res, E)
  BY <1>1, <1>3, <1>4
<1>6. \A e \in s + 1 .. E - 1 : e # TotalPages /\ ~IsReserved(res, e)
  <2> SUFFICES ASSUME NEW e \in s + 1 .. E - 1, e = TotalPages \/ IsReserved(res, e)
               PROVE  FALSE
    OBVIOUS
  <2>1. e \in Nat /\ s + 1 <= e /\ e < E /\ e \in s + 1 .. s + pow2[M]
    BY <1>1, <1>3, <1>5
  <2>2. e \in ends
    BY <2>1
  <2> HIDE DEF ends, E
  <2> QED
    BY <2>1, <2>2, <1>4, <1>5
<1> HIDE DEF ends, E
<1>7. E <= TotalPages
  <2> SUFFICES ASSUME TotalPages < E
               PROVE  FALSE
    BY <1>1, <1>5
  <2>1. TotalPages \in s + 1 .. E - 1
    BY <1>1, <1>5
  <2> QED
    BY <2>1, <1>6
<1>8. \A e \in s .. E - 1 : e \in Usable(res)
  <2> SUFFICES ASSUME NEW e \in s .. E - 1
               PROVE  e \in Pages /\ e \notin res
    BY DEF Usable
  <2>1. e \in Pages
    BY <1>1, <1>5, <1>7 DEF Pages
  <2>2. CASE e = s
    BY <2>1, <2>2, <1>1
  <2>3. CASE e # s
    <3>1. e \in s + 1 .. E - 1
      BY <2>3, <1>1
    <3> QED
      BY <2>1, <3>1, <1>6 DEF IsReserved
  <2> QED
    BY <2>2, <2>3
<1> DEFINE n == E - s
<1>9. n \in Nat \ {0} /\ k = log2(n) /\ E = s + n /\ n <= pow2[M]
  BY <1>1, <1>3, <1>5 DEF BlockOrder, E
<1> HIDE DEF n, k
<1>10. k \in Nat /\ pow2[k] <= n /\ n < pow2[k + 1] /\ pow2[k] \in Nat \ {0}
       /\ pow2[k + 1] \in Nat
  BY <1>9, Log2Is, PowersOfTwo
<1>11. k <= M
  <2> SUFFICES ASSUME M < k
               PROVE  FALSE
    BY <1>2, <1>10
  <2>1. 2 * pow2[M] <= pow2[k]
    BY <1>2, <1>10, PowersGrow
  <2> QED
    BY <2>1, <1>3, <1>9, <1>10
<1>12. k \in Orders
  BY <1>2, <1>10, <1>11, PageFramesAssumption DEF Orders
<1>13. Aligned(s, k)
  BY <1>1, <1>2, <1>10, <1>11, AlignedBelow
<1>14. s + pow2[k] <= E
  BY <1>1, <1>9, <1>10
<1>15. Span(s, k) \subseteq Usable(res) /\ s + pow2[k] <= TotalPages
  <2>1. \A e \in Span(s, k) : e \in s .. E - 1
    BY <1>1, <1>5, <1>10, <1>14 DEF Span
  <2> QED
    BY <2>1, <1>1, <1>5, <1>7, <1>8, <1>10, <1>14
<1>16. Largest(res, s, k)
  <2> SUFFICES ASSUME NEW o \in Orders, o > k, Aligned(s, o)
               PROVE  \E x \in Span(s, o) : x \notin Usable(res)
    BY DEF Largest
  <2>1. o \in Nat /\ k + 1 <= o /\ o <= M /\ k + 1 \in Nat
    BY <1>2, <1>10, OrderTypes
  <2>2. pow2[k + 1] <= pow2[o] /\ pow2[o] <= pow2[M] /\ pow2[o] \in Nat
    BY <2>1, <1>2, PowersGrow, PowersOfTwo
  <2>3. E \in Span(s, o) /\ E # top
    BY <2>2, <1>1, <1>3, <1>5, <1>9, <1>10 DEF Span
  <2>4. E \notin Usable(res)
    BY <2>3, <1>5, OrderTypes DEF Usable, IsReserved
  <2> QED
    BY <2>3, <2>4
<1> QED
  BY <1>12, <1>13, <1>15, <1>16 DEF k

-----------------------------------------------------------------------------
(***************************************************************************)
(* The recursive function of ListsFrom: that it exists, and its equation.  *)
(***************************************************************************)

\* The lists from page s on, if f gives those from each later page on.
ListsAt(res, f, s) ==
  IF s = TotalPages THEN NoBlocks
  ELSE IF s \in res THEN f[s + 1]
  ELSE [f[s + pow2[BlockOrder(res, s)]] EXCEPT ![BlockOrder(res, s)] = Append(@, s)]

ListsDownTo(res, f, m) ==
  /\ DOMAIN f = TotalPages - m .. TotalPages
  /\ \A s \in TotalPages - m .. TotalPages : f[s] = ListsAt(res, f, s)

\* The page behind what begins at s.
LEMMA NextPage ==
  ASSUME NEW res \in SUBSET Pages, NEW s \in Pages
  PROVE  /\ s + 1 \in s + 1 .. TotalPages /\ s # TotalPages
         /\ s \notin res => s + pow2[BlockOrder(res, s)] \in s + 1 .. TotalPages
<1>1. s \in Nat /\ s + 1 <= TotalPages /\ TotalPages \in Nat
  BY PageFramesAssumption DEF Pages
<1>2. ASSUME s \notin res
      PROVE  s + pow2[BlockOrder(res, s)] \in s + 1 .. TotalPages
  <2> DEFINE k == BlockOrder(res, s)
  <2>1. k \in Orders /\ s + pow2[k] <= TotalPages
    BY <1>2, BlockIs DEF Usable
  <2>2. pow2[k] \in Nat \ {0}
    BY <2>1, OrderTypes
  <2> HIDE DEF k
  <2>3. s + pow2[k] \in s + 1 .. TotalPages
    BY <2>1, <2>2, <1>1
  <2> QED
    BY <2>3 DEF k
<1> QED
  BY <1>1, <1>2

LEMMA ListsExist ==
  ASSUME NEW res \in SUBSET Pages, NEW m \in Nat, m <= TotalPages
  PROVE  \E f : ListsDownTo(res, f, m)
<1> SUFFICES ASSUME ~ \E f : ListsDownTo(res, f, m)
             PROVE  FALSE
  OBVIOUS
<1> DEFINE T == {k \in Nat : k <= TotalPages /\ ~ \E f : ListsDownTo(res, f, k)}
<1>1. m \in T /\ T \subseteq Nat
  OBVIOUS
<1>2. PICK k \in T : \A j \in T : k <= j
  BY <1>1, LeastNumber
<1>3. k # 0
  <2> DEFINE f == [s \in TotalPages .. TotalPages |-> NoBlocks]
  <2>1. TotalPages - 0 = TotalPages /\ \A s \in TotalPages .. TotalPages : s = TotalPages
    BY PageFramesAssumption
  <2>2. DOMAIN f = TotalPages .. TotalPages
    OBVIOUS
  <2>3. \A s \in TotalPages .. TotalPages : f[s] = NoBlocks /\ ListsAt(res, f, s) = NoBlocks
    BY <2>1 DEF ListsAt
  <2> HIDE DEF f
  <2>4. ListsDownTo(res, f, 0)
    BY <2>1, <2>2, <2>3 DEF ListsDownTo
  <2> QED
    BY <2>4, <1>2
<1>4. /\ k \in Nat /\ k - 1 \in Nat /\ k - 1 \notin T /\ k <= TotalPages /\ k - 1 <= TotalPages
      /\ TotalPages \in Nat
  BY <1>2, <1>3, PageFramesAssumption
<1>5. PICK f : ListsDownTo(res, f, k - 1)
  BY <1>4
<1> DEFINE t == TotalPages - k
           new == ListsAt(res, f, t)
           g == [s \in t .. TotalPages |-> IF s = t THEN new ELSE f[s]]
<1>6. t \in Pages /\ t + 1 = TotalPages - (k - 1) /\ t \in Nat
  BY <1>3, <1>4 DEF Pages
<1>7. /\ DOMAIN g = t .. TotalPages /\ g[t] = ListsAt(res, f, t)
      /\ \A s \in t + 1 .. TotalPages : g[s] = f[s]
  <2>1. t \in t .. TotalPages /\ \A s \in t + 1 .. TotalPages : s # t /\ s \in t .. TotalPages
    BY <1>4, <1>6
  <2> HIDE DEF t
  <2> QED
    BY <2>1
<1> HIDE DEF g, t
<1>8. ASSUME NEW s \in t .. TotalPages
      PROVE  g[s] = ListsAt(res, g, s)
  <2>1. ASSUME s \in Pages
        PROVE  /\ s + 1 \in t + 1 .. TotalPages /\ s # TotalPages
               /\ s \notin res => s + pow2[BlockOrder(res, s)] \in t + 1 .. TotalPages
    <3>1. \A x \in s + 1 .. TotalPages : x \in t + 1 .. TotalPages
      BY <1>4, <1>6, OrderTypes
    <3> QED
      BY <2>1, <3>1, NextPage
  <2>2. s = TotalPages \/ s \in Pages
    BY <1>4, <1>6 DEF Pages
  <2>3. ListsAt(res, g, s) = ListsAt(res, f, s)
    <3>1. CASE s = TotalPages
      BY <3>1 DEF ListsAt
    <3>2. CASE s \in Pages /\ s \in res
      BY <3>2, <2>1, <1>7 DEF ListsAt
    <3>3. CASE s \in Pages /\ s \notin res
      <4> DEFINE x == s + pow2[BlockOrder(res, s)]
      <4>1. g[x] = f[x]
        BY <3>3, <2>1, <1>7
      <4> QED
        BY <3>3, <4>1 DEF ListsAt
    <3> QED
      BY <2>2, <3>1, <3>2, <3>3
  <2>4. CASE s = t
    BY <2>3, <2>4, <1>7
  <2>5. CASE s # t
    <3>1. s \in t + 1 .. TotalPages
      BY <2>5, <1>4, <1>6
    <3>2. f[s] = ListsAt(res, f, s)
      BY <3>1, <1>5, <1>6 DEF ListsDownTo
    <3> QED
      BY <3>1, <3>2, <2>3, <1>7
  <2> QED
    BY <2>4, <2>5
<1>9. ListsDownTo(res, g, k)
  BY <1>7, <1>8 DEF ListsDownTo, t
<1> QED
  BY <1>2, <1>9

LEMMA ListsAre ==
  ASSUME NEW res \in SUBSET Pages, TotalPages - 1 \notin res \/ BeyondReserved
  PROVE  \E f : /\ BuddySystemInit(res) = f[0]
                /\ \A s \in 0 .. TotalPages : f[s] = ListsAt(res, f, s)
<1> DEFINE Body(f) ==
             [start \in 0 .. TotalPages |->
                IF start = TotalPages THEN NoBlocks
                ELSE IF IsReserved(res, start)
                THEN IF start + 1 < TotalPages \/ BeyondReserved THEN f[start + 1]
                     ELSE [NoBlocks EXCEPT ![BlockOrder(res, TotalPages)] = <<TotalPages>>]
                ELSE LET o == BlockOrder(res, start)
                     IN  [f[start + pow2[o]] EXCEPT ![o] = Append(@, start)]]
           from == CHOOSE f : f = Body(f)
<1>1. TotalPages \in Nat /\ TotalPages <= TotalPages /\ TotalPages - TotalPages = 0
      /\ 0 \in 0 .. TotalPages
  BY PageFramesAssumption
<1>2. ASSUME NEW f, NEW s \in 0 .. TotalPages
      PROVE  Body(f)[s] = ListsAt(res, f, s)
  <2>1. CASE s = TotalPages
    BY <2>1 DEF ListsAt
  <2>2. CASE s \in res
    <3>1. s \in Pages /\ s # TotalPages
      BY <2>2, OrderTypes
    <3>2. s + 1 < TotalPages \/ BeyondReserved
      <4> SUFFICES ASSUME ~(s + 1 < TotalPages)
                   PROVE  BeyondReserved
        OBVIOUS
      <4>1. s = TotalPages - 1
        BY <3>1, <1>1 DEF Pages
      <4> QED
        BY <4>1, <2>2
    <3> QED
      BY <2>2, <3>1, <3>2 DEF ListsAt, IsReserved
  <2>3. CASE s \notin res /\ s # TotalPages
    <3>1. s \in Pages
      BY <2>3, <1>1 DEF Pages
    <3>2. ~IsReserved(res, s)
      BY <2>3, <3>1 DEF IsReserved
    <3> QED
      BY <2>3, <3>2 DEF ListsAt
  <2> QED
    BY <2>1, <2>2, <2>3
<1>3. PICK f : ListsDownTo(res, f, TotalPages)
  BY <1>1, ListsExist
<1>4. DOMAIN f = 0 .. TotalPages /\ \A s \in 0 .. TotalPages : f[s] = ListsAt(res, f, s)
  BY <1>1, <1>3 DEF ListsDownTo
<1>5. \E g : g = Body(g)
  <2> DEFINE g == [s \in 0 .. TotalPages |-> f[s]]
  <2>1. \A s \in 0 .. TotalPages : g[s] = f[s]
    OBVIOUS
  <2>2. g = [s \in 0 .. TotalPages |-> g[s]] /\ DOMAIN g = 0 .. TotalPages
    OBVIOUS
  <2> HIDE DEF g
  <2>3. \A s \in 0 .. TotalPages : ListsAt(res, g, s) = ListsAt(res, f, s)
    <3> SUFFICES ASSUME NEW s \in 0 .. TotalPages
                 PROVE  ListsAt(res, g, s) = ListsAt(res, f, s)
      OBVIOUS
    <3>1. CASE s = TotalPages
      BY <3>1 DEF ListsAt
    <3>2. CASE s # TotalPages
      <4>1. s \in Pages
        BY <3>2, <1>1 DEF Pages
      <4>2. \A x \in s + 1 .. TotalPages : g[x] = f[x]
        BY <4>1, <1>1, <2>1, OrderTypes
      <4>3. CASE s \in res
        <5>1. g[s + 1] = f[s + 1]
          BY <4>1, <4>2, NextPage
        <5> QED
          BY <5>1, <4>3, <3>2 DEF ListsAt
      <4>4. CASE s \notin res
        <5> DEFINE x == s + pow2[BlockOrder(res, s)]
        <5>1. g[x] = f[x]
          BY <4>1, <4>2, <4>4, NextPage
        <5> QED
          BY <5>1, <4>4, <3>2 DEF ListsAt
      <4> QED
        BY <4>3, <4>4
    <3> QED
      BY <3>1, <3>2
  <2>4. \A s \in 0 .. TotalPages : g[s] = Body(g)[s]
    <3> HIDE DEF Body
    <3> QED
      BY <1>2, <1>4, <2>1, <2>3
  <2>5. Body(g) = [s \in 0 .. TotalPages |-> Body(g)[s]]
    OBVIOUS
  <2> HIDE DEF Body
  <2>6. g = Body(g)
    BY <2>2, <2>4, <2>5
  <2> QED
    BY <2>6
<1>6. from = Body(from)
  <2> HIDE DEF Body
  <2> QED
    BY <1>5
<1>7. BuddySystemInit(res) = from[0]
  BY DEF BuddySystemInit, ListsFrom
<1>8. \A s \in 0 .. TotalPages : from[s] = ListsAt(res, from, s)
  <2> HIDE DEF Body, from
  <2>1. \A s \in 0 .. TotalPages : from[s] = Body(from)[s]
    BY <1>6
  <2> QED
    BY <2>1, <1>2
<1> HIDE DEF from
<1> QED
  BY <1>7, <1>8

-----------------------------------------------------------------------------
(***************************************************************************)
(* What BuddySystemInit finds                                              *)
(***************************************************************************)
Covers(res, lists, start) ==
  \A x \in Usable(res) : start <= x =>
    \E p \in Pages, o \in Orders : FreeAt(lists, p, o) /\ x \in Span(p, o)

LEMMA NoBlocksAtTheEnd ==
  ASSUME NEW res \in SUBSET Pages
  PROVE  Blocks(res, NoBlocks, TotalPages) /\ Covers(res, NoBlocks, TotalPages)
<1>1. NoBlocks \in [Orders -> Seq(Pages)] /\ \A o \in Orders : DOMAIN NoBlocks[o] = {}
  BY DEF NoBlocks
<1>2. \A p \in Pages, o \in Orders : ~FreeAt(NoBlocks, p, o)
  BY <1>1 DEF FreeAt
<1>3. \A x \in Usable(res) : ~(TotalPages <= x)
  BY PageFramesAssumption DEF Usable, Pages
<1> QED
  BY <1>1, <1>2, <1>3 DEF Blocks, Covers

\* A list with one block more at its end.
LEMMA FreeAtAppend ==
  ASSUME NEW L \in [Orders -> Seq(Pages)], NEW k \in Orders, NEW s \in Pages
  PROVE  LET M == [L EXCEPT ![k] = Append(@, s)]
         IN  /\ M \in [Orders -> Seq(Pages)]
             /\ \A o \in Orders : o # k => M[o] = L[o]
             /\ M[k] = Append(L[k], s)
             /\ \A p \in Pages, o \in Orders :
                  FreeAt(M, p, o) <=> FreeAt(L, p, o) \/ (p = s /\ o = k)
<1> DEFINE M == [L EXCEPT ![k] = Append(@, s)]
<1>1. L[k] \in Seq(Pages) /\ Append(L[k], s) \in Seq(Pages)
  OBVIOUS
<1>2. M \in [Orders -> Seq(Pages)] /\ M[k] = Append(L[k], s)
      /\ \A o \in Orders : o # k => M[o] = L[o]
  BY <1>1
<1> HIDE DEF M
<1>3. /\ DOMAIN L[k] = 1 .. Len(L[k]) /\ Len(L[k]) \in Nat
      /\ DOMAIN M[k] = 1 .. Len(L[k]) + 1
      /\ \A i \in 1 .. Len(L[k]) : M[k][i] = L[k][i]
      /\ M[k][Len(L[k]) + 1] = s
  BY <1>1, <1>2
<1>4. ASSUME NEW p \in Pages
      PROVE  FreeAt(M, p, k) <=> FreeAt(L, p, k) \/ p = s
  <2>1. \A i \in 1 .. Len(L[k]) + 1 : i \in 1 .. Len(L[k]) \/ i = Len(L[k]) + 1
    BY <1>3
  <2>2. \A i \in 1 .. Len(L[k]) : i \in 1 .. Len(L[k]) + 1
    BY <1>3
  <2>3. Len(L[k]) + 1 \in 1 .. Len(L[k]) + 1
    BY <1>3
  <2> QED
    BY <2>1, <2>2, <2>3, <1>3 DEF FreeAt
<1>5. \A p \in Pages, o \in Orders : o # k => (FreeAt(M, p, o) <=> FreeAt(L, p, o))
  BY <1>2 DEF FreeAt
<1> QED
  BY <1>2, <1>4, <1>5 DEF M

LEMMA OneMoreBlock ==
  ASSUME NEW res \in SUBSET Pages, NEW s \in Usable(res), NEW k \in Orders,
         Aligned(s, k), Largest(res, s, k), Span(s, k) \subseteq Usable(res),
         NEW L, Blocks(res, L, s + pow2[k]), Covers(res, L, s + pow2[k])
  PROVE  LET M == [L EXCEPT ![k] = Append(@, s)]
         IN  Blocks(res, M, s) /\ Covers(res, M, s)
<1> DEFINE M == [L EXCEPT ![k] = Append(@, s)]
<1>1. s \in Pages /\ s \in Nat /\ pow2[k] \in Nat \ {0}
  BY OrderTypes DEF Usable
<1>2. L \in [Orders -> Seq(Pages)]
  BY DEF Blocks
<1>3. /\ M \in [Orders -> Seq(Pages)]
      /\ \A o \in Orders : o # k => M[o] = L[o]
      /\ M[k] = Append(L[k], s)
      /\ \A p \in Pages, o \in Orders :
           FreeAt(M, p, o) <=> FreeAt(L, p, o) \/ (p = s /\ o = k)
  BY <1>1, <1>2, FreeAtAppend
<1> HIDE DEF M
<1>4. \A p \in Pages, o \in Orders : FreeAt(L, p, o) =>
        /\ p \in Nat /\ s + pow2[k] <= p /\ Aligned(p, o) /\ Largest(res, p, o)
        /\ Span(p, o) \subseteq Usable(res)
  BY OrderTypes DEF Blocks
<1>5. ASSUME NEW o \in Orders, NEW i \in DOMAIN M[o], NEW j \in DOMAIN M[o], M[o][i] = M[o][j]
      PROVE  i = j
  <2>1. CASE o # k
    BY <2>1, <1>3, <1>5 DEF Blocks
  <2>2. CASE o = k
    <3> DEFINE n == Len(L[k])
    <3>1. /\ L[k] \in Seq(Pages) /\ n \in Nat /\ DOMAIN L[k] = 1 .. n
          /\ DOMAIN M[k] = 1 .. n + 1
          /\ \A x \in 1 .. n : M[k][x] = L[k][x]
          /\ M[k][n + 1] = s
      BY <1>2, <1>3
    <3>2. \A x \in 1 .. n : L[k][x] # s
      <4> SUFFICES ASSUME NEW x \in 1 .. n, L[k][x] = s
                   PROVE  FALSE
        OBVIOUS
      <4>1. FreeAt(L, s, k)
        BY <3>1 DEF FreeAt
      <4>2. s + pow2[k] <= s
        BY <4>1, <1>1, <1>4
      <4> QED
        BY <4>2, <1>1
    <3>3. \A x, y \in 1 .. n : L[k][x] = L[k][y] => x = y
      BY <3>1 DEF Blocks
    <3> HIDE DEF n
    <3>4. (i \in 1 .. n \/ i = n + 1) /\ (j \in 1 .. n \/ j = n + 1)
      BY <2>2, <3>1
    <3> QED
      BY <3>1, <3>2, <3>3, <3>4, <2>2, <1>5
  <2> QED
    BY <2>1, <2>2
<1>6. ASSUME NEW p \in Pages, NEW o \in Orders, FreeAt(M, p, o)
      PROVE  /\ s <= p /\ Aligned(p, o) /\ Largest(res, p, o)
             /\ Span(p, o) \subseteq Usable(res)
  <2>1. CASE FreeAt(L, p, o)
    BY <2>1, <1>1, <1>4
  <2>2. CASE p = s /\ o = k
    BY <2>2, <1>1
  <2> QED
    BY <2>1, <2>2, <1>3, <1>6
<1>7. ASSUME NEW p \in Pages, NEW o \in Orders, NEW x \in Pages,
             FreeAt(L, p, o), x \in Span(p, o), x \in Span(s, k)
      PROVE  FALSE
  <2>1. p \in Nat /\ s + pow2[k] <= p /\ pow2[o] \in Nat /\ x \in Nat
    BY <1>4, <1>7, OrderTypes
  <2>2. p <= x /\ x < s + pow2[k]
    BY <2>1, <1>1, <1>7 DEF Span
  <2> QED
    BY <2>1, <2>2, <1>1
<1>8. ASSUME NEW p \in Pages, NEW q \in Pages, NEW o \in Orders, NEW j \in Orders,
             NEW x \in Pages, FreeAt(M, p, o), FreeAt(M, q, j),
             x \in Span(p, o), x \in Span(q, j)
      PROVE  p = q /\ o = j
  <2>1. CASE FreeAt(L, p, o) /\ FreeAt(L, q, j)
    BY <2>1, <1>8 DEF Blocks
  <2>2. CASE ~FreeAt(L, p, o)
    <3>1. p = s /\ o = k
      BY <2>2, <1>3, <1>8
    <3> QED
      BY <3>1, <1>3, <1>7, <1>8
  <2>3. CASE ~FreeAt(L, q, j)
    <3>1. q = s /\ j = k
      BY <2>3, <1>3, <1>8
    <3> QED
      BY <3>1, <1>3, <1>7, <1>8
  <2> QED
    BY <2>1, <2>2, <2>3
<1>9. ASSUME NEW x \in Usable(res), s <= x
      PROVE  \E p \in Pages, o \in Orders : FreeAt(M, p, o) /\ x \in Span(p, o)
  <2>1. x \in Nat
    BY OrderTypes DEF Usable
  <2>2. CASE x < s + pow2[k]
    <3>1. x \in Span(s, k)
      BY <2>1, <2>2, <1>1, <1>9 DEF Span
    <3> QED
      BY <3>1, <1>1, <1>3
  <2>3. CASE s + pow2[k] <= x
    <3>1. PICK p \in Pages, o \in Orders : FreeAt(L, p, o) /\ x \in Span(p, o)
      BY <2>3 DEF Covers
    <3> QED
      BY <3>1, <1>3
  <2> QED
    BY <2>1, <2>2, <2>3, <1>1
<1>10. Blocks(res, M, s)
  BY <1>3, <1>5, <1>6, <1>8 DEF Blocks
<1>11. Covers(res, M, s)
  BY <1>9 DEF Covers
<1> QED
  BY <1>10, <1>11 DEF M

\* The lists of the initial state.
LEMMA InitialBlocks ==
  ASSUME NEW res \in SUBSET Pages, TotalPages - 1 \notin res \/ BeyondReserved
  PROVE  Blocks(res, BuddySystemInit(res), 0) /\ Covers(res, BuddySystemInit(res), 0)
<1>1. PICK f : /\ BuddySystemInit(res) = f[0]
               /\ \A s \in 0 .. TotalPages : f[s] = ListsAt(res, f, s)
  BY ListsAre
<1> DEFINE Good(s) == Blocks(res, f[s], s) /\ Covers(res, f[s], s)
           T == {d \in Nat : d <= TotalPages /\ ~Good(TotalPages - d)}
<1>2. TotalPages \in Nat /\ TotalPages <= TotalPages /\ TotalPages - TotalPages = 0
      /\ TotalPages - 0 = TotalPages /\ TotalPages \in 0 .. TotalPages
  BY PageFramesAssumption
<1>3. SUFFICES ASSUME ~Good(0)
               PROVE  FALSE
  BY <1>1
<1>4. TotalPages \in T /\ T \subseteq Nat
  BY <1>2, <1>3
<1>5. PICK d \in T : \A e \in T : d <= e
  BY <1>4, LeastNumber
<1> DEFINE s == TotalPages - d
<1>6. d # 0
  <2>1. f[TotalPages] = NoBlocks
    BY <1>1, <1>2 DEF ListsAt
  <2>2. Good(TotalPages)
    BY <2>1, NoBlocksAtTheEnd
  <2> HIDE DEF Good
  <2> QED
    BY <2>2, <1>2, <1>5
<1>7. s \in Pages /\ s \in 0 .. TotalPages /\ s \in Nat /\ ~Good(s)
  BY <1>2, <1>5, <1>6 DEF Pages
<1>8. ASSUME NEW x \in s + 1 .. TotalPages
      PROVE  Good(x)
  <2> SUFFICES ASSUME ~Good(x)
               PROVE  FALSE
    OBVIOUS
  <2> DEFINE e == TotalPages - x
  <2> HIDE DEF Good
  <2>1. e \in Nat /\ e < d /\ e <= TotalPages /\ TotalPages - e = x
    BY <1>2, <1>5, <1>7
  <2>2. e \in T
    BY <2>1
  <2> HIDE DEF e, T
  <2> QED
    BY <2>1, <2>2, <1>4, <1>5
<1> HIDE DEF s, T
<1>9. f[s] = ListsAt(res, f, s) /\ s # TotalPages
  BY <1>1, <1>7, NextPage
<1>10. CASE s \in res
  <2>1. f[s] = f[s + 1] /\ Good(s + 1)
    <3> HIDE DEF Good
    <3> QED
      BY <1>7, <1>8, <1>9, <1>10, NextPage DEF ListsAt
  <2>2. \A x \in Usable(res) : s <= x => s + 1 <= x
    <3> SUFFICES ASSUME NEW x \in Usable(res), s <= x
                 PROVE  s + 1 <= x
      OBVIOUS
    <3>1. x \in Nat /\ x # s
      BY <1>10, OrderTypes DEF Usable
    <3> QED
      BY <3>1, <1>7
  <2>3. Covers(res, f[s], s)
    BY <2>1, <2>2 DEF Covers
  <2>4. \A p \in Pages : s + 1 <= p => s <= p
    BY <1>7, OrderTypes
  <2>5. Blocks(res, f[s], s)
    BY <2>1, <2>4 DEF Blocks
  <2> QED
    BY <2>3, <2>5, <1>7
<1>11. CASE s \notin res
  <2> DEFINE k == BlockOrder(res, s)
  <2>1. s \in Usable(res)
    BY <1>7, <1>11 DEF Usable
  <2>2. k \in Orders /\ Aligned(s, k) /\ Largest(res, s, k) /\ Span(s, k) \subseteq Usable(res)
    BY <2>1, BlockIs
  <2>3. f[s] = [f[s + pow2[k]] EXCEPT ![k] = Append(@, s)]
    BY <1>9, <1>11 DEF ListsAt
  <2>4. s + pow2[k] \in s + 1 .. TotalPages
    BY <1>7, <1>11, NextPage
  <2> HIDE DEF k
  <2>5. Good(s + pow2[k])
    <3> HIDE DEF Good
    <3> QED
      BY <2>4, <1>8
  <2> DEFINE L == f[s + pow2[k]]
             M == [L EXCEPT ![k] = Append(@, s)]
  <2>6. Blocks(res, L, s + pow2[k]) /\ Covers(res, L, s + pow2[k]) /\ f[s] = M
    BY <2>3, <2>5
  <2> HIDE DEF L
  <2>7. Blocks(res, M, s) /\ Covers(res, M, s)
    BY <2>1, <2>2, <2>6, OneMoreBlock
  <2> HIDE DEF M
  <2>8. Blocks(res, f[s], s) /\ Covers(res, f[s], s)
    BY <2>6, <2>7
  <2> QED
    BY <2>8, <1>7
<1> QED
  BY <1>10, <1>11

-----------------------------------------------------------------------------
(***************************************************************************)
(* AllocatePageFrames                                                      *)
(***************************************************************************)

\* The lists, with the front of order "from" split down to order k.
Cut(L, from, k) ==
  LET id == Head(L[from])
  IN  [j \in Orders |-> IF j = k THEN IF k = from THEN L[from] ELSE <<id, id + pow2[k]>>
                        ELSE IF j \in k + 1 .. from - 1 THEN <<id + pow2[j]>>
                        ELSE IF j = from THEN Tail(L[from])
                        ELSE L[j]]

\* What is left when the block is taken from them.
Rest(L, from, o) ==
  [j \in Orders |-> IF j \in o .. from - 1 THEN <<Head(L[from]) + pow2[j]>>
                    ELSE IF j = from THEN Tail(L[from])
                    ELSE L[j]]

\* Order "from" is the least that has a block large enough for order o.
Least(L, from, o) ==
  /\ L \in [Orders -> Seq(Pages)] /\ from \in Orders /\ o \in Orders /\ o <= from
  /\ L[from] # <<>>
  /\ \A j \in o .. from - 1 : L[j] = <<>>

LEMMA LeastOrders ==
  ASSUME NEW L, NEW from, NEW o, Least(L, from, o)
  PROVE  /\ from \in Nat /\ o \in Nat /\ L[from] \in Seq(Pages) /\ Head(L[from]) \in Pages
         /\ Tail(L[from]) \in Seq(Pages)
         /\ \A j \in o .. from : j \in Orders /\ j \in Nat /\ pow2[j] \in Nat \ {0}
<1>1. from \in Nat /\ o \in Nat /\ from \in 0 .. PAGE_FRAME_MAX_ORDER
      /\ PAGE_FRAME_MAX_ORDER \in Nat
  BY OrderTypes, PageFramesAssumption DEF Least, Orders
<1>2. L[from] \in Seq(Pages) /\ L[from] # <<>>
  BY DEF Least
<1>3. \A j \in o .. from : j \in Orders /\ j \in Nat
  BY <1>1 DEF Orders
<1> QED
  BY <1>1, <1>2, <1>3, OrderTypes

LEMMA TwoInFront ==
  ASSUME NEW a, NEW b
  PROVE  /\ <<a>> \o (<<b>> \o <<>>) = <<a, b>>
         /\ Head(<<a, b>>) = a /\ Tail(<<a, b>>) = <<b>>
<1> DEFINE s == <<a>> \o <<b>>
<1>1. <<b>> \o <<>> = <<b>>
  OBVIOUS
<1>2. s \in Seq({a, b}) /\ Len(s) = 2 /\ s[1] = a /\ s[2] = b
  <2>1. <<a>> \in Seq({a, b}) /\ <<b>> \in Seq({a, b})
    OBVIOUS
  <2>2. Len(<<a>>) = 1 /\ Len(<<b>>) = 1 /\ <<a>>[1] = a /\ <<b>>[1] = b
    OBVIOUS
  <2> QED
    BY <2>1, <2>2
<1> HIDE DEF s
<1>3. s = <<a, b>>
  BY <1>2
<1>4. Head(<<a, b>>) = a
  OBVIOUS
<1>5. Tail(<<a, b>>) = <<b>>
  OBVIOUS
<1> QED
  BY <1>1, <1>3, <1>4, <1>5 DEF s

LEMMA CutStep ==
  ASSUME NEW L, NEW from, NEW o, Least(L, from, o), NEW k \in o .. from - 1
  PROVE  Split(Cut(L, from, k + 1), k + 1) = Cut(L, from, k)
<1> DEFINE id == Head(L[from])
           C  == Cut(L, from, k + 1)
           D  == Cut(L, from, k)
           up == id + pow2[k]
<1>1. /\ from \in Nat /\ o \in Nat /\ id \in Pages /\ from \in Orders
      /\ \A j \in o .. from : j \in Orders /\ j \in Nat
  BY LeastOrders DEF Least
<1>2. /\ k \in Nat /\ k < from /\ k \in Orders /\ k + 1 \in Orders /\ k + 1 \in Nat
      /\ k + 1 <= from /\ (k + 1) - 1 = k /\ k # k + 1 /\ k # from
      /\ k \notin k + 1 + 1 .. from - 1 /\ k + 1 \notin k + 1 + 1 .. from - 1
  <2>1. k \in o .. from /\ k + 1 \in o .. from
    BY <1>1
  <2> QED
    BY <2>1, <1>1
<1>3. L[k] = <<>>
  BY DEF Least
<1> HIDE DEF id
<1>4. C[k] = <<>>
  BY <1>2, <1>3 DEF Cut
<1>5. C[k + 1] = IF k + 1 = from THEN L[from] ELSE <<id, id + pow2[k + 1]>>
  BY <1>2 DEF Cut, id
<1>6. Head(C[k + 1]) = id
  BY <1>5, TwoInFront DEF id
<1>7. Tail(C[k + 1]) = IF k + 1 = from THEN Tail(L[from]) ELSE <<id + pow2[k + 1]>>
  BY <1>5, TwoInFront
<1>8. DOMAIN C = Orders /\ DOMAIN D = Orders /\ D = [j \in Orders |-> D[j]]
  BY DEF Cut
<1>9. \A j \in Orders \ {k, k + 1} : C[j] = D[j]
  <2> SUFFICES ASSUME NEW j \in Orders, j # k, j # k + 1
               PROVE  C[j] = D[j]
    OBVIOUS
  <2>1. j \in Nat /\ (j \in k + 1 .. from - 1 <=> j \in k + 1 + 1 .. from - 1)
    BY <1>1, <1>2, OrderTypes
  <2> QED
    BY <2>1 DEF Cut
<1>10. D[k] = <<id, up>>
  BY <1>2 DEF Cut, id
<1>11. D[k + 1] = IF k + 1 = from THEN Tail(L[from]) ELSE <<id + pow2[k + 1]>>
  <2>1. k + 1 # from => k + 1 \in k + 1 .. from - 1
    BY <1>1, <1>2
  <2>2. k + 1 = from => k + 1 \notin k + 1 .. from - 1
    BY <1>1, <1>2
  <2> QED
    BY <2>1, <2>2, <1>2 DEF Cut, id
<1> DEFINE R1 == [C EXCEPT ![k + 1] = Tail(@)]
           R2 == [R1 EXCEPT ![k] = <<up>> \o @]
           R3 == [R2 EXCEPT ![k] = <<id>> \o @]
<1>12. Split(C, k + 1) = R3
  BY <1>2, <1>6 DEF Split, DeleteFromPageFrameOrder, AddToPageFrameOrder
<1> HIDE DEF C, D
<1>13. /\ DOMAIN R1 = Orders /\ R1[k + 1] = Tail(C[k + 1]) /\ R1[k] = <<>>
       /\ \A j \in Orders \ {k, k + 1} : R1[j] = C[j]
  BY <1>2, <1>4, <1>8
<1> HIDE DEF R1
<1>14. /\ DOMAIN R2 = Orders /\ R2[k + 1] = R1[k + 1] /\ R2[k] = <<up>> \o <<>>
       /\ \A j \in Orders \ {k, k + 1} : R2[j] = R1[j]
  BY <1>2, <1>13
<1> HIDE DEF R2
<1>15. /\ DOMAIN R3 = Orders /\ R3[k + 1] = R2[k + 1] /\ R3[k] = <<id>> \o (<<up>> \o <<>>)
       /\ \A j \in Orders \ {k, k + 1} : R3[j] = R2[j]
       /\ R3 = [j \in Orders |-> R3[j]]
  BY <1>2, <1>14
<1> HIDE DEF R3, up
<1>16. R3[k] = <<id, up>>
  BY <1>15, TwoInFront
<1>17. \A j \in Orders : R3[j] = D[j]
  <2> SUFFICES ASSUME NEW j \in Orders
               PROVE  R3[j] = D[j]
    OBVIOUS
  <2>1. CASE j = k
    BY <2>1, <1>10, <1>16
  <2>2. CASE j = k + 1
    BY <2>2, <1>7, <1>11, <1>13, <1>14, <1>15
  <2>3. CASE j # k /\ j # k + 1
    BY <2>3, <1>9, <1>13, <1>14, <1>15
  <2> QED
    BY <2>1, <2>2, <2>3
<1>18. R3 = D
  BY <1>8, <1>15, <1>17
<1> QED
  BY <1>12, <1>18 DEF C, D

LEMMA SplitDownIs ==
  ASSUME NEW L, NEW from, NEW o, Least(L, from, o)
  PROVE  SplitDownTo(L, o) = Cut(L, from, o)
<1>1. /\ from \in Nat /\ o \in Nat /\ from \in Orders /\ o \in Orders /\ o <= from
      /\ L \in [Orders -> Seq(Pages)]
  BY LeastOrders DEF Least
<1> DEFINE Q     == Candidates(L, o)
           least == CHOOSE k \in Q : \A j \in Q : k <= j
<1>2. least = from
  <2>1. Q \subseteq Nat
    BY OrderTypes DEF Candidates
  <2>2. from \in Q
    BY <1>1 DEF Candidates, Least
  <2>3. \A j \in Q : from <= j
    <3> SUFFICES ASSUME NEW j \in Q, j < from
                 PROVE  FALSE
      BY <2>1, <1>1
    <3>1. j \in o .. from - 1 /\ L[j] # <<>>
      BY <2>1, <1>1 DEF Candidates
    <3> QED
      BY <3>1 DEF Least
  <2>4. least \in Q /\ \A j \in Q : least <= j
    <3> HIDE DEF Q
    <3> QED
      BY <2>2, <2>3
  <2> HIDE DEF least, Q
  <2> QED
    BY <2>1, <2>2, <2>3, <2>4
<1> DEFINE Body(f) == [k \in o .. from |-> IF k = from THEN L ELSE Split(f[k + 1], k + 1)]
           w       == [k \in o .. from |-> Cut(L, from, k)]
           down    == CHOOSE f : f = Body(f)
<1>3. SplitDownTo(L, o) = down[o]
  <2> DEFINE dn[k \in o .. least] == IF k = least THEN L ELSE Split(dn[k + 1], k + 1)
  <2>1. SplitDownTo(L, o) = dn[o]
    BY DEF SplitDownTo, Q, least
  <2>2. dn[o] = down[o]
    <3> HIDE DEF least
    <3> QED
      BY <1>2
  <2> QED
    BY <2>1, <2>2
<1> HIDE DEF least, Q
<1>4. \A k \in o .. from : k \in Nat /\ (k # from => k \in o .. from - 1 /\ k + 1 \in o .. from)
  BY <1>1
<1>5. Cut(L, from, from) = L
  <2>1. from + 1 .. from - 1 = {}
    BY <1>1
  <2>2. L = [j \in Orders |-> L[j]]
    BY <1>1
  <2>3. \A j \in Orders : Cut(L, from, from)[j] = L[j]
    BY <2>1 DEF Cut
  <2>4. Cut(L, from, from) = [j \in Orders |-> Cut(L, from, from)[j]]
    BY DEF Cut
  <2> QED
    BY <2>2, <2>3, <2>4
<1>6. \A k \in o .. from - 1 : Split(Cut(L, from, k + 1), k + 1) = Cut(L, from, k)
  BY CutStep
<1>7. w = Body(w)
  <2>1. ASSUME NEW k \in o .. from
        PROVE  w[k] = IF k = from THEN L ELSE Split(w[k + 1], k + 1)
    <3>1. CASE k = from
      BY <3>1, <1>5
    <3>2. CASE k # from
      <4>1. k + 1 \in o .. from /\ k \in o .. from - 1
        BY <3>2, <1>4
      <4>2. w[k + 1] = Cut(L, from, k + 1) /\ w[k] = Cut(L, from, k)
        BY <4>1
      <4> HIDE DEF w
      <4> QED
        BY <3>2, <4>1, <4>2, <1>6
    <3> QED
      BY <3>1, <3>2
  <2>2. w = [k \in o .. from |-> w[k]]
    OBVIOUS
  <2> HIDE DEF w
  <2> QED
    BY <2>1, <2>2
<1>8. down = Body(down)
  <2> HIDE DEF w, Body
  <2> QED
    BY <1>7
<1> HIDE DEF down
<1>9. down[from] = L
  BY <1>1, <1>8
<1>10. \A k \in o .. from - 1 : down[k] = Split(down[k + 1], k + 1)
  BY <1>1, <1>8
<1>11. down[o] = Cut(L, from, o)
  <2> DEFINE T == {d \in Nat : o <= from - d /\ down[from - d] # Cut(L, from, from - d)}
  <2> SUFFICES ASSUME down[o] # Cut(L, from, o)
               PROVE  FALSE
    OBVIOUS
  <2>1. from - o \in T /\ T \subseteq Nat
    <3>1. from - o \in Nat /\ from - (from - o) = o
      BY <1>1
    <3> QED
      BY <3>1, <1>1
  <2>2. PICK d \in T : \A e \in T : d <= e
    BY <2>1, LeastNumber
  <2>3. d # 0
    <3>1. from - 0 = from
      BY <1>1
    <3> QED
      BY <2>2, <3>1, <1>5, <1>9
  <2> DEFINE k == from - d
  <2>4. /\ d - 1 \in Nat /\ d - 1 \notin T /\ k \in o .. from - 1 /\ from - (d - 1) = k + 1
        /\ o <= k + 1
    BY <2>2, <2>3, <1>1
  <2>5. down[k + 1] = Cut(L, from, k + 1)
    BY <2>4
  <2>6. down[k] # Cut(L, from, k)
    BY <2>2
  <2> HIDE DEF k
  <2> QED
    BY <2>4, <2>5, <2>6, <1>6, <1>10
<1> QED
  BY <1>3, <1>11

\* The lists afterwards, and the block that was taken.
LEMMA TakesTheFront ==
  ASSUME NEW L, NEW from, NEW o, Least(L, from, o)
  PROVE  /\ DeleteFromPageFrameOrder(SplitDownTo(L, o), o) = Rest(L, from, o)
         /\ Head(SplitDownTo(L, o)[o]) = Head(L[from])
<1> DEFINE id == Head(L[from])
           C  == Cut(L, from, o)
           R  == Rest(L, from, o)
           X  == [C EXCEPT ![o] = Tail(@)]
<1>1. /\ from \in Nat /\ o \in Nat /\ from \in Orders /\ o \in Orders /\ o <= from
  BY LeastOrders DEF Least
<1>2. C[o] = IF o = from THEN L[from] ELSE <<id, id + pow2[o]>>
  BY <1>1 DEF Cut
<1>3. Head(C[o]) = id /\ Tail(C[o]) = IF o = from THEN Tail(L[from]) ELSE <<id + pow2[o]>>
  <2> HIDE DEF C
  <2> QED
    BY <1>2, TwoInFront
<1>4. R[o] = Tail(C[o])
  <2>1. (o \in o .. from - 1) <=> (o # from)
    BY <1>1
  <2>2. R[o] = IF o # from THEN <<id + pow2[o]>> ELSE Tail(L[from])
    BY <2>1, <1>1 DEF Rest
  <2> HIDE DEF R, C
  <2> QED
    BY <2>2, <1>3
<1>5. \A j \in Orders \ {o} : C[j] = R[j]
  <2> SUFFICES ASSUME NEW j \in Orders, j # o
               PROVE  C[j] = R[j]
    OBVIOUS
  <2>1. j \in o + 1 .. from - 1 <=> j \in o .. from - 1
    BY <1>1, OrderTypes
  <2> QED
    BY <2>1 DEF Cut, Rest
<1>6. DOMAIN C = Orders /\ R = [j \in Orders |-> R[j]]
  BY DEF Cut, Rest
<1> HIDE DEF C, R
<1>7. X = [j \in Orders |-> X[j]] /\ X[o] = Tail(C[o]) /\ \A j \in Orders \ {o} : X[j] = C[j]
  BY <1>1, <1>6
<1> HIDE DEF X
<1>8. \A j \in Orders : X[j] = R[j]
  BY <1>4, <1>5, <1>7
<1>9. X = R
  BY <1>6, <1>7, <1>8
<1>10. SplitDownTo(L, o) = C
  BY SplitDownIs DEF C
<1>11. DeleteFromPageFrameOrder(C, o) = X
  BY DEF DeleteFromPageFrameOrder, X
<1> QED
  BY <1>3, <1>9, <1>10, <1>11 DEF R, id

-----------------------------------------------------------------------------
(***************************************************************************)
(* The halves that are left of a block                                     *)
(***************************************************************************)
LEMMA UpperHalf ==
  ASSUME NEW id \in Nat, NEW from \in Nat, Aligned(id, from), NEW j \in Nat, j < from
  PROVE  /\ Aligned(id + pow2[j], j)
         /\ \A o \in Nat : o > j => ~Aligned(id + pow2[j], o)
         /\ 2 * pow2[j] <= pow2[from]
<1> DEFINE x == pow2[j]
<1>1. x \in Nat \ {0} /\ pow2[j + 1] = 2 * x /\ j + 1 \in Nat /\ j + 1 <= from
  BY PowersOfTwo
<1>2. 2 * x <= pow2[from]
  BY PowersGrow
<1>3. Aligned(id, j + 1)
  BY <1>1, AlignedBelow
<1>4. PICK q \in Nat : id = q * pow2[j + 1]
  BY <1>3 DEF Aligned
<1>5. id = q * (2 * x)
  BY <1>1, <1>4
<1> HIDE DEF x
<1>6. q * (2 * x) = (2 * q) * x
  BY <1>1
<1>7. id + x = (2 * q + 1) * x /\ 2 * q + 1 \in Nat
  BY <1>1, <1>5, <1>6
<1>8. ASSUME NEW o \in Nat, o > j, Aligned(id + x, o)
      PROVE  FALSE
  <2>1. id + x \in Nat /\ j + 1 <= o
    BY <1>1, <1>8
  <2>2. Aligned(id + x, j + 1)
    BY <1>1, <1>8, <2>1, AlignedBelow
  <2>3. PICK r \in Nat : id + x = r * pow2[j + 1]
    BY <2>2 DEF Aligned
  <2>4. r * (2 * x) = (2 * r) * x /\ 2 * r \in Nat
    BY <1>1
  <2> DEFINE a == 2 * q + 1
             b == 2 * r
  <2>5. a \in Nat /\ b \in Nat /\ a * x = b * x /\ a # b
    BY <1>1, <1>7, <2>3, <2>4
  <2> HIDE DEF a, b
  <2>6. (a * x) \div x = a /\ (b * x) \div x = b
    BY <2>5, <1>1, MultipleDivides
  <2> QED
    BY <2>5, <2>6
<1> QED
  BY <1>2, <1>7, <1>8 DEF Aligned, x

\* Where a page of the block lies: in the part that is taken, or in one half.
LEMMA Halves ==
  ASSUME NEW id \in Nat, NEW from \in Nat, NEW o \in Nat, o <= from, NEW x \in Nat
  PROVE  /\ x \in Span(id, from) /\ x \notin Span(id, o) =>
              \E j \in o .. from - 1 : x \in Span(id + pow2[j], j)
         /\ x \in Span(id, o) => x \in Span(id, from)
         /\ \A j \in o .. from - 1 : x \in Span(id + pow2[j], j) =>
              x \in Span(id, from) /\ x \notin Span(id, o)
         /\ \A j, k \in o .. from - 1 :
              x \in Span(id + pow2[j], j) /\ x \in Span(id + pow2[k], k) => j = k
<1>1. \A j \in Nat : pow2[j] \in Nat \ {0} /\ pow2[j + 1] = 2 * pow2[j]
  BY PowersOfTwo
<1>2. pow2[o] <= pow2[from]
  BY PowersGrow
<1>3. ASSUME NEW j \in o .. from - 1, x \in Span(id + pow2[j], j)
      PROVE  /\ j \in Nat /\ pow2[j] <= x - id /\ x - id < 2 * pow2[j] /\ id <= x
             /\ x \in Span(id, from) /\ x \notin Span(id, o)
  <2>1. j \in Nat /\ o <= j /\ j < from
    OBVIOUS
  <2>2. pow2[o] <= pow2[j] /\ 2 * pow2[j] <= pow2[from]
    BY <2>1, PowersGrow
  <2>3. pow2[j] \in Nat \ {0} /\ pow2[o] \in Nat \ {0} /\ pow2[from] \in Nat \ {0}
    BY <2>1, <1>1
  <2> DEFINE a == pow2[j]
             b == pow2[o]
             c == pow2[from]
  <2>4. x \in id + a .. id + a + a - 1 /\ b <= a /\ 2 * a <= c
        /\ a \in Nat \ {0} /\ b \in Nat \ {0} /\ c \in Nat \ {0}
    BY <1>3, <2>2, <2>3 DEF Span
  <2> HIDE DEF a, b, c
  <2>5. /\ a <= x - id /\ x - id < 2 * a /\ id <= x
        /\ x \in id .. id + c - 1 /\ x \notin id .. id + b - 1
    BY <2>4
  <2> QED
    BY <2>1, <2>5 DEF a, b, c, Span
<1>4. ASSUME NEW j \in o .. from - 1, NEW k \in o .. from - 1, j < k,
             x \in Span(id + pow2[j], j), x \in Span(id + pow2[k], k)
      PROVE  FALSE
  <2>1. /\ x - id < 2 * pow2[j] /\ pow2[k] <= x - id /\ id <= x /\ j \in Nat /\ k \in Nat
    BY <1>3, <1>4
  <2>2. 2 * pow2[j] <= pow2[k]
    BY <2>1, <1>4, PowersGrow
  <2>3. pow2[j] \in Nat /\ pow2[k] \in Nat /\ x - id \in Int
    BY <1>1, <2>1
  <2> QED
    BY <2>1, <2>2, <2>3
<1>5. \A j, k \in o .. from - 1 :
         x \in Span(id + pow2[j], j) /\ x \in Span(id + pow2[k], k) => j = k
  <2> SUFFICES ASSUME NEW j \in o .. from - 1, NEW k \in o .. from - 1, j # k,
                      x \in Span(id + pow2[j], j), x \in Span(id + pow2[k], k)
               PROVE  FALSE
    OBVIOUS
  <2>1. j < k \/ k < j
    OBVIOUS
  <2> QED
    BY <2>1, <1>4
<1>6. ASSUME x \in Span(id, from), x \notin Span(id, o)
      PROVE  \E j \in o .. from - 1 : x \in Span(id + pow2[j], j)
  <2> DEFINE n == x - id
             b == pow2[o]
             c == pow2[from]
  <2>1. b \in Nat \ {0} /\ c \in Nat \ {0} /\ x \in id .. id + c - 1 /\ x \notin id .. id + b - 1
    BY <1>1, <1>6 DEF Span
  <2> HIDE DEF b, c
  <2>2. n \in Nat \ {0} /\ b <= n /\ n < c /\ x = id + n
    BY <2>1
  <2> HIDE DEF n
  <2>3. PICK j \in 0 .. n : pow2[j] <= n /\ n < pow2[j + 1]
    BY <2>2, LogExists
  <2>4. j \in Nat /\ pow2[j] \in Nat /\ pow2[j + 1] = 2 * pow2[j]
    BY <1>1, <2>2, <2>3
  <2>5. o <= j
    <3> SUFFICES ASSUME j < o
                 PROVE  FALSE
      BY <2>4
    <3>1. 2 * pow2[j] <= b
      BY <2>4, PowersGrow DEF b
    <3> QED
      BY <3>1, <2>1, <2>2, <2>3, <2>4
  <2>6. j < from
    <3> SUFFICES ASSUME from <= j
                 PROVE  FALSE
      BY <2>4
    <3>1. c <= pow2[j]
      BY <2>4, PowersGrow DEF c
    <3> QED
      BY <3>1, <2>1, <2>2, <2>3, <2>4
  <2>7. j \in o .. from - 1
    BY <2>4, <2>5, <2>6
  <2> DEFINE a == pow2[j]
  <2>8. a \in Nat /\ a <= n /\ n < 2 * a
    BY <2>3, <2>4
  <2> HIDE DEF a
  <2>9. x \in id + a .. id + a + a - 1
    BY <2>2, <2>8
  <2> QED
    BY <2>7, <2>9 DEF Span, a
<1>7. x \in Span(id, o) => x \in Span(id, from)
  <2> DEFINE b == pow2[o]
             c == pow2[from]
  <2>1. b \in Nat \ {0} /\ c \in Nat \ {0} /\ b <= c
    BY <1>1, <1>2
  <2> HIDE DEF b, c
  <2>2. x \in id .. id + b - 1 => x \in id .. id + c - 1
    BY <2>1
  <2> QED
    BY <2>2 DEF Span, b, c
<1> QED
  BY <1>3, <1>5, <1>6, <1>7

\* The block that is split, and what is free afterwards.
LEMMA FrontIs ==
  ASSUME NEW res \in SUBSET Pages, NEW L, Blocks(res, L, 0),
         NEW from, NEW o, Least(L, from, o)
  PROVE  LET id == Head(L[from])
         IN  /\ id \in Pages /\ id \in Nat /\ FreeAt(L, id, from) /\ Aligned(id, from)
             /\ Span(id, from) \subseteq Usable(res)
             /\ \A p \in Pages, x \in Pages, j \in Orders :
                  FreeAt(L, p, j) /\ x \in Span(p, j) /\ x \in Span(id, from)
                    => p = id /\ j = from
             /\ \A i \in DOMAIN Tail(L[from]) : Tail(L[from])[i] # id
             /\ \A i, j \in DOMAIN Tail(L[from]) :
                  Tail(L[from])[i] = Tail(L[from])[j] => i = j
             /\ \A p \in Pages : (\E i \in DOMAIN Tail(L[from]) : Tail(L[from])[i] = p)
                                   <=> FreeAt(L, p, from) /\ p # id
<1> DEFINE id == Head(L[from])
           s  == L[from]
           t  == Tail(s)
           n  == Len(s)
<1>1. /\ from \in Orders /\ s \in Seq(Pages) /\ s # <<>> /\ id \in Pages /\ id \in Nat
  BY LeastOrders, OrderTypes DEF Least
<1>2. n \in Nat /\ n # 0 /\ DOMAIN s = 1 .. n /\ id = s[1] /\ 1 \in 1 .. n
  BY <1>1
<1>3. \A i, j \in DOMAIN s : s[i] = s[j] => i = j
  BY <1>1 DEF Blocks
<1>4. /\ t \in Seq(Pages) /\ DOMAIN t = 1 .. n - 1
      /\ \A i \in 1 .. n - 1 : t[i] = s[i + 1]
  BY <1>1, <1>2
<1>5. FreeAt(L, id, from)
  BY <1>2 DEF FreeAt
<1>6. Aligned(id, from) /\ Span(id, from) \subseteq Usable(res)
  BY <1>1, <1>5 DEF Blocks
<1>7. \A p \in Pages, x \in Pages, j \in Orders :
        FreeAt(L, p, j) /\ x \in Span(p, j) /\ x \in Span(id, from) => p = id /\ j = from
  BY <1>1, <1>5 DEF Blocks
<1>8. \A p \in Pages : FreeAt(L, p, from) <=> \E i \in 1 .. n : s[i] = p
  BY <1>2 DEF FreeAt
<1> HIDE DEF id, s, t, n
<1>9. \A i \in 1 .. n - 1 : i + 1 \in 1 .. n /\ i + 1 # 1
  BY <1>2
<1>10. \A i \in DOMAIN t : t[i] # id
  BY <1>2, <1>3, <1>4, <1>9
<1>11. \A i, j \in DOMAIN t : t[i] = t[j] => i = j
  <2> SUFFICES ASSUME NEW i \in 1 .. n - 1, NEW j \in 1 .. n - 1, t[i] = t[j]
               PROVE  i = j
    BY <1>4
  <2>1. i + 1 = j + 1
    BY <1>2, <1>3, <1>4, <1>9
  <2> QED
    BY <2>1
<1>12. ASSUME NEW p \in Pages
       PROVE  (\E i \in DOMAIN t : t[i] = p) <=> FreeAt(L, p, from) /\ p # id
  <2>1. ASSUME NEW i \in DOMAIN t, t[i] = p
        PROVE  FreeAt(L, p, from) /\ p # id
    BY <2>1, <1>4, <1>8, <1>9, <1>10
  <2>2. ASSUME FreeAt(L, p, from), p # id
        PROVE  \E i \in DOMAIN t : t[i] = p
    <3>1. PICK i \in 1 .. n : s[i] = p
      BY <2>2, <1>8
    <3>2. i # 1
      BY <3>1, <2>2, <1>2
    <3>3. i - 1 \in 1 .. n - 1 /\ (i - 1) + 1 = i
      BY <3>2, <1>2
    <3> QED
      BY <3>1, <3>3, <1>4
  <2> QED
    BY <2>1, <2>2
<1> QED
  BY <1>1, <1>5, <1>6, <1>7, <1>10, <1>11, <1>12 DEF id, t, s

LEMMA RestFree ==
  ASSUME NEW res \in SUBSET Pages, NEW L, Blocks(res, L, 0),
         NEW from, NEW o, Least(L, from, o)
  PROVE  LET id == Head(L[from])
             R  == Rest(L, from, o)
         IN  /\ R \in [Orders -> Seq(Pages)]
             /\ \A p \in Pages, j \in Orders :
                  FreeAt(R, p, j) <=> \/ j \in o .. from - 1 /\ p = id + pow2[j]
                                      \/ FreeAt(L, p, j) /\ ~(p = id /\ j = from)
             /\ \A j \in Orders : \A x, y \in DOMAIN R[j] : R[j][x] = R[j][y] => x = y
             /\ \A j \in o .. from - 1 : id + pow2[j] \in Pages
<1> DEFINE id == Head(L[from])
           R  == Rest(L, from, o)
           t  == Tail(L[from])
<1>1. /\ from \in Orders /\ from \in Nat /\ o \in Nat /\ L \in [Orders -> Seq(Pages)]
      /\ t \in Seq(Pages) /\ o <= from
      /\ \A j \in o .. from : j \in Orders /\ j \in Nat /\ pow2[j] \in Nat \ {0}
      /\ \A j \in o .. from - 1 : L[j] = <<>>
  BY LeastOrders DEF Least
<1>2. /\ id \in Pages /\ id \in Nat /\ Aligned(id, from)
      /\ Span(id, from) \subseteq Usable(res)
      /\ \A i \in DOMAIN t : t[i] # id
      /\ \A i, j \in DOMAIN t : t[i] = t[j] => i = j
      /\ \A p \in Pages : (\E i \in DOMAIN t : t[i] = p) <=> FreeAt(L, p, from) /\ p # id
  BY FrontIs
<1>3. /\ R = [j \in Orders |-> R[j]]
      /\ \A j \in o .. from - 1 : R[j] = <<id + pow2[j]>>
      /\ R[from] = t
      /\ \A j \in Orders : j \notin o .. from - 1 /\ j # from => R[j] = L[j]
  <2>1. R = [j \in Orders |-> IF j \in o .. from - 1 THEN <<id + pow2[j]>>
                              ELSE IF j = from THEN t ELSE L[j]]
    BY DEF Rest
  <2> HIDE DEF R, id, t
  <2>2. \A j \in Orders : R[j] = IF j \in o .. from - 1 THEN <<id + pow2[j]>>
                                ELSE IF j = from THEN t ELSE L[j]
    BY <2>1
  <2>3. from \notin o .. from - 1 /\ \A j \in o .. from - 1 : j \in Orders
    BY <1>1
  <2> QED
    BY <2>1, <2>2, <2>3, <1>1
<1> HIDE DEF id, R, t
<1>4. ASSUME NEW j \in o .. from - 1
      PROVE  id + pow2[j] \in Pages
  <2>1. j \in Nat /\ j < from /\ pow2[j] \in Nat \ {0} /\ pow2[from] \in Nat \ {0}
    BY <1>1, PowersOfTwo
  <2>2. 2 * pow2[j] <= pow2[from]
    BY <1>1, <1>2, <2>1, UpperHalf
  <2>3. id + pow2[j] \in Span(id, from)
    BY <1>2, <2>1, <2>2 DEF Span
  <2> QED
    BY <2>3, <1>2 DEF Usable
<1>5. \A j \in Orders : j \in o .. from - 1 \/ j = from \/ (j \notin o .. from - 1 /\ j # from)
  OBVIOUS
<1>6. R \in [Orders -> Seq(Pages)]
  <2>1. \A j \in Orders : R[j] \in Seq(Pages)
    <3>1. \A j \in o .. from - 1 : <<id + pow2[j]>> \in Seq(Pages)
      BY <1>4
    <3> QED
      BY <3>1, <1>1, <1>3, <1>5
  <2> QED
    BY <2>1, <1>3
<1>7. ASSUME NEW p \in Pages, NEW j \in Orders
      PROVE  FreeAt(R, p, j) <=> \/ j \in o .. from - 1 /\ p = id + pow2[j]
                                 \/ FreeAt(L, p, j) /\ ~(p = id /\ j = from)
  <2>1. CASE j \in o .. from - 1
    <3>1. j # from /\ ~FreeAt(L, p, j)
      BY <2>1, <1>1 DEF FreeAt
    <3>2. DOMAIN R[j] = {1} /\ R[j][1] = id + pow2[j]
      <4>1. R[j] = <<id + pow2[j]>>
        BY <2>1, <1>3
      <4> QED
        BY <4>1
    <3>3. FreeAt(R, p, j) <=> p = id + pow2[j]
      BY <3>2 DEF FreeAt
    <3> QED
      BY <2>1, <3>1, <3>3
  <2>2. CASE j = from
    <3>1. j \notin o .. from - 1
      BY <2>2, <1>1
    <3>2. FreeAt(R, p, j) <=> \E i \in DOMAIN t : t[i] = p
      BY <2>2, <1>3 DEF FreeAt
    <3> QED
      BY <2>2, <3>1, <3>2, <1>2
  <2>3. CASE j \notin o .. from - 1 /\ j # from
    <3>1. FreeAt(R, p, j) <=> FreeAt(L, p, j)
      BY <2>3, <1>3 DEF FreeAt
    <3> QED
      BY <2>3, <3>1
  <2> QED
    BY <2>1, <2>2, <2>3
<1>8. ASSUME NEW j \in Orders, NEW x \in DOMAIN R[j], NEW y \in DOMAIN R[j], R[j][x] = R[j][y]
      PROVE  x = y
  <2>1. CASE j \in o .. from - 1
    <3>1. R[j] = <<id + pow2[j]>>
      BY <2>1, <1>3
    <3>2. DOMAIN R[j] = {1}
      BY <3>1
    <3> QED
      BY <3>2
  <2>2. CASE j = from
    BY <2>2, <1>2, <1>3, <1>8
  <2>3. CASE j \notin o .. from - 1 /\ j # from
    BY <2>3, <1>3, <1>8 DEF Blocks
  <2> QED
    BY <2>1, <2>2, <2>3
<1> QED
  BY <1>4, <1>6, <1>7, <1>8 DEF id, R

\* The page is in a block of the lists.
FreeIn(lists, x) ==
  \E p \in Pages, o \in Orders : FreeAt(lists, p, o) /\ x \in Span(p, o)

LEMMA RestBlocks ==
  ASSUME NEW res \in SUBSET Pages, NEW L, Blocks(res, L, 0),
         NEW from, NEW o, Least(L, from, o)
  PROVE  LET id == Head(L[from])
             R  == Rest(L, from, o)
         IN  /\ Blocks(res, R, 0)
             /\ \A x \in Pages : FreeIn(R, x) <=> FreeIn(L, x) /\ x \notin Span(id, o)
<1> DEFINE id == Head(L[from])
           R  == Rest(L, from, o)
<1>1. /\ from \in Orders /\ from \in Nat /\ o \in Nat /\ o \in Orders /\ o <= from
      /\ \A j \in o .. from : j \in Orders /\ j \in Nat /\ pow2[j] \in Nat \ {0}
  BY LeastOrders DEF Least
<1>2. /\ id \in Pages /\ id \in Nat /\ FreeAt(L, id, from) /\ Aligned(id, from)
      /\ Span(id, from) \subseteq Usable(res)
      /\ \A p \in Pages, x \in Pages, j \in Orders :
           FreeAt(L, p, j) /\ x \in Span(p, j) /\ x \in Span(id, from) => p = id /\ j = from
  BY FrontIs
<1>3. /\ R \in [Orders -> Seq(Pages)]
      /\ \A p \in Pages, j \in Orders :
           FreeAt(R, p, j) <=> \/ j \in o .. from - 1 /\ p = id + pow2[j]
                               \/ FreeAt(L, p, j) /\ ~(p = id /\ j = from)
      /\ \A j \in Orders : \A x, y \in DOMAIN R[j] : R[j][x] = R[j][y] => x = y
      /\ \A j \in o .. from - 1 : id + pow2[j] \in Pages
  BY RestFree
<1> HIDE DEF id, R
<1>4. \A x \in Pages : x \in Nat
  BY OrderTypes
<1>5. ASSUME NEW j \in o .. from - 1
      PROVE  /\ j \in Orders /\ j \in Nat /\ id + pow2[j] \in Nat
             /\ Aligned(id + pow2[j], j) /\ Largest(res, id + pow2[j], j)
             /\ Span(id + pow2[j], j) \subseteq Usable(res)
  <2>1. j \in Orders /\ j \in Nat /\ j < from /\ pow2[j] \in Nat \ {0}
    BY <1>1
  <2>2. Aligned(id + pow2[j], j) /\ \A k \in Nat : k > j => ~Aligned(id + pow2[j], k)
    BY <2>1, <1>1, <1>2, UpperHalf
  <2>3. Largest(res, id + pow2[j], j)
    BY <2>2, OrderTypes DEF Largest
  <2>4. ASSUME NEW x \in Span(id + pow2[j], j)
        PROVE  x \in Usable(res)
    <3>1. x \in Nat
      BY <2>1, <1>2 DEF Span
    <3>2. x \in Span(id, from)
      BY <3>1, <1>1, <1>2, <2>4, Halves
    <3> QED
      BY <3>2, <1>2
  <2> QED
    BY <2>1, <2>2, <2>3, <2>4, <1>2
<1>6. ASSUME NEW p \in Pages, NEW j \in Orders, FreeAt(R, p, j)
      PROVE  /\ 0 <= p /\ Aligned(p, j) /\ Largest(res, p, j)
             /\ Span(p, j) \subseteq Usable(res)
  <2>1. 0 <= p
    BY <1>4
  <2>2. CASE j \in o .. from - 1 /\ p = id + pow2[j]
    BY <2>1, <2>2, <1>5
  <2>3. CASE FreeAt(L, p, j)
    BY <2>1, <2>3 DEF Blocks
  <2> QED
    BY <2>2, <2>3, <1>3, <1>6
\* A half has no page with another block in common.
<1>7. ASSUME NEW p \in Pages, NEW j \in Orders, NEW x \in Pages, FreeAt(L, p, j),
             ~(p = id /\ j = from), x \in Span(p, j)
      PROVE  x \notin Span(id, from)
  BY <1>2, <1>7
<1>8. ASSUME NEW j \in o .. from - 1, NEW x \in Pages, x \in Span(id + pow2[j], j)
      PROVE  x \in Span(id, from) /\ x \notin Span(id, o)
  BY <1>1, <1>2, <1>4, <1>8, Halves
<1>9. ASSUME NEW p \in Pages, NEW q \in Pages, NEW j \in Orders, NEW k \in Orders,
             NEW x \in Pages, FreeAt(R, p, j), FreeAt(R, q, k),
             x \in Span(p, j), x \in Span(q, k)
      PROVE  p = q /\ j = k
  <2>1. CASE j \in o .. from - 1 /\ p = id + pow2[j]
    <3>1. x \in Span(id, from)
      BY <2>1, <1>8, <1>9
    <3>2. k \in o .. from - 1 /\ q = id + pow2[k]
      BY <3>1, <1>3, <1>7, <1>9
    <3>3. j = k
      BY <2>1, <3>2, <1>1, <1>2, <1>4, <1>9, Halves
    <3> QED
      BY <2>1, <3>2, <3>3
  <2>2. CASE k \in o .. from - 1 /\ q = id + pow2[k]
    <3>1. x \in Span(id, from)
      BY <2>2, <1>8, <1>9
    <3>2. j \in o .. from - 1 /\ p = id + pow2[j]
      BY <3>1, <1>3, <1>7, <1>9
    <3>3. j = k
      BY <2>2, <3>2, <1>1, <1>2, <1>4, <1>9, Halves
    <3> QED
      BY <2>2, <3>2, <3>3
  <2>3. CASE FreeAt(L, p, j) /\ FreeAt(L, q, k)
    BY <2>3, <1>9 DEF Blocks
  <2> QED
    BY <2>1, <2>2, <2>3, <1>3, <1>9
<1>10. Blocks(res, R, 0)
  BY <1>3, <1>6, <1>9 DEF Blocks
<1>11. ASSUME NEW x \in Pages, NEW p \in Pages, NEW j \in Orders,
              FreeAt(R, p, j), x \in Span(p, j)
       PROVE  /\ x \notin Span(id, o)
              /\ \E q \in Pages, k \in Orders : FreeAt(L, q, k) /\ x \in Span(q, k)
  <2>1. CASE j \in o .. from - 1 /\ p = id + pow2[j]
    BY <2>1, <1>1, <1>2, <1>8, <1>11
  <2>2. CASE FreeAt(L, p, j) /\ ~(p = id /\ j = from)
    <3>1. x \notin Span(id, from)
      BY <2>2, <1>7, <1>11
    <3>2. x \notin Span(id, o)
      BY <3>1, <1>1, <1>2, <1>4, Halves
    <3> QED
      BY <2>2, <3>2, <1>11
  <2> QED
    BY <2>1, <2>2, <1>3, <1>11
<1>12. ASSUME NEW x \in Pages, NEW p \in Pages, NEW j \in Orders,
              FreeAt(L, p, j), x \in Span(p, j), x \notin Span(id, o)
       PROVE  \E q \in Pages, k \in Orders : FreeAt(R, q, k) /\ x \in Span(q, k)
  <2>1. CASE p = id /\ j = from
    <3>1. PICK k \in o .. from - 1 : x \in Span(id + pow2[k], k)
      BY <2>1, <1>1, <1>2, <1>4, <1>12, Halves
    <3>2. id + pow2[k] \in Pages /\ k \in Orders
      BY <1>3, <1>5
    <3>3. FreeAt(R, id + pow2[k], k)
      BY <3>2, <1>3
    <3> QED
      BY <3>1, <3>2, <3>3
  <2>2. CASE ~(p = id /\ j = from)
    BY <2>2, <1>3, <1>12
  <2> QED
    BY <2>1, <2>2
<1>13. \A x \in Pages : FreeIn(R, x) <=> FreeIn(L, x) /\ x \notin Span(id, o)
  BY <1>11, <1>12 DEF FreeIn
<1> QED
  BY <1>10, <1>13 DEF id, R

-----------------------------------------------------------------------------
(***************************************************************************)
(* The invariant                                                           *)
(***************************************************************************)
Free(x)     == FreeIn(pageFrameOrder, x)
Taken(a, x) == x \in Span(a[1], a[2])

PagesInv ==
  /\ reserved \in Maps /\ acpiDone \in BOOLEAN
  /\ returned \in {NoFrames} \cup {AddressOf(p) : p \in Pages}
  /\ Blocks(reserved, pageFrameOrder, 0)
  /\ allocated \subseteq Pages \X Orders \X Requests
  /\ \A a \in allocated :
       /\ Aligned(a[1], a[2]) /\ Span(a[1], a[2]) \subseteq Usable(reserved)
       /\ pow2[a[2]] >= a[3] /\ pow2[a[2]] < 2 * a[3]
  /\ \A a, b \in allocated, x \in Pages : Taken(a, x) /\ Taken(b, x) => a = b
  /\ \A a \in allocated, x \in Pages : Taken(a, x) => ~Free(x)
  /\ \A x \in Usable(reserved) : Free(x) \/ \E a \in allocated : Taken(a, x)

LEMMA PagesInitially == MapsEnd /\ PageInit => PagesInv
<1> SUFFICES ASSUME MapsEnd, PageInit
             PROVE  PagesInv
  OBVIOUS
<1>1. reserved \in SUBSET Pages /\ (TotalPages - 1 \notin reserved \/ BeyondReserved)
  BY PageFramesAssumption DEF PageInit, MapsEnd, Pages
<1>2. Blocks(reserved, pageFrameOrder, 0) /\ Covers(reserved, pageFrameOrder, 0)
  BY <1>1, InitialBlocks DEF PageInit
<1>3. \A x \in Usable(reserved) : 0 <= x
  BY OrderTypes DEF Usable
<1>4. \A x \in Usable(reserved) : Free(x)
  BY <1>2, <1>3 DEF Covers, Free, FreeIn
<1> QED
  BY <1>2, <1>4 DEF PageInit, PagesInv

LEMMA RequestFits ==
  ASSUME NEW n \in Requests
  PROVE  /\ RequestedOrder(n) \in Nat
         /\ pow2[RequestedOrder(n)] >= n /\ pow2[RequestedOrder(n)] < 2 * n
<1>1. n \in Nat \ {0}
  BY PageFramesAssumption
<1> DEFINE l == log2(n)
           o == RequestedOrder(n)
<1>2. l \in Nat /\ pow2[l] <= n /\ n < pow2[l + 1]
  BY <1>1, Log2Is
<1>3. pow2[l] \in Nat \ {0} /\ pow2[l + 1] = 2 * pow2[l]
  BY <1>2, PowersOfTwo
<1>4. o = IF pow2[l] < n THEN l + 1 ELSE l
  BY DEF RequestedOrder
<1> HIDE DEF l, o
<1>5. o \in Nat /\ pow2[o] >= n /\ pow2[o] < 2 * n
  <2>1. CASE pow2[l] < n
    BY <2>1, <1>1, <1>2, <1>3, <1>4
  <2>2. CASE ~(pow2[l] < n)
    BY <2>2, <1>1, <1>2, <1>3, <1>4
  <2> QED
    BY <2>1, <2>2
<1> QED
  BY <1>5 DEF o

LEMMA ServesFromTheLeast ==
  ASSUME PagesInv, NEW n \in Requests, Serves(RequestedOrder(n))
  PROVE  \E from : Least(pageFrameOrder, from, RequestedOrder(n))
<1> DEFINE o == RequestedOrder(n)
           L == pageFrameOrder
           Q == Candidates(L, o)
<1>1. o \in Nat /\ o \in Orders
  BY RequestFits DEF Serves
<1>2. PICK from \in Q : \A k \in Q : from <= k
  <2>1. Q # {} /\ Q \subseteq Nat
    BY OrderTypes DEF Serves, Candidates
  <2> HIDE DEF Q
  <2> QED
    BY <2>1, LeastNumber
<1>3. L \in [Orders -> Seq(Pages)]
  BY DEF PagesInv, Blocks
<1>4. Least(L, from, o)
  <2>1. from \in Orders /\ from \in Nat /\ o <= from /\ L[from] # <<>>
    BY <1>2, OrderTypes DEF Candidates
  <2>2. ASSUME NEW j \in o .. from - 1, L[j] # <<>>
        PROVE  FALSE
    <3>1. j \in Nat /\ o <= j /\ j < from /\ j \in Orders
      <4>1. from \in 0 .. PAGE_FRAME_MAX_ORDER
        BY <2>1 DEF Orders
      <4> QED
        BY <4>1, <1>1, <2>1, PageFramesAssumption DEF Orders
    <3>2. j \in Q
      BY <3>1, <2>2 DEF Candidates
    <3> QED
      BY <3>1, <3>2, <1>2, <2>1
  <2> QED
    BY <2>1, <2>2, <1>1, <1>3 DEF Least
<1> QED
  BY <1>4

LEMMA AllocateKeepsPages ==
  ASSUME PagesInv, NEW n \in Requests, AllocatePageFrames(n), Serves(RequestedOrder(n))
  PROVE  PagesInv'
<1> DEFINE o == RequestedOrder(n)
           L == pageFrameOrder
<1>1. o \in Nat /\ pow2[o] >= n /\ pow2[o] < 2 * n /\ o \in Orders
  BY RequestFits DEF Serves
<1>2. PICK from : Least(L, from, o)
  BY ServesFromTheLeast
<1>3. reserved \in SUBSET Pages /\ Blocks(reserved, L, 0) /\ L \in [Orders -> Seq(Pages)]
  BY PageFramesAssumption DEF PagesInv, Blocks, Pages
<1>4. Least(L, from, o)
  BY <1>2
<1> DEFINE id == Head(L[from])
           R  == Rest(L, from, o)
           b  == <<id, o, n>>
<1>5. /\ pageFrameOrder' = R /\ allocated' = allocated \cup {b}
      /\ returned' = AddressOf(id) /\ reserved' = reserved /\ acpiDone' = acpiDone
  <2>1. /\ DeleteFromPageFrameOrder(SplitDownTo(L, o), o) = R
        /\ Head(SplitDownTo(L, o)[o]) = id
    BY <1>4, TakesTheFront
  <2> HIDE DEF R, id
  <2> QED
    BY <2>1 DEF AllocatePageFrames
<1>6. /\ id \in Pages /\ id \in Nat /\ FreeAt(L, id, from) /\ Aligned(id, from)
      /\ Span(id, from) \subseteq Usable(reserved)
      /\ from \in Orders /\ from \in Nat /\ o <= from
  BY <1>3, <1>4, FrontIs, LeastOrders DEF Least
<1>7. /\ Blocks(reserved, R, 0)
      /\ \A x \in Pages : FreeIn(R, x) <=> FreeIn(L, x) /\ x \notin Span(id, o)
  BY <1>3, <1>4, RestBlocks
<1> HIDE DEF id, R, o
<1>8. b \in Pages \X Orders \X Requests /\ b[1] = id /\ b[2] = o /\ b[3] = n
  BY <1>1, <1>6
<1> HIDE DEF b
<1>9. Aligned(id, o)
  BY <1>1, <1>6, AlignedBelow
<1>10. \A x \in Pages : x \in Span(id, o) => Free(x) /\ x \in Usable(reserved)
  <2> SUFFICES ASSUME NEW x \in Pages, x \in Span(id, o)
               PROVE  Free(x) /\ x \in Usable(reserved)
    OBVIOUS
  <2>1. x \in Span(id, from)
    BY <1>1, <1>6, OrderTypes, Halves
  <2> QED
    BY <2>1, <1>6 DEF Free, FreeIn
<1>11. Span(id, o) \subseteq Usable(reserved)
  <2> SUFFICES ASSUME NEW x \in Span(id, o)
               PROVE  x \in Usable(reserved)
    OBVIOUS
  <2>1. x \in Nat
    BY <1>1, <1>6, PowersOfTwo DEF Span
  <2>2. x \in Span(id, from)
    BY <2>1, <1>1, <1>6, Halves
  <2> QED
    BY <2>2, <1>6
<1>12. \A x \in Pages : Free(x)' => Free(x) /\ x \notin Span(id, o)
  BY <1>5, <1>7 DEF Free
<1>13. \A x \in Pages : Free(x) => Free(x)' \/ x \in Span(id, o)
  BY <1>5, <1>7 DEF Free
<1>14. \A x \in Pages : Taken(b, x) <=> x \in Span(id, o)
  BY <1>8 DEF Taken
<1>15. \A a \in allocated' :
         /\ Aligned(a[1], a[2]) /\ Span(a[1], a[2]) \subseteq Usable(reserved)
         /\ pow2[a[2]] >= a[3] /\ pow2[a[2]] < 2 * a[3]
  BY <1>1, <1>5, <1>8, <1>9, <1>11 DEF PagesInv
<1>16. ASSUME NEW a \in allocated', NEW c \in allocated', NEW x \in Pages,
              Taken(a, x), Taken(c, x)
       PROVE  a = c
  BY <1>5, <1>10, <1>14, <1>16 DEF PagesInv
<1>17. ASSUME NEW a \in allocated', NEW x \in Pages, Taken(a, x)
       PROVE  ~Free(x)'
  BY <1>5, <1>12, <1>14, <1>17 DEF PagesInv
<1>18. ASSUME NEW x \in Usable(reserved)
       PROVE  Free(x)' \/ \E a \in allocated' : Taken(a, x)
  <2>1. x \in Pages
    BY DEF Usable
  <2>2. CASE Free(x)
    BY <2>1, <2>2, <1>5, <1>13, <1>14
  <2>3. CASE \E a \in allocated : Taken(a, x)
    BY <2>3, <1>5
  <2> QED
    BY <2>2, <2>3 DEF PagesInv
<1>19. reserved' \in Maps /\ acpiDone' \in BOOLEAN
       /\ returned' \in {NoFrames} \cup {AddressOf(p) : p \in Pages}
       /\ allocated' \subseteq Pages \X Orders \X Requests
       /\ Blocks(reserved, pageFrameOrder', 0)
  BY <1>5, <1>6, <1>7, <1>8 DEF PagesInv
<1>20. Usable(reserved)' = Usable(reserved) /\ reserved' = reserved
  BY <1>5 DEF Usable
<1>21. \A a, x : Taken(a, x)' <=> Taken(a, x)
  BY DEF Taken
<1> QED
  BY <1>15, <1>16, <1>17, <1>18, <1>19, <1>20, <1>21 DEF PagesInv

LEMMA StepKeepsPages ==
  ~XsdtIsHead /\ PagesInv /\ [PageNext]_pageVars => PagesInv'
<1> SUFFICES ASSUME ~XsdtIsHead, PagesInv, [PageNext]_pageVars
             PROVE  PagesInv'
  OBVIOUS
<1>1. ASSUME UNCHANGED <<reserved, pageFrameOrder, allocated>>, acpiDone' \in BOOLEAN,
             returned' \in {NoFrames} \cup {AddressOf(p) : p \in Pages}
      PROVE  PagesInv'
  BY <1>1 DEF PagesInv, Free, Taken, Usable
<1>2. ASSUME NEW n \in Requests, AllocatePageFrames(n)
      PROVE  PagesInv'
  <2>1. CASE Serves(RequestedOrder(n))
    BY <1>2, <2>1, AllocateKeepsPages
  <2>2. CASE ~Serves(RequestedOrder(n))
    BY <1>1, <1>2, <2>2 DEF AllocatePageFrames, PagesInv
  <2> QED
    BY <2>1, <2>2
<1>3. CASE ACPIInit
  BY <1>1, <1>3 DEF ACPIInit, PagesInv
<1>4. CASE UNCHANGED pageVars
  BY <1>1, <1>4 DEF pageVars, PagesInv
<1> QED
  BY <1>2, <1>3, <1>4 DEF PageNext

LEMMA PagesInvariant == MapsEnd /\ ~XsdtIsHead => (PageSpec => []PagesInv)
<1> SUFFICES ASSUME MapsEnd, ~XsdtIsHead
             PROVE  PageSpec => []PagesInv
  OBVIOUS
<1>1. PageInit => PagesInv
  BY PagesInitially
<1>2. PagesInv /\ [PageNext]_pageVars => PagesInv'
  BY StepKeepsPages
<1> QED
  BY <1>1, <1>2, PTL DEF PageSpec

-----------------------------------------------------------------------------
(***************************************************************************)
(* The theorems.  The memory map's end is seen (MapsEnd), and the list head*)
(* of the largest order is not overwritten: in this build it is, and run   *)
(* pages_xsdt shows what becomes of the lists then.                        *)
(***************************************************************************)
LEMMA FreeBlocksAre ==
  ASSUME PagesInv
  PROVE  /\ \A b \in FreeBlocks : /\ b[1] \in Pages /\ b[2] \in Orders /\ b = <<b[1], b[2]>>
                                  /\ FreeAt(pageFrameOrder, b[1], b[2])
         /\ \A p \in Pages, o \in Orders :
              FreeAt(pageFrameOrder, p, o) => <<p, o>> \in FreeBlocks
<1>1. \A o \in Orders : \A i \in DOMAIN pageFrameOrder[o] : pageFrameOrder[o][i] \in Pages
  BY DEF PagesInv, Blocks
<1>2. ASSUME NEW b \in FreeBlocks
      PROVE  /\ b[1] \in Pages /\ b[2] \in Orders /\ b = <<b[1], b[2]>>
             /\ FreeAt(pageFrameOrder, b[1], b[2])
  <2>0. PICK o \in Orders :
          b \in {<<pageFrameOrder[o][i], o>> : i \in DOMAIN pageFrameOrder[o]}
    BY DEF FreeBlocks
  <2>1. PICK i \in DOMAIN pageFrameOrder[o] : b = <<pageFrameOrder[o][i], o>>
    BY <2>0
  <2>2. b[1] = pageFrameOrder[o][i] /\ b[2] = o
    BY <2>1
  <2> QED
    BY <2>1, <2>2, <1>1 DEF FreeAt
<1>3. ASSUME NEW p \in Pages, NEW o \in Orders, FreeAt(pageFrameOrder, p, o)
      PROVE  <<p, o>> \in FreeBlocks
  BY <1>3 DEF FreeAt, FreeBlocks
<1> QED
  BY <1>2, <1>3

\* The pages of a block of the free lists are usable pages, and free.
LEMMA FreeExtents ==
  ASSUME PagesInv, NEW b \in FreeBlocks
  PROVE  /\ Extent(b) = Span(b[1], b[2]) /\ Extent(b) \subseteq Usable(reserved)
         /\ \A x \in Extent(b) : x \in Pages /\ Free(x)
<1>1. b[1] \in Pages /\ b[2] \in Orders /\ FreeAt(pageFrameOrder, b[1], b[2])
  BY FreeBlocksAre
<1>2. Extent(b) = Span(b[1], b[2])
  BY DEF Extent, Span
<1>3. Span(b[1], b[2]) \subseteq Usable(reserved)
  BY <1>1 DEF PagesInv, Blocks
<1> QED
  BY <1>1, <1>2, <1>3 DEF Usable, Free, FreeIn

\* The lists and the blocks handed out keep their types.
THEOREM PageTypeCorrect ==
  MapsEnd /\ ~XsdtIsHead => (PageSpec => []PageTypeOK)
<1>1. PagesInv => PageTypeOK
  BY DEF PagesInv, Blocks, PageTypeOK
<1> QED
  BY <1>1, PagesInvariant, PTL

\* Every usable page is in exactly one block, free or handed out, and no
\* reserved page is in any.
THEOREM PagesAreAlwaysPartitioned ==
  MapsEnd /\ ~XsdtIsHead => (PageSpec => []PagesArePartitioned)
<1>1. PagesInv => PagesArePartitioned
  <2> SUFFICES ASSUME PagesInv
               PROVE  PagesArePartitioned
    OBVIOUS
  <2> DEFINE parts == FreeBlocks \cup allocated
             Of(x) == {b \in parts : x \in Extent(b)}
  <2>1. \A a \in allocated : Extent(a) = Span(a[1], a[2])
    BY DEF Extent, Span
  <2>2. ASSUME NEW x \in Pages, x \in reserved
        PROVE  Cardinality(Of(x)) = 0
    <3>1. x \notin Usable(reserved)
      BY <2>2 DEF Usable
    <3>2. \A b \in parts : x \notin Extent(b)
      BY <3>1, <2>1, FreeExtents DEF PagesInv
    <3>3. Of(x) = {}
      BY <3>2
    <3> QED
      BY <3>3, FS_EmptySet
  <2>3. ASSUME NEW x \in Pages, x \notin reserved
        PROVE  Cardinality(Of(x)) = 1
    <3>1. x \in Usable(reserved)
      BY <2>3 DEF Usable
    <3>2. CASE Free(x)
      <4>1. PICK p \in Pages, o \in Orders :
                   FreeAt(pageFrameOrder, p, o) /\ x \in Span(p, o)
        BY <3>2 DEF Free, FreeIn
      <4> DEFINE c == <<p, o>>
      <4>2. c \in FreeBlocks /\ x \in Extent(c)
        BY <4>1, FreeBlocksAre DEF Extent, Span
      <4>3. ASSUME NEW b \in parts, x \in Extent(b)
            PROVE  b = c
        <5>1. b \notin allocated
          BY <4>3, <3>2, <2>1 DEF PagesInv, Taken
        <5>2. b \in FreeBlocks
          BY <5>1
        <5>3. /\ b[1] \in Pages /\ b[2] \in Orders /\ b = <<b[1], b[2]>>
              /\ FreeAt(pageFrameOrder, b[1], b[2]) /\ x \in Span(b[1], b[2])
          BY <5>2, <4>3, FreeBlocksAre, FreeExtents
        <5>4. b[1] = p /\ b[2] = o
          BY <4>1, <5>3 DEF PagesInv, Blocks
        <5> QED
          BY <5>3, <5>4
      <4> HIDE DEF c
      <4>4. Of(x) = {c}
        BY <4>2, <4>3
      <4> QED
        BY <4>4, FS_Singleton
    <3>3. CASE ~Free(x)
      <4>1. PICK a \in allocated : Taken(a, x)
        BY <3>1, <3>3 DEF PagesInv
      <4>2. x \in Extent(a)
        BY <4>1, <2>1 DEF Taken
      <4>3. ASSUME NEW b \in parts, x \in Extent(b)
            PROVE  b = a
        <5>1. b \notin FreeBlocks
          BY <4>3, <3>3, FreeExtents
        <5>2. b \in allocated /\ Taken(b, x)
          BY <5>1, <4>3, <2>1 DEF Taken
        <5> QED
          BY <5>2, <4>1 DEF PagesInv
      <4>4. Of(x) = {a}
        BY <4>2, <4>3
      <4> QED
        BY <4>4, FS_Singleton
    <3> QED
      BY <3>2, <3>3
  <2>4. \A o \in Orders : \A i, j \in DOMAIN pageFrameOrder[o] :
          pageFrameOrder[o][i] = pageFrameOrder[o][j] => i = j
    BY DEF PagesInv, Blocks
  <2>5. \A x \in Pages : Cardinality(Of(x)) = IF x \in reserved THEN 0 ELSE 1
    <3> HIDE DEF Of
    <3> QED
      BY <2>2, <2>3
  <2> QED
    BY <2>4, <2>5 DEF PagesArePartitioned
<1> QED
  BY <1>1, PagesInvariant, PTL

\* A block starts at a multiple of its size, and a request gets the smallest
\* block it fits into.
THEOREM BlocksAreAlwaysWhole ==
  MapsEnd /\ ~XsdtIsHead => (PageSpec => []BlocksAreWhole)
<1>1. PagesInv => BlocksAreWhole
  <2> SUFFICES ASSUME PagesInv
               PROVE  BlocksAreWhole
    OBVIOUS
  <2>1. ASSUME NEW b \in FreeBlocks
        PROVE  b[1] % pow2[b[2]] = 0
    <3>1. b[1] \in Nat /\ b[2] \in Nat /\ Aligned(b[1], b[2])
      BY FreeBlocksAre, OrderTypes DEF PagesInv, Blocks
    <3> QED
      BY <3>1, AlignedMeans
  <2>2. ASSUME NEW a \in allocated
        PROVE  a[1] % pow2[a[2]] = 0
    <3>1. a[1] \in Pages /\ a[2] \in Orders
      BY DEF PagesInv
    <3>2. a[1] \in Nat /\ a[2] \in Nat /\ Aligned(a[1], a[2])
      BY <3>1, OrderTypes DEF PagesInv
    <3> QED
      BY <3>2, AlignedMeans
  <2> QED
    BY <2>1, <2>2 DEF BlocksAreWhole, PagesInv
<1> QED
  BY <1>1, PagesInvariant, PTL

\* Where no list has a block for it, no run of free pages is long enough.
LEMMA NoBlockNoRoom ==
  ASSUME PagesInv, NEW o \in Orders, Candidates(pageFrameOrder, o) = {}
  PROVE  ~Room(o)
<1> DEFINE free == UNION {Extent(b) : b \in FreeBlocks}
<1> SUFFICES ASSUME NEW p \in Pages, p % pow2[o] = 0, Extent(<<p, o>>) \subseteq free
             PROVE  FALSE
  BY DEF Room
<1>1. o \in Nat /\ p \in Nat /\ pow2[o] \in Nat \ {0} /\ Aligned(p, o)
  BY OrderTypes, AlignedMeans
<1>2. Extent(<<p, o>>) = Span(p, o)
  BY DEF Extent, Span
<1>3. p \in free
  BY <1>1, <1>2 DEF Span
<1>4. PICK b \in FreeBlocks : p \in Extent(b)
  BY <1>3
<1> DEFINE q == b[1]
           k == b[2]
<1>5. /\ q \in Pages /\ k \in Orders /\ FreeAt(pageFrameOrder, q, k)
      /\ p \in Span(q, k)
  BY <1>4, FreeBlocksAre, FreeExtents
<1> HIDE DEF q, k
<1>6. Aligned(q, k) /\ Largest(reserved, q, k) /\ q \in Nat /\ k \in Nat
      /\ pow2[k] \in Nat \ {0}
  BY <1>5, OrderTypes DEF PagesInv, Blocks
<1>7. k < o
  <2> SUFFICES ASSUME o <= k
               PROVE  FALSE
    BY <1>1, <1>6
  <2>1. pageFrameOrder[k] # <<>>
    BY <1>5 DEF FreeAt
  <2> QED
    BY <2>1, <1>1, <1>5, <1>6 DEF Candidates
<1>8. p = q
  <2>1. Aligned(p, k) /\ p \in Span(p, k)
    BY <1>1, <1>6, <1>7, AlignedBelow DEF Span
  <2> QED
    BY <2>1, <1>1, <1>5, <1>6, OneBlockAround
<1>9. PICK x \in Span(q, o) : x \notin Usable(reserved)
  BY <1>1, <1>6, <1>7, <1>8 DEF Largest
<1>10. x \in free
  BY <1>2, <1>8, <1>9
<1> QED
  BY <1>9, <1>10, FreeExtents

\* Page 0 being reserved, no block that is handed out has the address 0.
LEMMA ServedIsNotZero ==
  ASSUME PagesInv, NEW n \in Requests, AllocatePageFrames(n), 0 \in reserved,
         Serves(RequestedOrder(n))
  PROVE  returned' # NoFrames
<1> DEFINE o  == RequestedOrder(n)
           L  == pageFrameOrder
<1>1. PICK from : Least(L, from, o)
  BY ServesFromTheLeast
<1> DEFINE id == Head(L[from])
<1>2. returned' = AddressOf(id)
  <2>1. Head(SplitDownTo(L, o)[o]) = id
    BY <1>1, TakesTheFront
  <2> QED
    BY <2>1 DEF AllocatePageFrames
<1>3. id \in Nat /\ id \in Span(id, from) /\ Span(id, from) \subseteq Usable(reserved)
  <2>1. reserved \in SUBSET Pages /\ Blocks(reserved, L, 0)
    BY PageFramesAssumption DEF PagesInv, Pages
  <2>2. id \in Nat /\ Span(id, from) \subseteq Usable(reserved)
    BY <2>1, <1>1, FrontIs
  <2>3. pow2[from] \in Nat \ {0}
    BY <1>1, OrderTypes DEF Least
  <2> HIDE DEF id
  <2> QED
    BY <2>2, <2>3 DEF Span
<1> HIDE DEF id
<1>4. id # 0
  BY <1>3 DEF Usable
<1> QED
  BY <1>2, <1>3, <1>4 DEF AddressOf, NoFrames, PAGE_SIZE

\* On a map with page 0 reserved, whoever is told that there are no pages for a
\* request of at most the largest block is told the truth.
THEOREM FailsNeverWithRoom ==
  MapsEnd /\ ~XsdtIsHead => (PageSpec => FailsOnlyWithoutRoom)
<1> DEFINE Step == \A n \in Requests :
                     /\ AllocatePageFrames(n)
                     /\ 0 \in reserved
                     /\ RequestedOrder(n) \in Orders
                     /\ returned' = NoFrames
                     => ~Room(RequestedOrder(n))
<1>1. PagesInv /\ [PageNext]_pageVars => [Step]_pageVars
  <2> SUFFICES ASSUME PagesInv, NEW n \in Requests, AllocatePageFrames(n), 0 \in reserved,
                      RequestedOrder(n) \in Orders, returned' = NoFrames
               PROVE  ~Room(RequestedOrder(n))
    OBVIOUS
  <2>1. ~Serves(RequestedOrder(n))
    BY ServedIsNotZero
  <2>2. Candidates(pageFrameOrder, RequestedOrder(n)) = {}
    BY <2>1 DEF Serves
  <2> QED
    BY <2>2, NoBlockNoRoom
<1> HIDE DEF Step
<1>2. MapsEnd /\ ~XsdtIsHead /\ PageSpec => [][Step]_pageVars
  BY <1>1, PagesInvariant, PTL DEF PageSpec
<1> QED
  BY <1>2 DEF Step, FailsOnlyWithoutRoom

\* The lists hold pages of the map, as long as their heads are left alone.
THEOREM ListsStayInTheMap ==
  MapsEnd /\ ~XsdtIsHead => (PageSpec => []ListsHoldPagesOfTheMap)
<1>1. PagesInv => ListsHoldPagesOfTheMap
  BY FreeExtents DEF ListsHoldPagesOfTheMap, Usable
<1> QED
  BY <1>1, PagesInvariant, PTL

=============================================================================
