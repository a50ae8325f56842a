-------------------------- MODULE ArithmeticProofs --------------------------
(***************************************************************************)
(* The least-number principle, which stands for induction in the proofs of *)
(* this project, and the facts about powers of two and logarithms that the *)
(* buddy allocators need.                                                  *)
(***************************************************************************)
EXTENDS BuddyArithmetic, TLAPS, WellFoundedInduction

LEMMA LeastNumber ==
  ASSUME NEW T, T \subseteq Nat, T # {}
  PROVE  \E x \in T : \A y \in T : x <= y
<1> DEFINE R == OpToRel(<, Nat)
<1>1. IsWellFoundedOn(R, Nat)
  BY NatLessThanWellFounded
<1>2. ASSUME NEW x \in Nat, NEW y \in Nat, y < x
      PROVE  <<y, x>> \in R
  BY <1>2 DEF OpToRel
<1> HIDE DEF R
<1>3. PICK x \in T : \A y \in T : ~ (<<y, x>> \in R)
  BY <1>1, WFMin
<1>4. \A y \in T : x <= y
  <2> SUFFICES ASSUME NEW y \in T
               PROVE  x <= y
    OBVIOUS
  <2>1. x \in Nat /\ y \in Nat
    OBVIOUS
  <2>2. ~(y < x)
    BY <1>2, <1>3, <2>1
  <2> QED
    BY <2>1, <2>2
<1> QED
  BY <1>4

-----------------------------------------------------------------------------
(***************************************************************************)
(* pow2 is recursive: that there is such a function is to be proved.       *)
(***************************************************************************)

\* f holds the powers up to the n-th.
PowersUpTo(f, n) ==
  /\ f \in [0 .. n -> Nat \ {0}]
  /\ f[0] = 1
  /\ \A i \in 1 .. n : f[i] = 2 * f[i - 1]

LEMMA PowersExist ==
  ASSUME NEW n \in Nat
  PROVE  \E f : PowersUpTo(f, n)
<1> SUFFICES ASSUME ~ \E f : PowersUpTo(f, n)
             PROVE  FALSE
  OBVIOUS
<1> DEFINE T == {k \in Nat : ~ \E f : PowersUpTo(f, k)}
<1>1. n \in T /\ T \subseteq Nat
  OBVIOUS
<1>2. PICK k \in T : \A j \in T : k <= j
  BY <1>1, LeastNumber
<1>3. k # 0
  <2>1. PowersUpTo([i \in 0 .. 0 |-> 1], 0)
    BY DEF PowersUpTo
  <2> QED
    BY <2>1, <1>2
<1>4. k \in Nat /\ k - 1 \in Nat /\ k - 1 \notin T
  BY <1>2, <1>3
<1>5. PICK f : PowersUpTo(f, k - 1)
  BY <1>4
<1> DEFINE g == [i \in 0 .. k |-> IF i = k THEN 2 * f[k - 1] ELSE f[i]]
<1>6. /\ f \in [0 .. k - 1 -> Nat \ {0}] /\ f[0] = 1
      /\ \A i \in 1 .. k - 1 : f[i] = 2 * f[i - 1]
  BY <1>5 DEF PowersUpTo
<1>7. f[k - 1] \in Nat \ {0}
  BY <1>4, <1>6
<1>8. g \in [0 .. k -> Nat \ {0}]
  BY <1>4, <1>6, <1>7
<1>9. g[k] = 2 * f[k - 1] /\ \A i \in 0 .. k - 1 : g[i] = f[i]
  BY <1>4
<1> HIDE DEF g
<1>10. ASSUME NEW i \in 1 .. k
       PROVE  g[i] = 2 * g[i - 1]
  <2>1. i - 1 \in 0 .. k - 1
    BY <1>4
  <2>2. CASE i = k
    BY <2>1, <2>2, <1>9
  <2>3. CASE i # k
    <3>1. i \in 1 .. k - 1 /\ i \in 0 .. k - 1
      BY <2>3, <1>4
    <3> QED
      BY <2>1, <3>1, <1>6, <1>9
  <2> QED
    BY <2>2, <2>3
<1>11. g[0] = 1
  BY <1>3, <1>4, <1>6, <1>9
<1>12. PowersUpTo(g, k)
  BY <1>8, <1>10, <1>11 DEF PowersUpTo
<1> QED
  BY <1>2, <1>12

LEMMA PowersAgree ==
  ASSUME NEW m \in Nat, NEW n \in Nat, m <= n, NEW f, NEW g,
         PowersUpTo(f, m), PowersUpTo(g, n)
  PROVE  \A i \in 0 .. m : f[i] = g[i]
<1> SUFFICES ASSUME NEW k \in 0 .. m, f[k] # g[k]
             PROVE  FALSE
  OBVIOUS
<1> DEFINE T == {j \in 0 .. m : f[j] # g[j]}
<1>1. k \in T /\ T \subseteq Nat
  OBVIOUS
<1>2. PICK j \in T : \A i \in T : j <= i
  BY <1>1, LeastNumber
<1>3. f[0] = g[0]
  BY DEF PowersUpTo
<1>4. j \in 1 .. m /\ j \in 1 .. n /\ j - 1 \in 0 .. m /\ j - 1 \notin T
  BY <1>2, <1>3
<1>5. f[j - 1] = g[j - 1]
  BY <1>4
<1>6. f[j] = g[j]
  BY <1>4, <1>5 DEF PowersUpTo
<1> QED
  BY <1>2, <1>6

\* What pow2 is.
LEMMA PowersOfTwo ==
  /\ pow2[0] = 1
  /\ \A n \in Nat : pow2[n] \in Nat \ {0} /\ pow2[n + 1] = 2 * pow2[n]
<1> DEFINE F(n) == CHOOSE f : PowersUpTo(f, n)
           g    == [n \in Nat |-> F(n)[n]]
           Body(f) == [n \in Nat |-> IF n = 0 THEN 1 ELSE 2 * f[n - 1]]
<1>1. \A n \in Nat : PowersUpTo(F(n), n)
  BY PowersExist
<1> HIDE DEF F
<1>2. g[0] = 1
  BY <1>1 DEF PowersUpTo
<1>3. ASSUME NEW n \in Nat
      PROVE  g[n] \in Nat \ {0} /\ g[n + 1] = 2 * g[n]
  <2>1. PowersUpTo(F(n), n) /\ PowersUpTo(F(n + 1), n + 1)
    BY <1>1
  <2>2. F(n)[n] = F(n + 1)[n]
    <3>1. \A i \in 0 .. n : F(n)[i] = F(n + 1)[i]
      BY <2>1, PowersAgree
    <3> QED
      BY <3>1
  <2>3. F(n)[n] \in Nat \ {0}
    BY <2>1 DEF PowersUpTo
  <2>4. F(n + 1)[n + 1] = 2 * F(n + 1)[n]
    <3>1. n + 1 \in 1 .. n + 1 /\ (n + 1) - 1 = n
      OBVIOUS
    <3> QED
      BY <2>1, <3>1 DEF PowersUpTo
  <2>5. g[n] = F(n)[n] /\ g[n + 1] = F(n + 1)[n + 1]
    OBVIOUS
  <2> QED
    BY <2>2, <2>3, <2>4, <2>5
<1>4. g = Body(g)
  <2>1. ASSUME NEW n \in Nat
        PROVE  g[n] = Body(g)[n]
    <3>1. CASE n = 0
      BY <3>1, <1>2
    <3>2. CASE n # 0
      <4>1. n - 1 \in Nat /\ (n - 1) + 1 = n
        BY <3>2
      <4>2. g[n] = 2 * g[n - 1]
        BY <4>1, <1>3
      <4> HIDE DEF g
      <4> QED
        BY <3>2, <4>2
    <3> QED
      BY <3>1, <3>2
  <2>2. g = [n \in Nat |-> g[n]] /\ Body(g) = [n \in Nat |-> Body(g)[n]]
    OBVIOUS
  <2> HIDE DEF g, Body
  <2> QED
    BY <2>1, <2>2
<1>5. pow2 = Body(pow2)
  <2>1. pow2 = CHOOSE f : f = Body(f)
    BY DEF pow2
  <2> HIDE DEF g, Body
  <2> QED
    BY <1>4, <2>1
<1>6. pow2[0] = 1
  BY <1>5
<1>7. \A n \in Nat : pow2[n + 1] = 2 * pow2[n]
  <2> SUFFICES ASSUME NEW n \in Nat
               PROVE  pow2[n + 1] = 2 * pow2[n]
    OBVIOUS
  <2>1. n + 1 \in Nat /\ n + 1 # 0 /\ (n + 1) - 1 = n
    OBVIOUS
  <2>2. pow2[n + 1] = Body(pow2)[n + 1]
    <3> HIDE DEF Body
    <3> QED
      BY <1>5
  <2> QED
    BY <2>1, <2>2
<1>8. \A n \in Nat : pow2[n] \in Nat \ {0}
  <2> SUFFICES ASSUME NEW n \in Nat, pow2[n] \notin Nat \ {0}
               PROVE  FALSE
    OBVIOUS
  <2> DEFINE T == {k \in Nat : pow2[k] \notin Nat \ {0}}
  <2>1. n \in T /\ T \subseteq Nat
    OBVIOUS
  <2>2. PICK k \in T : \A j \in T : k <= j
    BY <2>1, LeastNumber
  <2>3. k # 0 /\ k \in Nat
    BY <2>2, <1>6
  <2>4. k - 1 \in Nat /\ k - 1 \notin T /\ (k - 1) + 1 = k
    BY <2>2, <2>3
  <2>5. pow2[k - 1] \in Nat \ {0} /\ pow2[k] = 2 * pow2[k - 1]
    BY <2>4, <1>7
  <2> QED
    BY <2>2, <2>5
<1> QED
  BY <1>6, <1>7, <1>8

\* The powers grow, and each divides those behind it.
LEMMA PowersGrow ==
  ASSUME NEW m \in Nat, NEW n \in Nat, m <= n
  PROVE  /\ pow2[m] <= pow2[n]
         /\ m < n => 2 * pow2[m] <= pow2[n]
         /\ \E q \in Nat \ {0} : pow2[n] = q * pow2[m]
<1> DEFINE P(k) == /\ pow2[m] <= pow2[k]
                   /\ m < k => 2 * pow2[m] <= pow2[k]
                   /\ \E q \in Nat \ {0} : pow2[k] = q * pow2[m]
<1> SUFFICES ASSUME ~P(n)
             PROVE  FALSE
  OBVIOUS
<1> DEFINE T == {k \in Nat : m <= k /\ ~P(k)}
<1>1. n \in T /\ T \subseteq Nat
  OBVIOUS
<1>2. PICK k \in T : \A j \in T : k <= j
  BY <1>1, LeastNumber
<1>3. pow2[m] \in Nat \ {0} /\ pow2[k] \in Nat \ {0}
  BY <1>2, PowersOfTwo
<1>4. CASE k = m
  <2>1. pow2[k] = 1 * pow2[m] /\ 1 \in Nat \ {0}
    BY <1>3, <1>4
  <2>2. P(k)
    BY <2>1, <1>3, <1>4
  <2> QED
    BY <2>2, <1>2
<1>5. CASE k # m
  <2>1. k - 1 \in Nat /\ m <= k - 1 /\ k - 1 \notin T /\ (k - 1) + 1 = k /\ m < k
    BY <1>2, <1>5
  <2>2. P(k - 1)
    BY <2>1
  <2>3. pow2[k] = 2 * pow2[k - 1] /\ pow2[k - 1] \in Nat \ {0}
    BY <2>1, PowersOfTwo
  <2>4. pow2[m] <= pow2[k] /\ 2 * pow2[m] <= pow2[k]
    BY <2>2, <2>3, <1>3
  <2>5. PICK q \in Nat \ {0} : pow2[k - 1] = q * pow2[m]
    BY <2>2
  <2>6. 2 * q \in Nat \ {0} /\ pow2[k] = (2 * q) * pow2[m]
    BY <2>3, <2>5, <1>3
  <2>7. P(k)
    BY <2>4, <2>6
  <2> QED
    BY <2>7, <1>2
<1> QED
  BY <1>4, <1>5

LEMMA PowersExceed ==
  ASSUME NEW n \in Nat
  PROVE  n < pow2[n]
<1> SUFFICES ASSUME ~(n < pow2[n])
             PROVE  FALSE
  OBVIOUS
<1> DEFINE T == {k \in Nat : ~(k < pow2[k])}
<1>1. n \in T /\ T \subseteq Nat
  OBVIOUS
<1>2. PICK k \in T : \A j \in T : k <= j
  BY <1>1, LeastNumber
<1>3. k # 0
  BY <1>2, PowersOfTwo
<1>4. k - 1 \in Nat /\ k - 1 \notin T /\ (k - 1) + 1 = k
  BY <1>2, <1>3
<1>5. k - 1 < pow2[k - 1] /\ pow2[k] = 2 * pow2[k - 1] /\ pow2[k - 1] \in Nat
  BY <1>4, PowersOfTwo
<1>6. k < pow2[k]
  BY <1>3, <1>4, <1>5
<1> QED
  BY <1>2, <1>6

\* Every number lies between a power of two and the next.
LEMMA LogExists ==
  ASSUME NEW x \in Nat \ {0}
  PROVE  \E r \in 0 .. x : pow2[r] <= x /\ x < pow2[r + 1]
<1> DEFINE T == {k \in Nat : x < pow2[k]}
<1>1. x \in T /\ T \subseteq Nat
  BY PowersExceed
<1>2. PICK k \in T : \A j \in T : k <= j
  BY <1>1, LeastNumber
<1>3. k # 0 /\ k <= x
  BY <1>1, <1>2, PowersOfTwo
<1>4. k - 1 \in 0 .. x /\ k - 1 \in Nat /\ k - 1 \notin T /\ (k - 1) + 1 = k
  BY <1>2, <1>3
<1>5. ~(x < pow2[k - 1]) /\ x < pow2[k] /\ pow2[k - 1] \in Nat
  BY <1>2, <1>4, PowersOfTwo
<1>6. pow2[k - 1] <= x
  BY <1>5
<1> QED
  BY <1>4, <1>5, <1>6

LEMMA Log2Is ==
  ASSUME NEW x \in Nat \ {0}
  PROVE  log2(x) \in Nat /\ pow2[log2(x)] <= x /\ x < pow2[log2(x) + 1]
<1>1. log2(x) \in 0 .. x /\ pow2[log2(x)] <= x /\ x < pow2[log2(x) + 1]
  BY LogExists DEF log2
<1> QED
  BY <1>1

\* Division and remainder of what is a multiple.
LEMMA MultipleDivides ==
  ASSUME NEW q \in Nat, NEW x \in Nat \ {0}
  PROVE  (q * x) \div x = q /\ (q * x) % x = 0
  OBVIOUS

=============================================================================
