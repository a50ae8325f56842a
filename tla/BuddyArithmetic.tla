------ MODULE BuddyArithmetic ------
(***************************************************************************)
(* The arithmetic of util.c that the two buddy allocators share, the one   *)
(* of page frames and the one of the kernel's heap: the size of a block of *)
(* a given order, and the order of a block of a given size.                *)
(***************************************************************************)
EXTENDS Integers

\* pow(2, n), and 1 << n: the blocks in one of order n.
pow2[n \in Nat] == IF n = 0 THEN 1 ELSE 2 * pow2[n - 1]

\* The number of times x can be halved until it is 1.  The loop of the code
\* has no end for x = 0, and neither has this a value.
log2(x) == CHOOSE r \in 0 .. x : pow2[r] <= x /\ x < pow2[r + 1]
====
