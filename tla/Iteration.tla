------------------------------- MODULE Iteration -------------------------------
(***************************************************************************)
(* Induction up to a number, and functions that are defined step by step:   *)
(* what the proofs about recursive definitions rest on.  The provers cannot *)
(* take the induction theorems of the library, which have an operator as a  *)
(* parameter; what is used instead is that < on the naturals is well-       *)
(* founded, for sets of numbers.                                            *)
(***************************************************************************)
EXTENDS Naturals, WellFoundedInduction, TLAPS

\* A set of naturals has a least element.
LEMMA LeastOne ==
    ASSUME NEW T \in SUBSET Nat, T # {}
    PROVE  \E x \in T : \A y \in T : x <= y
<1> DEFINE R == OpToRel(<, Nat)
<1>1. IsWellFoundedOn(R, Nat)
  BY NatLessThanWellFounded
<1> HIDE DEF R
<1>2. PICK x \in T : \A y \in T : ~(<<y, x>> \in R)
  BY <1>1, WFMin
<1>3. ASSUME NEW y \in T PROVE x <= y
  <2>1. ~(y < x)
    BY <1>2, <1>3 DEF R, OpToRel
  <2> QED BY <2>1
<1> QED BY <1>3

\* What holds of 0, and of each number up to N if of the one before, holds up to N.
LEMMA UpTo ==
    ASSUME NEW N \in Nat, NEW T, 0 \in T, \A n \in 0..N : n \in T /\ n < N => n + 1 \in T
    PROVE  \A n \in 0..N : n \in T
<1> DEFINE Rest == {n \in 0..N : n \notin T}
<1> SUFFICES ASSUME Rest # {} PROVE FALSE
  OBVIOUS
<1>1. PICK x \in Rest : \A y \in Rest : x <= y
  <2>1. Rest \in SUBSET Nat
    OBVIOUS
  <2> HIDE DEF Rest
  <2> QED BY <2>1, LeastOne
<1>2. x # 0 /\ x - 1 \in 0..N /\ x - 1 < N /\ ~(x <= x - 1)
  BY <1>1
<1>3. x - 1 \in T
  BY <1>1, <1>2
<1>4. (x - 1) + 1 \in T
  BY <1>2, <1>3
<1> QED BY <1>1, <1>4

\* N steps from x, step j by the function f[j], can be taken.
IsIteration(G, S, x, N, f) ==
    G \in [0..N -> S] /\ G[0] = x /\ \A j \in 1..N : G[j] = f[j][G[j - 1]]

\* They can, for any functions of the states into the states.
LEMMA Iterates ==
    ASSUME NEW S, NEW x \in S, NEW N \in Nat, NEW f \in [1..N -> [S -> S]]
    PROVE  \E G : IsIteration(G, S, x, N, f)
<1> DEFINE T == {n \in 0..N : \E G : IsIteration(G, S, x, n, f)}
<1>1. 0 \in T
  <2>1. IsIteration([j \in 0..0 |-> x], S, x, 0, f)
    BY DEF IsIteration
  <2> QED BY <2>1
<1>2. ASSUME NEW n \in 0..N, n \in T, n < N PROVE n + 1 \in T
  <2>1. PICK G : IsIteration(G, S, x, n, f)
    BY <1>2
  <2> DEFINE H == [j \in 0..(n + 1) |-> IF j = n + 1 THEN f[n + 1][G[n]] ELSE G[j]]
  <2>2. f[n + 1][G[n]] \in S
    BY <1>2, <2>1 DEF IsIteration
  <2>3. H \in [0..(n + 1) -> S] /\ H[0] = x
    BY <1>2, <2>1, <2>2 DEF IsIteration
  <2>4. ASSUME NEW j \in 1..(n + 1) PROVE H[j] = f[j][H[j - 1]]
    <3>1. CASE j = n + 1
      BY <1>2, <3>1
    <3>2. CASE j # n + 1
      <4>1. j \in 1..n /\ j - 1 \in 0..n
        BY <1>2, <3>2
      <4>2. H[j] = G[j] /\ H[j - 1] = G[j - 1]
        BY <1>2, <4>1
      <4> QED BY <2>1, <4>1, <4>2 DEF IsIteration
    <3> QED BY <3>1, <3>2
  <2>5. IsIteration(H, S, x, n + 1, f)
    BY <2>3, <2>4 DEF IsIteration
  <2>6. n + 1 \in 0..N
    BY <1>2
  <2> HIDE DEF H
  <2> QED BY <2>5, <2>6
<1>3. N \in T
  <2> HIDE DEF T
  <2>1. \A n \in 0..N : n \in T /\ n < N => n + 1 \in T
    BY <1>2
  <2>2. \A n \in 0..N : n \in T
    BY <1>1, <2>1, UpTo
  <2> QED BY <2>2
<1> QED BY <1>3

=============================================================================
