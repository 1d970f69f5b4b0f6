---------------------------- MODULE NaturalsProofs -----------------------------
(***************************************************************************)
(* What the walks of the mirror need of the naturals: a set of them has a  *)
(* least member, one closed under successor is all of them, and a function *)
(* given step by step exists.                                              *)
(***************************************************************************)
EXTENDS Naturals, WellFoundedInduction, NaturalsInduction, TLAPS

LEMMA LeastNat ==
  ASSUME NEW S \in SUBSET Nat, S # {}
  PROVE  \E m \in S : \A n \in S : m <= n
<1>1. PICK m \in S : \A n \in S : ~(<<n, m>> \in OpToRel(<, Nat))
  BY NatLessThanWellFounded, WFMin, Zenon
<1>2. \A n \in S : ~(n < m)
  BY <1>1 DEF OpToRel
<1> QED BY <1>2

\* A set of naturals with 0 and, with k, k + 1 holds every natural.
LEMMA NatClosed ==
  ASSUME NEW S \in SUBSET Nat, 0 \in S, \A k \in S : k + 1 \in S
  PROVE  S = Nat
<1> SUFFICES ASSUME Nat \ S # {} PROVE FALSE
  OBVIOUS
<1>1. PICK m \in Nat \ S : \A n \in Nat \ S : m <= n
  BY LeastNat
<1>2. m - 1 \in Nat /\ m - 1 \in S
  BY <1>1
<1> QED BY <1>1, <1>2

(* What a function on the naturals computes from its value one below: the first n values
   exist for every n, and any two such tables agree. *)
Stepwise(f, V, v0, H) == f \in [Nat -> V] /\ f[0] = v0 /\ \A k \in Nat : f[k + 1] = H[f[k]]

LEMMA StepwiseFunction ==
  ASSUME NEW V, NEW v0 \in V, NEW H \in [V -> V]
  PROVE  \E f : Stepwise(f, V, v0, H)
<1> DEFINE Upto(n, g) == g[0] = v0 /\ \A k \in 0..(n - 1) : g[k + 1] = H[g[k]]
           S == {n \in Nat : \E g \in [0..n -> V] : Upto(n, g)}
<1>1. S = Nat
  <2>1. 0 \in S
    <3>1. [i \in 0..0 |-> v0] \in [0..0 -> V] /\ Upto(0, [i \in 0..0 |-> v0])
      OBVIOUS
    <3> QED BY <3>1
  <2>2. ASSUME NEW n \in S PROVE n + 1 \in S
    <3>1. n \in Nat /\ n + 1 \in Nat
      OBVIOUS
    <3>2. PICK g \in [0..n -> V] : Upto(n, g)
      OBVIOUS
    <3> DEFINE h == [i \in 0..(n + 1) |-> IF i = n + 1 THEN H[g[n]] ELSE g[i]]
    <3>3. /\ h \in [0..(n + 1) -> V] /\ h[n + 1] = H[g[n]]
          /\ \A i \in 0..n : h[i] = g[i]
      BY <3>1
    <3> HIDE DEF h
    <3>4. \A k \in 0..n : h[k + 1] = H[h[k]]
      <4> SUFFICES ASSUME NEW k \in 0..n PROVE h[k + 1] = H[h[k]]
        OBVIOUS
      <4>1. CASE k = n
        BY <3>1, <3>3, <4>1
      <4>2. CASE k # n
        <5>1. k \in 0..(n - 1) /\ k + 1 \in 0..n
          BY <3>1, <4>2
        <5> QED BY <3>2, <3>3, <5>1
      <4> QED BY <4>1, <4>2
    <3>5. h[0] = v0
      BY <3>1, <3>2, <3>3
    <3>6. n + 1 - 1 = n
      BY <3>1
    <3> QED BY <3>1, <3>3, <3>4, <3>5, <3>6
  <2> HIDE DEF S
  <2>3. S \subseteq Nat
    BY DEF S
  <2> QED BY <2>1, <2>2, <2>3, NatClosed
<1> DEFINE G(n) == CHOOSE g \in [0..n -> V] : Upto(n, g)
           f == [n \in Nat |-> G(n)[n]]
<1>2. \A n \in Nat : G(n) \in [0..n -> V] /\ Upto(n, G(n))
  BY <1>1
<1> HIDE DEF G
<1>3. ASSUME NEW n \in Nat PROVE \A i \in Nat : i <= n => G(n)[i] = G(n + 1)[i]
  <2> DEFINE T == {i \in Nat : i <= n => G(n)[i] = G(n + 1)[i]}
  <2>1. 0 \in T
    BY <1>2
  <2>2. ASSUME NEW i \in T PROVE i + 1 \in T
    <3> SUFFICES ASSUME i + 1 <= n PROVE G(n)[i + 1] = G(n + 1)[i + 1]
      OBVIOUS
    <3>1. i \in Nat /\ i \in 0..(n - 1) /\ i \in 0..(n + 1 - 1)
      OBVIOUS
    <3>2. G(n)[i] = G(n + 1)[i]
      OBVIOUS
    <3>3. G(n)[i + 1] = H[G(n)[i]]
      BY <1>2, <3>1
    <3>4. G(n + 1)[i + 1] = H[G(n + 1)[i]]
      BY <1>2, <3>1
    <3> QED BY <3>2, <3>3, <3>4
  <2> HIDE DEF T
  <2>3. T \subseteq Nat
    BY DEF T
  <2>4. T = Nat
    BY <2>1, <2>2, <2>3, NatClosed
  <2> QED BY <2>4 DEF T
<1>4. f \in [Nat -> V]
  BY <1>2
<1>5. f[0] = v0
  BY <1>2
<1>6. ASSUME NEW k \in Nat PROVE f[k + 1] = H[f[k]]
  <2>1. f[k + 1] = G(k + 1)[k + 1] /\ f[k] = G(k)[k]
    OBVIOUS
  <2>2. G(k + 1)[k + 1] = H[G(k + 1)[k]]
    <3>1. k \in 0..(k + 1 - 1)
      OBVIOUS
    <3> QED BY <1>2, <3>1
  <2> QED BY <1>3, <2>1, <2>2
<1> HIDE DEF f
<1> QED BY <1>4, <1>5, <1>6 DEF Stepwise
================================================================================
