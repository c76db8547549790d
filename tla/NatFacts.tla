------------------------------ MODULE NatFacts -----------------------------
(***************************************************************************)
(* Induction over natural numbers as a fact about sets: the proofs of the  *)
(* loops of the code take the set of the places where the loop has done    *)
(* what it should, and show that it holds them all.                        *)
(***************************************************************************)
EXTENDS Integers, WellFoundedInduction, TLAPS

\* A set of natural numbers that has a member has a least one.
LEMMA LeastNat ==
  ASSUME NEW T, T \subseteq Nat, T # {}
  PROVE  \E m \in T : \A k \in T : m <= k
<1> DEFINE R == OpToRel(<, Nat)
<1>1. IsWellFoundedOn(R, Nat)
  BY NatLessThanWellFounded, Zenon
<1>2. ASSUME NEW k \in Nat, NEW m \in Nat, k < m PROVE <<k, m>> \in R
  <2>1. <<k, m>> \in Nat \X Nat /\ <<k, m>>[1] < <<k, m>>[2]
    BY <1>2
  <2> QED
    BY <2>1 DEF OpToRel
<1> HIDE DEF R
<1>3. PICK m \in T : \A k \in T : ~(<<k, m>> \in R)
  BY <1>1, WFMin
<1>4. m \in Nat /\ \A k \in T : k \in Nat
  OBVIOUS
<1>5. \A k \in T : ~(k < m)
  BY <1>2, <1>3, <1>4
<1> QED
  BY <1>3, <1>4, <1>5

\* What holds at the first place and passes from each to the next holds at
\* all of them.
LEMMA UpTo ==
  ASSUME NEW a \in Nat, NEW b \in Nat, NEW S, a <= b => a \in S,
         \A k \in a..b-1 : k \in S => k + 1 \in S
  PROVE  \A k \in a..b : k \in S
<1> DEFINE T == {k \in a..b : k \notin S}
<1>1. CASE T = {}
  BY <1>1
<1>2. CASE T # {}
  <2>1. T \subseteq Nat
    OBVIOUS
  <2> HIDE DEF T
  <2>2. PICK m \in T : \A k \in T : m <= k
    BY <1>2, <2>1, LeastNat
  <2>3. m \in a..b /\ m \notin S
    BY DEF T
  <2>4. m # a
    BY <2>3
  <2>5. m - 1 \in a..b-1 /\ m - 1 + 1 = m /\ ~(m <= m - 1)
    BY <2>3, <2>4
  <2>6. m - 1 \notin T /\ m - 1 \in a..b
    BY <2>2, <2>5
  <2>7. m - 1 \in S
    BY <2>6 DEF T
  <2> QED
    BY <2>3, <2>5, <2>7
<1> QED
  BY <1>1, <1>2
=============================================================================
