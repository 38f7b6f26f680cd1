--------------------------- MODULE SelectionProofs ---------------------------
(***************************************************************************)
(* What counting places comes to: ranks number the places of a sequence    *)
(* from one without a gap, in order, and go on when places are added       *)
(* behind; so a selection holds every selected element once, in order.     *)
(***************************************************************************)
EXTENDS Selection, Integers, SequenceTheorems, FiniteSetTheorems, WellFoundedInduction, TLAPS

-----------------------------------------------------------------------------
(* Natural numbers.                                                        *)

LEMMA Precedes == \A x, y \in Nat : <<x, y>> \in OpToRel(<, Nat) <=> x < y
  BY DEF OpToRel

\* What stands in for an induction: a set of numbers has a least one.
LEMMA Least ==
  ASSUME NEW T, T \subseteq Nat, T # {}
  PROVE  \E x \in T : \A y \in T : x <= y
<1>1. PICK x \in T : \A y \in T : <<y, x>> \notin OpToRel(<, Nat)
  BY NatLessThanWellFounded, WFMin
<1>2. \A y \in T : ~(y < x)
  BY <1>1, Precedes
<1> QED
  BY <1>2

-----------------------------------------------------------------------------
(* Ranks.                                                                  *)

LEMMA PlacesBounded ==
  ASSUME NEW n \in Nat, NEW A, A \subseteq 1..n
  PROVE  IsFiniteSet(A) /\ (\A x \in A : x \in Nat) /\ (\A x \in A : x <= n)
<1>1. IsFiniteSet(1..n)
  BY FS_Interval
<1>2. IsFiniteSet(A)
  BY <1>1, FS_Subset
<1>3. \A x \in A : x \in 1..n
  OBVIOUS
<1> QED
  BY <1>2, <1>3

LEMMA RankType ==
  ASSUME NEW A, IsFiniteSet(A), NEW p
  PROVE  /\ Cardinality(A) \in Nat
         /\ Rank(A, p) \in Nat /\ Rank(A, p) <= Cardinality(A)
<1> DEFINE B == {q \in A : q <= p}
<1>1. IsFiniteSet(B) /\ Cardinality(B) <= Cardinality(A)
  BY FS_Subset
<1>2. Cardinality(B) \in Nat
  BY <1>1, FS_CardinalityType
<1> QED
  BY <1>1, <1>2, FS_CardinalityType DEF Rank

\* Ranks keep the order.
LEMMA RankOrder ==
  ASSUME NEW A, IsFiniteSet(A), \A x \in A : x \in Nat, NEW p \in A, NEW q \in A, p < q
  PROVE  Rank(A, p) < Rank(A, q)
<1> DEFINE P == {x \in A : x <= p}
           Q == {x \in A : x <= q}
<1>1. P \subseteq Q /\ q \in Q /\ q \notin P /\ Q \subseteq A
  OBVIOUS
<1>2. IsFiniteSet(Q)
  BY <1>1, FS_Subset
<1>3. Rank(A, p) = Cardinality(P) /\ Rank(A, q) = Cardinality(Q)
  BY DEF Rank
<1> HIDE DEF P, Q
<1>4. Cardinality(P) <= Cardinality(Q) /\ Cardinality(P) # Cardinality(Q)
  BY <1>1, <1>2, FS_Subset
<1>5. Cardinality(P) \in Nat /\ Cardinality(Q) \in Nat
  BY <1>1, <1>2, FS_Subset, FS_CardinalityType
<1> QED
  BY <1>3, <1>4, <1>5

LEMMA RankInjective ==
  ASSUME NEW A, IsFiniteSet(A), \A x \in A : x \in Nat, NEW p \in A, NEW q \in A,
         Rank(A, p) = Rank(A, q)
  PROVE  p = q
<1>1. Rank(A, p) \in Nat
  BY RankType
<1>2. ~(p < q)
  BY <1>1, RankOrder
<1>3. ~(q < p)
  BY <1>1, RankOrder
<1> QED
  BY <1>2, <1>3

\* A place has a rank from one to the number of places,
LEMMA RankRange ==
  ASSUME NEW A, IsFiniteSet(A), \A x \in A : x \in Nat, NEW p \in A
  PROVE  Rank(A, p) \in 1..Cardinality(A)
<1> DEFINE B == {q \in A : q <= p}
<1>1. IsFiniteSet(B)
  BY FS_Subset
<1>2. p \in B
  OBVIOUS
<1>3. Rank(A, p) # 0
  BY <1>1, <1>2, FS_EmptySet DEF Rank
<1> QED
  BY <1>3, RankType

\* and every number in between is the rank of a place.
LEMMA RankReached ==
  ASSUME NEW n \in Nat, NEW A, A \subseteq 1..n, NEW k \in 1..Cardinality(A)
  PROVE  \E p \in A : Rank(A, p) = k
<1> DEFINE T == {i \in Nat : Rank(A, i) >= k}
<1>a. IsFiniteSet(A) /\ (\A x \in A : x \in Nat) /\ (\A x \in A : x <= n)
  BY PlacesBounded
<1>b. \A x \in A : x \in 1..n
  OBVIOUS
<1>c. Cardinality(A) \in Nat /\ k \in Nat
  BY <1>a, RankType
<1>1. n \in T
  <2>1. A = {q \in A : q <= n}
    BY <1>a
  <2>2. Rank(A, n) = Cardinality(A)
    BY <2>1 DEF Rank
  <2> QED
    BY <1>c, <2>2
<1>2. PICK i \in T : \A j \in T : i <= j
  <2> HIDE DEF T
  <2>1. T \subseteq Nat
    BY DEF T
  <2> QED
    BY <1>1, <2>1, Least
<1>3. i # 0
  <2>1. {q \in A : q <= 0} = {}
    <3>1. \A q \in A : ~(q <= 0)
      BY <1>b
    <3> QED
      BY <3>1
  <2>2. Rank(A, 0) = 0
    BY <2>1, FS_EmptySet DEF Rank
  <2> QED
    BY <1>c, <2>2
<1>4. i \in Nat /\ i - 1 \in Nat /\ i - 1 \notin T /\ Rank(A, i) >= k
  BY <1>2, <1>3
<1>5. Rank(A, i - 1) \in Nat /\ Rank(A, i) \in Nat /\ Rank(A, i - 1) < k
  BY <1>a, <1>c, <1>4, RankType
<1> DEFINE P == {q \in A : q <= i - 1}
           Q == {q \in A : q <= i}
<1>6. Rank(A, i - 1) = Cardinality(P) /\ Rank(A, i) = Cardinality(Q)
  BY DEF Rank
<1>7. i \in A
  <2> SUFFICES ASSUME i \notin A PROVE FALSE
    OBVIOUS
  <2>1. \A q \in A : q <= i <=> q <= i - 1
    BY <1>a, <1>4
  <2>2. P = Q
    BY <2>1
  <2> QED
    BY <1>c, <1>4, <1>5, <1>6, <2>2
<1>8. Q = P \cup {i} /\ i \notin P /\ IsFiniteSet(P)
  <2>1. \A q \in A : q <= i <=> q <= i - 1 \/ q = i
    BY <1>a, <1>4
  <2>2. Q = P \cup {i}
    BY <1>7, <1>4, <2>1
  <2>3. i \notin P
    BY <1>4
  <2> QED
    BY <1>a, <2>2, <2>3, FS_Subset
<1> HIDE DEF P, Q
<1>9. Cardinality(Q) = Cardinality(P) + 1
  BY <1>8, FS_AddElement
<1>10. Rank(A, i) = k
  BY <1>c, <1>4, <1>5, <1>6, <1>9
<1> QED
  BY <1>7, <1>10

-----------------------------------------------------------------------------
(* Selections.                                                             *)

LEMMA SelectedLen ==
  ASSUME NEW seq, Len(seq) \in Nat, NEW A, A \subseteq 1..Len(seq)
  PROVE  Cardinality(A) \in Nat /\ Len(Selected(seq, A)) = Cardinality(A)
<1>1. Cardinality(A) \in Nat
  BY PlacesBounded, RankType
<1> QED
  BY <1>1 DEF Selected

LEMMA PlaceRanked ==
  ASSUME NEW n \in Nat, NEW A, A \subseteq 1..n, NEW k \in 1..Cardinality(A)
  PROVE  Place(A, k) \in A /\ Rank(A, Place(A, k)) = k
  BY RankReached DEF Place

\* Each element of a selection comes from the place of its rank.
LEMMA SelectedFrom ==
  ASSUME NEW seq, NEW A, NEW k \in 1..Cardinality(A)
  PROVE  Selected(seq, A)[k] = seq[Place(A, k)]
  BY DEF Selected

\* Every selected place is there, at its rank.
LEMMA SelectedAt ==
  ASSUME NEW seq, Len(seq) \in Nat, NEW A, A \subseteq 1..Len(seq), NEW p \in A
  PROVE  /\ Rank(A, p) \in 1..Cardinality(A)
         /\ Selected(seq, A)[Rank(A, p)] = seq[p]
<1>a. IsFiniteSet(A) /\ (\A x \in A : x \in Nat)
  BY PlacesBounded
<1>1. Rank(A, p) \in 1..Cardinality(A)
  BY <1>a, RankRange
<1>2. Place(A, Rank(A, p)) \in A /\ Rank(A, Place(A, Rank(A, p))) = Rank(A, p)
  BY <1>1 DEF Place
<1>3. Selected(seq, A)[Rank(A, p)] = seq[Place(A, Rank(A, p))]
  BY <1>1 DEF Selected
<1>4. Place(A, Rank(A, p)) = p
  BY <1>a, <1>2, RankInjective
<1> QED
  BY <1>1, <1>3, <1>4

LEMMA SelectedType ==
  ASSUME NEW S, NEW seq, Len(seq) \in Nat, NEW A, A \subseteq 1..Len(seq),
         \A p \in A : seq[p] \in S
  PROVE  Selected(seq, A) \in Seq(S)
<1> DEFINE s == Selected(seq, A)
<1>1. Cardinality(A) \in Nat
  BY SelectedLen
<1>2. ASSUME NEW k \in 1..Cardinality(A)
      PROVE  s[k] \in S
  <2>1. Place(A, k) \in A
    BY PlaceRanked
  <2>2. s[k] = seq[Place(A, k)]
    BY SelectedFrom
  <2> QED
    BY <2>1, <2>2
<1>3. s = [k \in 1..Cardinality(A) |-> s[k]]
  BY DEF Selected
<1> HIDE DEF s
<1>4. s \in [1..Cardinality(A) -> S]
  BY <1>2, <1>3
<1>5. s \in Seq(S)
  BY <1>1, <1>4
<1> QED
  BY <1>5 DEF s
=============================================================================
