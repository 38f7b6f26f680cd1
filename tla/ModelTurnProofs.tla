--------------------------- MODULE ModelTurnProofs ---------------------------
(***************************************************************************)
(* Theorems about ModelTurn: what a request stands for, which summaries    *)
(* survive, and what the calls of a response do, for every history, every  *)
(* budget and every number of faults.                                      *)
(*                                                                         *)
(* The first part is about the operators of Compaction: the groups of a    *)
(* log and its cut.                                                        *)
(***************************************************************************)
EXTENDS ModelTurn, SelectionProofs

-----------------------------------------------------------------------------
(* Messages and logs.                                                      *)

Summary == [version : Nat, through : Nat]

\* A message as the constructors build it.
Message ==
  {m \in [kind : {"user", "assistant", "result"}, calls : SUBSET CallIds,
          call : SUBSET CallIds, tokens : Nat] :
     /\ IsFiniteSet(m.calls)
     /\ m.kind # "assistant" => m.calls = {}
     /\ IF m.kind = "result" THEN \E c \in CallIds : m.call = {c} ELSE m.call = {}}

\* One log continues another.
Extends(longer, shorter) ==
  /\ Len(shorter) <= Len(longer)
  /\ \A i \in 1..Len(shorter) : longer[i] = shorter[i]

\* A call is proposed once, answered once, and answered after it was proposed.
Consistent(history) ==
  /\ \A i, j \in Positions(history) : i # j => history[i].calls \cap history[j].calls = {}
  /\ \A i, j \in Positions(history) : i # j => history[i].call \cap history[j].call = {}
  /\ \A j \in Positions(history) : \A c \in history[j].call :
       \E i \in 1..(j - 1) : c \in history[i].calls

LEMMA Greatest ==
  ASSUME NEW n \in Nat, NEW T, T \subseteq 1..n, T # {}
  PROVE  \E x \in T : \A y \in T : y <= x
<1> DEFINE Bounds == {m \in Nat : \A y \in T : y <= m}
<1>a. \A y \in T : y \in 1..n
  OBVIOUS
<1>1. n \in Bounds
  BY <1>a
<1>2. PICK m \in Bounds : \A k \in Bounds : m <= k
  <2>1. Bounds \subseteq Nat /\ Bounds # {}
    BY <1>1
  <2> HIDE DEF Bounds
  <2> QED
    BY <2>1, Least
<1>3. CASE m \in T
  BY <1>3
<1>4. CASE m \notin T
  <2>1. m # 0
    <3>1. PICK t \in T : t \in 1..n
      BY <1>a
    <3>2. t <= m /\ t >= 1
      BY <3>1
    <3> QED
      BY <3>2
  <2>2. m - 1 \in Bounds
    BY <2>1, <1>a, <1>4
  <2> QED
    BY <2>2, <1>2
<1> QED
  BY <1>3, <1>4

-----------------------------------------------------------------------------
(* Groups.                                                                 *)

\* What is gathered as far as i is gathered as far as any j before it.
LEMMA GathersBelow ==
  ASSUME NEW l, NEW a \in Nat, NEW i \in Nat, NEW j \in Nat, j <= i, Gathers(l, a, i)
  PROVE  Gathers(l, a, j)
  BY DEF Gathers

\* A group has an end: itself or what it gathers, and no more is gathered.
LEMMA GroupEnds ==
  ASSUME NEW l, Len(l) \in Nat, NEW s \in 1..Len(l)
  PROVE  /\ GroupEnd(l, s) \in s..Len(l)
         /\ GroupEnd(l, s) # s => Gathers(l, s, GroupEnd(l, s))
         /\ GroupEnd(l, s) # Len(l) => ~Gathers(l, s, GroupEnd(l, s) + 1)
<1> DEFINE Stops == {e \in s..Len(l) : e = Len(l) \/ ~Gathers(l, s, e + 1)}
<1>1. Len(l) \in Stops
  OBVIOUS
<1>2. PICK e \in Stops : \A k \in Stops : e <= k
  <2>1. Stops \subseteq Nat /\ Stops # {}
    BY <1>1
  <2> HIDE DEF Stops
  <2> QED
    BY <2>1, Least
<1>3. e = s \/ Gathers(l, s, e)
  <2>1. ASSUME e # s
        PROVE  Gathers(l, s, e)
    <3>1. e - 1 \in s..Len(l) /\ e - 1 # Len(l) /\ (e - 1) + 1 = e
      BY <2>1
    <3>2. e - 1 \notin Stops
      <4>1. ~(e <= e - 1)
        BY <1>2
      <4> HIDE DEF Stops
      <4> QED
        BY <1>2, <4>1
    <3> QED
      BY <3>1, <3>2
  <2> QED
    BY <2>1
<1>4. \E k \in s..Len(l) :
        /\ k = s \/ Gathers(l, s, k)
        /\ k = Len(l) \/ ~Gathers(l, s, k + 1)
  BY <1>2, <1>3
<1> QED
  BY <1>4 DEF GroupEnd

\* No group starts inside another.
LEMMA GroupsApart ==
  ASSUME NEW l, Len(l) \in Nat, NEW s \in GroupStarts(l), NEW t \in GroupStarts(l), s < t
  PROVE  GroupEnd(l, s) < t
<1>1. s \in 1..Len(l) /\ t \in 1..Len(l)
  BY DEF GroupStarts, Positions
<1>2. GroupEnd(l, s) \in s..Len(l) /\ (GroupEnd(l, s) # s => Gathers(l, s, GroupEnd(l, s)))
  BY <1>1, GroupEnds
<1>3. ASSUME t <= GroupEnd(l, s)
      PROVE  FALSE
  <2>1. Gathers(l, s, GroupEnd(l, s))
    BY <1>1, <1>2, <1>3
  <2>2. Gathers(l, s, t)
    BY <1>1, <1>2, <1>3, <2>1, GathersBelow
  <2>3. s \in 1..(t - 1)
    BY <1>1
  <2> QED
    BY <2>2, <2>3 DEF GroupStarts
<1> QED
  BY <1>1, <1>2, <1>3

\* An assistant message opens a group: no other message gathers it.
LEMMA AssistantsStart ==
  ASSUME NEW l, Len(l) \in Nat, NEW i \in 1..Len(l), l[i].kind = "assistant"
  PROVE  i \in GroupStarts(l)
<1>1. ASSUME NEW a \in 1..(i - 1), Gathers(l, a, i)
      PROVE  FALSE
  <2>1. i \in (a + 1)..i
    OBVIOUS
  <2> QED
    BY <1>1, <2>1 DEF Gathers
<1> QED
  BY <1>1 DEF GroupStarts, Positions

-----------------------------------------------------------------------------
(* A log that grows.                                                       *)

LEMMA GathersKept ==
  ASSUME NEW l, NEW m, Len(l) \in Nat, Len(m) \in Nat, Extends(m, l),
         NEW a \in 1..Len(l), NEW i \in 1..Len(l)
  PROVE  Gathers(m, a, i) <=> Gathers(l, a, i)
<1>1. \A j \in (a + 1)..i : j \in 1..Len(l)
  OBVIOUS
<1> QED
  BY <1>1 DEF Gathers, Extends

LEMMA StartsKept ==
  ASSUME NEW l, NEW m, Len(l) \in Nat, Len(m) \in Nat, Extends(m, l),
         NEW i \in 1..Len(l)
  PROVE  i \in GroupStarts(m) <=> i \in GroupStarts(l)
<1>1. i \in 1..Len(m)
  BY DEF Extends
<1>2. \A a \in 1..(i - 1) : Gathers(m, a, i) <=> Gathers(l, a, i)
  <2> TAKE a \in 1..(i - 1)
  <2>1. a \in 1..Len(l)
    OBVIOUS
  <2> QED
    BY <2>1, GathersKept
<1> QED
  BY <1>1, <1>2 DEF GroupStarts, Positions

LEMMA GroupGrows ==
  ASSUME NEW l, NEW m, Len(l) \in Nat, Len(m) \in Nat, Extends(m, l),
         NEW s \in 1..Len(l)
  PROVE  GroupEnd(l, s) <= GroupEnd(m, s)
<1>1. s \in 1..Len(m) /\ Len(l) <= Len(m)
  BY DEF Extends
<1>2. GroupEnd(l, s) \in s..Len(l) /\ (GroupEnd(l, s) # s => Gathers(l, s, GroupEnd(l, s)))
  BY GroupEnds
<1>3. /\ GroupEnd(m, s) \in s..Len(m)
      /\ GroupEnd(m, s) # Len(m) => ~Gathers(m, s, GroupEnd(m, s) + 1)
  BY <1>1, GroupEnds
<1> DEFINE e == GroupEnd(l, s)
           f == GroupEnd(m, s)
<1> HIDE DEF e, f
<1>4. e \in s..Len(l) /\ (e # s => Gathers(l, s, e))
  BY <1>2 DEF e
<1>5. f \in s..Len(m) /\ (f # Len(m) => ~Gathers(m, s, f + 1))
  BY <1>3 DEF f
<1>6. ASSUME f < e
      PROVE  FALSE
  <2>1. f + 1 \in 1..Len(l) /\ f + 1 <= e /\ e # s /\ f # Len(m)
    BY <1>1, <1>4, <1>5, <1>6
  <2>2. Gathers(l, s, f + 1)
    BY <2>1, <1>4, GathersBelow
  <2>3. Gathers(m, s, f + 1)
    BY <2>1, <2>2, GathersKept
  <2> QED
    BY <2>1, <2>3, <1>5
<1>7. e <= f
  BY <1>4, <1>5, <1>6
<1> QED
  BY <1>7 DEF e, f

LEMMA CompleteKept ==
  ASSUME NEW l, NEW m, Len(l) \in Nat, Len(m) \in Nat, Extends(m, l),
         NEW b \in 1..Len(l), Cardinality(l[b].calls) \in Nat, ~Incomplete(l, b)
  PROVE  ~Incomplete(m, b)
<1>1. GroupEnd(l, b) <= GroupEnd(m, b)
  BY GroupGrows
<1>2. b \in 1..Len(m) /\ m[b] = l[b]
  BY DEF Extends
<1>3. GroupEnd(l, b) \in b..Len(l) /\ GroupEnd(m, b) \in b..Len(m)
  BY <1>2, GroupEnds
<1> DEFINE e == GroupEnd(l, b)
           f == GroupEnd(m, b)
           n == Cardinality(l[b].calls)
<1>4. n \in Nat /\ ~(e - b < n)
  BY DEF Incomplete
<1> HIDE DEF e, f, n
<1>5. e \in Nat /\ f \in Nat /\ e <= f
  BY <1>1, <1>3 DEF e, f
<1>6. ~(f - b < n)
  BY <1>4, <1>5
<1> QED
  BY <1>2, <1>6 DEF Incomplete, f, n

\* What a summary may cover, it may cover later.
LEMMA CoverableKept ==
  ASSUME NEW l, NEW m, Len(l) \in Nat, Len(m) \in Nat, Extends(m, l),
         \A i \in 1..Len(l) : Cardinality(l[i].calls) \in Nat,
         NEW s \in Coverable(l)
  PROVE  s \in Coverable(m)
<1>1. s \in GroupStarts(l) /\ s \in 1..Len(l)
  BY DEF Coverable, GroupStarts, Positions
<1>2. s \in GroupStarts(m)
  BY <1>1, StartsKept
<1>3. ASSUME NEW b \in GroupStarts(m), b <= s
      PROVE  ~Incomplete(m, b)
  <2>1. b \in 1..Len(l)
    BY <1>1, <1>3 DEF GroupStarts, Positions
  <2>2. b \in GroupStarts(l)
    BY <2>1, StartsKept
  <2>3. ~Incomplete(l, b)
    BY <1>3, <2>2 DEF Coverable
  <2> QED
    BY <2>1, <2>3, CompleteKept
<1>4. Cardinality({k \in GroupStarts(m) : k > s}) >= PreserveRecent
  <2> DEFINE K == {k \in GroupStarts(l) : k > s}
             M == {k \in GroupStarts(m) : k > s}
  <2>1. Len(l) <= Len(m)
    BY DEF Extends
  <2>2. K \subseteq M
    <3>1. ASSUME NEW k \in K
          PROVE  k \in M
      <4>1. k \in 1..Len(l) /\ k \in GroupStarts(l)
        BY DEF GroupStarts, Positions
      <4>2. k \in GroupStarts(m)
        BY <4>1, StartsKept
      <4> QED
        BY <4>2
    <3> QED
      BY <3>1
  <2>3. IsFiniteSet(M) /\ IsFiniteSet(K)
    <3>1. M \subseteq 1..Len(m)
      BY DEF GroupStarts, Positions
    <3>2. K \subseteq 1..Len(l)
      BY DEF GroupStarts, Positions
    <3> HIDE DEF M, K
    <3> QED
      BY <3>1, <3>2, PlacesBounded
  <2>4. Cardinality(K) >= PreserveRecent
    BY DEF Coverable
  <2> HIDE DEF K, M
  <2>5. Cardinality(K) <= Cardinality(M)
    BY <2>2, <2>3, FS_Subset
  <2>6. Cardinality(K) \in Nat /\ Cardinality(M) \in Nat
    BY <2>3, FS_CardinalityType
  <2>7. PreserveRecent \in Nat
    BY BudgetAssumption
  <2>8. Cardinality(M) >= PreserveRecent
    BY <2>4, <2>5, <2>6, <2>7
  <2> QED
    BY <2>8 DEF M
<1> QED
  BY <1>2, <1>3, <1>4 DEF Coverable

-----------------------------------------------------------------------------
(* The cut.                                                                *)

\* The group the cut comes behind.
LastCovered(l) == CHOOSE s \in Coverable(l) : \A t \in Coverable(l) : t <= s

LEMMA LastCoveredIs ==
  ASSUME NEW l, Len(l) \in Nat, Coverable(l) # {}
  PROVE  /\ LastCovered(l) \in Coverable(l)
         /\ \A t \in Coverable(l) : t <= LastCovered(l)
         /\ FindCut(l) = GroupEnd(l, LastCovered(l))
<1>1. Coverable(l) \subseteq 1..Len(l)
  BY DEF Coverable, GroupStarts, Positions
<1>2. \E x \in Coverable(l) : \A t \in Coverable(l) : t <= x
  BY <1>1, Greatest
<1>3. LastCovered(l) \in Coverable(l) /\ \A t \in Coverable(l) : t <= LastCovered(l)
  BY <1>2 DEF LastCovered
<1>4. FindCut(l) = GroupEnd(l, LastCovered(l))
  BY DEF FindCut, LastCovered
<1> QED
  BY <1>3, <1>4

LEMMA LastCoveredStarts ==
  ASSUME NEW l, Len(l) \in Nat, Coverable(l) # {}
  PROVE  /\ LastCovered(l) \in GroupStarts(l)
         /\ LastCovered(l) \in 1..Len(l)
         /\ FindCut(l) \in LastCovered(l)..Len(l)
<1>1. LastCovered(l) \in Coverable(l) /\ FindCut(l) = GroupEnd(l, LastCovered(l))
  BY LastCoveredIs
<1>2. LastCovered(l) \in GroupStarts(l) /\ LastCovered(l) \in 1..Len(l)
  BY <1>1 DEF Coverable, GroupStarts, Positions
<1>3. GroupEnd(l, LastCovered(l)) \in LastCovered(l)..Len(l)
  BY <1>2, GroupEnds
<1> QED
  BY <1>1, <1>2, <1>3

LEMMA NoCut ==
  ASSUME NEW l, Coverable(l) = {}
  PROVE  FindCut(l) = 0
  BY DEF FindCut

LEMMA CutType ==
  ASSUME NEW l, Len(l) \in Nat
  PROVE  FindCut(l) \in Nat /\ FindCut(l) <= Len(l)
<1>1. CASE Coverable(l) = {}
  BY <1>1, NoCut
<1>2. CASE Coverable(l) # {}
  <2>1. LastCovered(l) \in 1..Len(l) /\ FindCut(l) \in LastCovered(l)..Len(l)
    BY <1>2, LastCoveredStarts
  <2> QED
    BY <2>1
<1> QED
  BY <1>1, <1>2

\* The cut moves forward only.
LEMMA CutGrows ==
  ASSUME NEW l, NEW m, Len(l) \in Nat, Len(m) \in Nat, Extends(m, l),
         \A i \in 1..Len(l) : Cardinality(l[i].calls) \in Nat
  PROVE  FindCut(l) <= FindCut(m)
<1>0. FindCut(l) \in Nat /\ FindCut(m) \in Nat
  BY CutType
<1>1. CASE Coverable(l) = {}
  BY <1>0, <1>1, NoCut
<1>2. CASE Coverable(l) # {}
  <2> DEFINE s == LastCovered(l)
             t == LastCovered(m)
  <2>1. s \in Coverable(l) /\ s \in 1..Len(l) /\ FindCut(l) = GroupEnd(l, s)
    BY <1>2, LastCoveredIs, LastCoveredStarts
  <2>2. s \in Coverable(m)
    BY <2>1, CoverableKept
  <2>3. /\ Coverable(m) # {} /\ s <= t /\ t \in GroupStarts(m) /\ t \in 1..Len(m)
        /\ FindCut(m) = GroupEnd(m, t) /\ FindCut(m) \in t..Len(m)
    BY <2>2, LastCoveredIs, LastCoveredStarts
  <2>4. s \in GroupStarts(m)
    BY <2>2 DEF Coverable
  <2> HIDE DEF s, t
  <2>5. GroupEnd(l, s) <= GroupEnd(m, s)
    BY <2>1, GroupGrows
  <2>6. s \in 1..Len(m) /\ GroupEnd(m, s) \in s..Len(m)
    <3>1. s \in 1..Len(m)
      BY <2>1 DEF Extends
    <3> QED
      BY <3>1, GroupEnds
  <2>7. CASE s = t
    BY <2>7, <2>1, <2>3, <2>5
  <2>8. CASE s < t
    <3>1. GroupEnd(m, s) < t
      BY <2>8, <2>3, <2>4, GroupsApart
    <3> QED
      BY <3>1, <1>0, <2>1, <2>3, <2>5, <2>6
  <2> QED
    BY <2>1, <2>3, <2>7, <2>8
<1> QED
  BY <1>1, <1>2

\* The groups behind the cut are the ones behind the group it follows.
LEMMA RecentKept ==
  ASSUME NEW l, Len(l) \in Nat, FindCut(l) # 0
  PROVE  Cardinality({t \in GroupStarts(l) : t >= FindCut(l) + 1}) >= PreserveRecent
<1>0. Coverable(l) # {}
  BY NoCut
<1> DEFINE s == LastCovered(l)
           e == FindCut(l)
<1>1. s \in Coverable(l) /\ e = GroupEnd(l, s) /\ s \in GroupStarts(l) /\ e \in s..Len(l) /\ s \in 1..Len(l)
  BY <1>0, LastCoveredIs, LastCoveredStarts
<1> HIDE DEF s, e
<1>2. \A t \in GroupStarts(l) : t >= e + 1 <=> t > s
  <2> TAKE t \in GroupStarts(l)
  <2>1. t \in 1..Len(l)
    BY DEF GroupStarts, Positions
  <2>2. s < t => e < t
    BY <1>1, GroupsApart
  <2> QED
    BY <1>1, <2>1, <2>2
<1>3. {t \in GroupStarts(l) : t >= e + 1} = {t \in GroupStarts(l) : t > s}
  BY <1>2
<1>4. Cardinality({t \in GroupStarts(l) : t > s}) >= PreserveRecent
  BY <1>1 DEF Coverable
<1> QED
  BY <1>3, <1>4 DEF e

-----------------------------------------------------------------------------
(* A call and its result are on the same side of the cut.                  *)

LEMMA MessageShape ==
  ASSUME NEW l, l \in Seq(Message), NEW i \in 1..Len(l)
  PROVE  /\ l[i] \in Message
         /\ l[i].kind \in {"user", "assistant", "result"}
         /\ l[i].calls \subseteq CallIds /\ IsFiniteSet(l[i].calls)
         /\ l[i].call \subseteq CallIds
         /\ l[i].kind # "assistant" => l[i].calls = {}
         /\ l[i].kind # "result" => l[i].call = {}
         /\ l[i].kind = "result" => \E c \in CallIds : l[i].call = {c}
<1>1. l[i] \in Message
  OBVIOUS
<1> QED
  BY <1>1 DEF Message

LEMMA CallsCounted ==
  ASSUME NEW l, l \in Seq(Message)
  PROVE  Len(l) \in Nat /\ \A i \in 1..Len(l) : Cardinality(l[i].calls) \in Nat
<1>1. ASSUME NEW i \in 1..Len(l)
      PROVE  Cardinality(l[i].calls) \in Nat
  <2>1. IsFiniteSet(l[i].calls)
    BY MessageShape
  <2> QED
    BY <2>1, FS_CardinalityType
<1> QED
  BY <1>1

\* A complete group holds the results of all its calls.
LEMMA CompleteGroup ==
  ASSUME NEW l, l \in Seq(Message), Consistent(l), NEW i \in Positions(l),
         ~Incomplete(l, i), NEW j \in Positions(l), NEW c \in l[j].call, c \in l[i].calls
  PROVE  j \in (i + 1)..GroupEnd(l, i)
<1> DEFINE e == GroupEnd(l, i)
           R == (i + 1)..e
           C == l[i].calls
           f == [r \in R |-> CHOOSE d : d \in l[r].call]
<1>0. Len(l) \in Nat /\ i \in 1..Len(l) /\ j \in 1..Len(l)
  BY DEF Positions
<1>1. e \in i..Len(l) /\ (e # i => Gathers(l, i, e))
  BY <1>0, GroupEnds
<1>2. IsFiniteSet(C) /\ Cardinality(C) \in Nat
  BY <1>0, MessageShape, CallsCounted
<1>3. ~(e - i < Cardinality(C))
  BY DEF Incomplete
<1> HIDE DEF e, C
<1>4. ASSUME NEW r \in R
      PROVE  r \in Positions(l) /\ \E d \in C : l[r].call = {d}
  <2>1. r \in 1..Len(l) /\ e # i /\ r \in (i + 1)..e
    BY <1>0, <1>1
  <2>2. l[r].kind = "result" /\ l[r].call \subseteq C
    BY <1>1, <2>1 DEF Gathers, C
  <2>3. \E d \in CallIds : l[r].call = {d}
    BY <2>1, <2>2, MessageShape
  <2> QED
    BY <2>1, <2>2, <2>3 DEF Positions
<1>5. \A r \in R : f[r] \in C /\ f[r] \in l[r].call
  BY <1>4
<1>6. ASSUME NEW r \in R, NEW q \in R, f[r] = f[q]
      PROVE  r = q
  <2>1. f[r] \in l[r].call /\ f[r] \in l[q].call
    BY <1>5, <1>6
  <2>2. r \in Positions(l) /\ q \in Positions(l)
    BY <1>4
  <2> HIDE DEF f
  <2> QED
    BY <2>1, <2>2 DEF Consistent
<1>7. f \in Injection(R, C)
  <2>1. f \in [R -> C]
    BY <1>5
  <2> HIDE DEF f
  <2> QED
    BY <1>6, <2>1 DEF Injection, IsInjective
<1>8. Cardinality(R) = e - i /\ e - i \in Nat
  <2>1. i + 1 \in Int /\ e \in Int
    BY <1>0, <1>1
  <2>2. Cardinality((i + 1)..e) = IF i + 1 > e THEN 0 ELSE e - (i + 1) + 1
    BY <2>1, FS_Interval
  <2> QED
    BY <1>0, <1>1, <2>2
<1>9. Cardinality(R) <= Cardinality(C) /\ (Cardinality(R) = Cardinality(C) <=> f \in Surjection(R, C))
  <2> HIDE DEF f, R
  <2> QED
    BY <1>2, <1>7, FS_Injection
<1>10. f \in Surjection(R, C)
  <2> HIDE DEF f, R
  <2> QED
    BY <1>2, <1>3, <1>8, <1>9
<1>11. \E r \in R : f[r] = c
  <2>1. c \in C
    BY DEF C
  <2> HIDE DEF f, R
  <2> QED
    BY <1>10, <2>1 DEF Surjection
<1>12. PICK r \in R : f[r] = c
  BY <1>11
<1>13. r = j
  <2>1. c \in l[r].call /\ r \in Positions(l)
    BY <1>4, <1>5, <1>12
  <2> QED
    BY <2>1 DEF Consistent
<1> QED
  BY <1>13 DEF e

LEMMA CutKeepsCalls ==
  ASSUME NEW l, l \in Seq(Message), Consistent(l), FindCut(l) # 0,
         NEW i \in Positions(l), NEW j \in Positions(l),
         l[j].call # {}, l[j].call \subseteq l[i].calls
  PROVE  i < FindCut(l) + 1 <=> j < FindCut(l) + 1
<1>0. Len(l) \in Nat /\ i \in 1..Len(l) /\ j \in 1..Len(l)
  BY DEF Positions
<1>1. PICK c \in l[j].call : c \in l[i].calls
  OBVIOUS
<1>2. l[i].kind = "assistant"
  BY <1>0, <1>1, MessageShape
<1>3. i < j
  <2>1. PICK k \in 1..(j - 1) : c \in l[k].calls
    BY <1>1 DEF Consistent
  <2>2. k \in Positions(l)
    BY <1>0, <2>1 DEF Positions
  <2>3. k = i
    BY <1>1, <2>1, <2>2 DEF Consistent
  <2> QED
    BY <1>0, <2>1, <2>3
<1> DEFINE s == LastCovered(l)
           e == FindCut(l)
<1>4. s \in Coverable(l) /\ e = GroupEnd(l, s) /\ s \in GroupStarts(l) /\ e \in s..Len(l) /\ s \in 1..Len(l)
  <2>1. Coverable(l) # {}
    BY NoCut
  <2> QED
    BY <1>0, <2>1, LastCoveredIs, LastCoveredStarts
<1> HIDE DEF s, e
<1>5. i \in GroupStarts(l)
  BY <1>0, <1>2, AssistantsStart
<1>6. ASSUME i <= e
      PROVE  j <= e
  <2>1. ~(s < i)
    BY <1>0, <1>4, <1>5, <1>6, GroupsApart
  <2>2. i <= s
    BY <1>0, <1>4, <2>1
  <2>3. ~Incomplete(l, i)
    BY <1>4, <1>5, <2>2 DEF Coverable
  <2>4. j \in (i + 1)..GroupEnd(l, i)
    BY <1>1, <2>3, CompleteGroup
  <2>5. GroupEnd(l, i) \in i..Len(l)
    BY <1>0, GroupEnds
  <2>6. CASE i = s
    BY <1>0, <1>4, <2>4, <2>6
  <2>7. CASE i < s
    <3>1. GroupEnd(l, i) < s
      BY <1>0, <1>4, <1>5, <2>7, GroupsApart
    <3> QED
      BY <1>0, <1>4, <2>4, <2>5, <3>1
  <2> QED
    BY <1>0, <1>4, <2>2, <2>6, <2>7
<1>7. i <= e <=> j <= e
  BY <1>0, <1>3, <1>4, <1>6
<1> QED
  BY <1>0, <1>4, <1>7 DEF e

-----------------------------------------------------------------------------
(* Types, and which parts of the state go with which place of the loop.    *)

Stages == {"idle", "resolve", "start", "process", "after", "returned", "raised"}
            \cup Checks \cup Executing

ContextTyped == stored \in Seq(Summary) /\ record \in Summary /\ pending \in Summary

StreamTyped == order \in Seq(CallIds) /\ sent \subseteq CallIds /\ attempt \in Nat

PipelineTyped ==
  /\ stage \in Stages
  /\ outcome \in [status : Statuses \cup {"none"}, tokens : Nat]
  /\ executions \in [CallIds -> Nat]

LoopTyped ==
  /\ pc \in {"down", "idle", "build", "stream", "batch", "call"}
  /\ waiting \in Seq(CallIds)

\* What the place of the loop says about the rest.
Placed ==
  /\ pc \in {"batch", "call"} <=> waiting # <<>>
  /\ stage # "idle" <=> pc = "call"
  /\ call = IF pc = "call" THEN {Head(waiting)} ELSE {}
  /\ attempt > 0 => pc = "stream"
  /\ pending # NoRecord => pc = "build"

Typed ==
  log \in Seq(Message) /\ ContextTyped /\ StreamTyped /\ PipelineTyped /\ LoopTyped /\ Placed

LEMMA Sizes ==
  /\ MessageTokens \in Nat /\ DisplayTokens \in Nat
  /\ \A n \in RawTokens : n \in Nat
  BY TurnAssumption

LEMMA UserIsMessage == ASSUME NEW n \in Nat PROVE UserMessage(n) \in Message
  BY FS_EmptySet DEF UserMessage, Message

LEMMA ResultIsMessage ==
  ASSUME NEW c \in CallIds, NEW n \in Nat PROVE ToolResult(c, n) \in Message
  BY FS_EmptySet DEF ToolResult, Message

LEMMA AssistantIsMessage ==
  ASSUME NEW S, S \subseteq CallIds, IsFiniteSet(S), NEW n \in Nat
  PROVE  AssistantMessage(S, n) \in Message
  BY DEF AssistantMessage, Message

LEMMA RegisteredFinite ==
  ASSUME order \in Seq(CallIds)
  PROVE  Registered \subseteq CallIds /\ IsFiniteSet(Registered)
<1> DEFINE f == [i \in 1..Len(order) |-> order[i]]
<1>1. f \in Surjection(1..Len(order), Registered)
  BY DEF Registered, Surjection
<1>2. IsFiniteSet(1..Len(order))
  BY FS_Interval
<1> HIDE DEF f
<1>3. IsFiniteSet(Registered)
  BY <1>1, <1>2, FS_Surjection
<1>4. Registered \subseteq CallIds
  BY DEF Registered
<1> QED
  BY <1>3, <1>4

LEMMA AppendExtends ==
  ASSUME NEW l, l \in Seq(Message), NEW m, m \in Message
  PROVE  Append(l, m) \in Seq(Message) /\ Extends(Append(l, m), l)
  BY DEF Extends

LEMMA SameExtends ==
  ASSUME NEW l, l \in Seq(Message) PROVE Extends(l, l)
  BY DEF Extends

LEMMA ConcatExtends ==
  ASSUME NEW l, l \in Seq(Message), NEW m, m \in Seq(Message)
  PROVE  l \o m \in Seq(Message) /\ Extends(l \o m, l)
  BY DEF Extends

\* The results of calls that were skipped.
Skipped(calls) == [i \in 1..Len(calls) |-> ToolResult(calls[i], 1)]

LEMMA SkippedType ==
  ASSUME NEW w, w \in Seq(CallIds)
  PROVE  Skipped(w) \in Seq(Message) /\ Len(Skipped(w)) = Len(w)
<1>1. \A i \in 1..Len(w) : ToolResult(w[i], 1) \in Message
  BY ResultIsMessage
<1>2. Len(w) \in Nat
  OBVIOUS
<1> QED
  BY <1>1, <1>2 DEF Skipped

\* How each step treats the log: it is left alone, or grows at its end.
LEMMA LogStep ==
  ASSUME Typed, Next
  PROVE  log' \in Seq(Message) /\ Extends(log', log)
<1>0. log \in Seq(Message) /\ order \in Seq(CallIds) /\ waiting \in Seq(CallIds) /\ outcome.tokens \in Nat
  BY DEF Typed, StreamTyped, LoopTyped, PipelineTyped
<1>1. CASE UNCHANGED log
  BY <1>0, <1>1, SameExtends
<1>2. CASE StartRun \/ Inject
  <2>1. log' = Append(log, UserMessage(MessageTokens))
    BY <1>2 DEF StartRun, Inject, Say
  <2> QED
    BY <1>0, <2>1, Sizes, UserIsMessage, AppendExtends
<1>3. CASE Respond
  <2>1. log' = Append(log, AssistantMessage(Registered, MessageTokens)) \/ UNCHANGED log
    BY <1>3 DEF Respond, Say
  <2> QED
    BY <1>0, <1>1, <2>1, Sizes, RegisteredFinite, AssistantIsMessage, AppendExtends
<1>4. CASE SkipBatch
  <2>1. log' = log \o Skipped(waiting)
    BY <1>4 DEF SkipBatch, Skipped
  <2> QED
    BY <1>0, <2>1, SkippedType, ConcatExtends
<1>5. CASE CommitResult
  <2>1. log' = Append(log, ToolResult(Head(waiting), outcome.tokens)) /\ pc = "call"
    BY <1>5 DEF CommitResult, Say
  <2>2. Head(waiting) \in CallIds
    BY <1>0, <2>1 DEF Typed, Placed
  <2> QED
    BY <1>0, <2>1, <2>2, ResultIsMessage, AppendExtends
<1>6. ASSUME NEW c \in CallIds, Recover(c)
      PROVE  log' \in Seq(Message) /\ Extends(log', log)
  <2>1. log' = Append(log, ToolResult(c, 1))
    BY <1>6 DEF Recover, Say
  <2> QED
    BY <1>0, <2>1, ResultIsMessage, AppendExtends
<1>7. CASE ContinueRun \/ EndRun \/ Build \/ FinishBuild \/ Attempt \/ Receive
            \/ RequestCancel \/ AbandonRequest \/ BeginCall \/ WorkOnCall \/ CallRaises
            \/ Crash \/ Restart
  <2>1. UNCHANGED log
    BY <1>7 DEF ContinueRun, EndRun, Build, FinishBuild, Attempt, Receive, RequestCancel,
         AbandonRequest, BeginCall, WorkOnCall, CallRaises, Crash, Restart, session,
         BuildPlain, BuildAgain, PersistSummary, BuildRefused, SummaryRefused,
         CommitRecord, CheckpointFails, RestoreRecord
  <2> QED
    BY <1>1, <2>1
<1> QED
  BY <1>2, <1>3, <1>4, <1>5, <1>6, <1>7 DEF Next

LEMMA StreamStep ==
  ASSUME Typed, Next
  PROVE  StreamTyped'
<1>0. order \in Seq(CallIds) /\ sent \subseteq CallIds /\ attempt \in Nat
  BY DEF Typed, StreamTyped
<1>1. CASE UNCHANGED stream
  BY <1>0, <1>1 DEF stream, StreamTyped
<1>2. CASE EndRequest
  BY <1>2 DEF EndRequest, NoStream, StreamTyped
<1>3. CASE BeginAttempt
  BY <1>0, <1>3 DEF BeginAttempt, NoStream, Proposals, StreamTyped
<1>4. ASSUME NEW c \in CallIds, NEW k \in Pieces, Deliver(c, k)
      PROVE  StreamTyped'
  BY <1>0, <1>4 DEF Deliver, StreamTyped
<1>5. UNCHANGED stream \/ EndRequest \/ BeginAttempt \/ (\E c \in CallIds, k \in Pieces : Deliver(c, k))
  BY DEF Next, StartRun, ContinueRun, Inject, EndRun, Build, FinishBuild, Attempt, Receive,
     RequestCancel, AbandonRequest, Respond, SkipBatch, BeginCall, WorkOnCall, CommitResult,
     CallRaises, Crash, Recover, Restart
<1> QED
  BY <1>1, <1>2, <1>3, <1>4, <1>5

\* An invocation under way keeps its types and its call.
LEMMA InvocationTyped ==
  ASSUME PipelineTyped, PipelineStep(cancelled), stage # "idle"
  PROVE  PipelineTyped' /\ stage' # "idle" /\ call' = call
<1>0. stage \in Stages /\ outcome \in [status : Statuses \cup {"none"}, tokens : Nat]
      /\ executions \in [CallIds -> Nat] /\ Commands = CallIds
  BY TurnAssumption DEF PipelineTyped
<1>a. \A status \in Statuses, n \in RawTokens :
        Outcome(status, n) \in [status : Statuses \cup {"none"}, tokens : Nat]
  BY Sizes DEF Outcome
<1>1. CASE Resolve
  BY <1>0, <1>1, <1>a DEF Resolve, PipelineTyped, Reach, Stages, Statuses, Checks
<1>2. CASE Execute(cancelled)
  <2>1. executions' \in [CallIds -> Nat]
    BY <1>0, <1>2 DEF Execute
  <2>2. stage' \in {"process", "running"} /\ call' = call
    BY <1>2 DEF Execute, Reach
  <2>3. outcome' \in [status : Statuses \cup {"none"}, tokens : Nat]
    BY <1>0, <1>2, <1>a DEF Execute, Statuses, Outcome
  <2> QED
    BY <2>1, <2>2, <2>3 DEF PipelineTyped, Stages, Executing
<1>3. CASE Spawn
  BY <1>0, <1>3 DEF Spawn, PipelineTyped
<1>4. CASE Communicated
  BY <1>0, <1>4, <1>a DEF Communicated, PipelineTyped, Reach, Stages, Statuses
<1>5. ASSUME NEW check \in Checks, Check(check)
      PROVE  PipelineTyped' /\ stage' # "idle" /\ call' = call
  <2>1. stage' \in {"permission", "safety", "start", "after"} /\ call' = call /\ executions' = executions
    BY <1>5 DEF Check, Reach, After, Checks
  <2>2. outcome' \in [status : Statuses \cup {"none"}, tokens : Nat]
    BY <1>0, <1>5, <1>a DEF Check, Statuses
  <2> QED
    BY <1>0, <2>1, <2>2 DEF PipelineTyped, Stages, Checks
<1>6. ASSUME NEW p, ProcessEnds(p)
      PROVE  PipelineTyped' /\ stage' # "idle" /\ call' = call
  BY <1>0, <1>6 DEF ProcessEnds, PipelineTyped
<1>7. ASSUME NEW why, Stop(why)
      PROVE  PipelineTyped' /\ stage' # "idle" /\ call' = call
  BY <1>0, <1>7 DEF Stop, PipelineTyped, Reach, Stages, Executing
<1>8. CASE Reaped \/ BudgetEndsWait \/ OutsideEndsWait
  BY <1>0, <1>8, <1>a DEF Reaped, BudgetEndsWait, OutsideEndsWait, Failed, PipelineTyped, Reach,
     Stages, Statuses
<1>9. CASE Process
  <2>1. Truncate(outcome.tokens) \in Nat
    BY <1>0, Sizes DEF Truncate
  <2>2. outcome' = [outcome EXCEPT !.tokens = Truncate(outcome.tokens)]
    BY <1>9 DEF Process
  <2>3. outcome' \in [status : Statuses \cup {"none"}, tokens : Nat]
    BY <1>0, <2>1, <2>2
  <2> QED
    BY <1>0, <1>9, <2>3 DEF Process, PipelineTyped, Reach, Stages
<1>10. CASE CallAfter
  BY <1>0, <1>10 DEF CallAfter, PipelineTyped, Reach, Stages
<1> QED
  BY <1>1, <1>2, <1>3, <1>4, <1>5, <1>6, <1>7, <1>8, <1>9, <1>10 DEF PipelineStep

LEMMA PipelineTypeStep ==
  ASSUME Typed, Next
  PROVE  PipelineTyped'
<1>0. PipelineTyped /\ Placed /\ executions \in [CallIds -> Nat]
  BY DEF Typed, PipelineTyped
<1>1. CASE UNCHANGED pipeline
  BY <1>0, <1>1 DEF pipeline, invocation, PipelineTyped
<1>2. CASE BeginCall
  BY <1>0, <1>2 DEF BeginCall, Invoke, Reach, PipelineTyped, Stages
<1>3. CASE WorkOnCall
  <2>1. stage # "idle" /\ PipelineStep(cancelled)
    BY <1>0, <1>3 DEF WorkOnCall, Placed
  <2> QED
    BY <1>0, <2>1, InvocationTyped
<1>4. CASE Forget /\ UNCHANGED executions
  BY <1>0, <1>4 DEF Forget, NoOutcome, PipelineTyped, Stages
<1>5. UNCHANGED pipeline \/ BeginCall \/ WorkOnCall \/ (Forget /\ UNCHANGED executions)
  BY DEF Next, StartRun, ContinueRun, Inject, EndRun, Build, FinishBuild, Attempt, Receive,
     RequestCancel, AbandonRequest, Respond, SkipBatch, CommitResult, CallRaises, Crash, Recover,
     Restart, pipeline
<1> QED
  BY <1>1, <1>2, <1>3, <1>4, <1>5

LEMMA LoopStep ==
  ASSUME Typed, Next
  PROVE  LoopTyped'
<1>0. /\ pc \in {"down", "idle", "build", "stream", "batch", "call"}
      /\ waiting \in Seq(CallIds) /\ order \in Seq(CallIds)
      /\ pc \in {"batch", "call"} <=> waiting # <<>>
  BY DEF Typed, LoopTyped, StreamTyped, Placed
<1>1. CASE waiting' \in {waiting, <<>>, order}
  <2>1. waiting' \in Seq(CallIds)
    <3>1. <<>> \in Seq(CallIds)
      OBVIOUS
    <3>2. waiting' = waiting \/ waiting' = <<>> \/ waiting' = order
      BY <1>1
    <3> QED
      BY <1>0, <3>1, <3>2
  <2>2. pc' \in {pc, "down", "idle", "build", "stream", "batch", "call"}
    BY DEF Next, StartRun, ContinueRun, Inject, EndRun, Build, FinishBuild, Attempt, Receive,
       RequestCancel, AbandonRequest, Respond, SkipBatch, BeginCall, WorkOnCall, CommitResult,
       CallRaises, Crash, Recover, Restart, loop
  <2> QED
    BY <1>0, <2>1, <2>2 DEF LoopTyped
<1>2. CASE CommitResult
  BY <1>0, <1>2 DEF CommitResult, LoopTyped
<1>3. waiting' \in {waiting, <<>>, order} \/ CommitResult
  BY DEF Next, StartRun, ContinueRun, Inject, EndRun, Build, FinishBuild, Attempt, Receive,
     RequestCancel, AbandonRequest, Respond, SkipBatch, BeginCall, WorkOnCall,
     CallRaises, Crash, Recover, Restart, loop
<1> QED
  BY <1>1, <1>2, <1>3

LEMMA PlacedStep ==
  ASSUME Typed, Next
  PROVE  Placed'
<1>0. Placed /\ waiting \in Seq(CallIds) /\ order \in Seq(CallIds) /\ attempt \in Nat /\ PipelineTyped
  BY DEF Typed, LoopTyped, StreamTyped
<1>1. CASE StartRun \/ ContinueRun \/ EndRun \/ Inject
  BY <1>0, <1>1 DEF Placed, StartRun, ContinueRun, EndRun, Inject, Building, Say,
     session, context, stream, pipeline, invocation, loop
<1>2. CASE Build
  BY <1>0, <1>2 DEF Placed, Build, Building, BuildPlain, BuildAgain, PersistSummary, BuildRefused,
     SummaryRefused, context, stream, pipeline, invocation, loop
<1>3. CASE FinishBuild
  BY <1>0, <1>3 DEF Placed, FinishBuild, CommitRecord, CheckpointFails, stream, pipeline, invocation
<1>4. CASE Attempt
  BY <1>0, <1>4 DEF Placed, Attempt, BeginAttempt, session, context, pipeline, invocation, loop
<1>5. CASE Receive
  BY <1>0, <1>5 DEF Placed, Receive, Deliver, session, context, pipeline, invocation, loop
<1>6. CASE RequestCancel
  BY <1>0, <1>6 DEF Placed, RequestCancel, session, context, stream, pipeline, invocation
<1>7. CASE AbandonRequest
  BY <1>0, <1>7 DEF Placed, AbandonRequest, EndRequest, Consumed, pipeline, invocation
<1>8. CASE Respond
  BY <1>0, <1>8 DEF Placed, Respond, EndRequest, Consumed, pipeline, invocation
<1>9. CASE SkipBatch
  BY <1>0, <1>9 DEF Placed, SkipBatch, context, stream, pipeline, invocation
<1>10. CASE BeginCall
  BY <1>0, <1>10 DEF Placed, BeginCall, Invoke, Reach, session, context, stream
<1>11. CASE WorkOnCall
  <2>1. stage' # "idle" /\ call' = call
    BY <1>0, <1>11, InvocationTyped DEF WorkOnCall, Placed
  <2> QED
    BY <1>0, <1>11, <2>1 DEF Placed, WorkOnCall, session, context, stream, loop
<1>12. CASE CommitResult
  <2>1. Len(waiting) = 1 <=> Tail(waiting) = <<>>
    <3>1. waiting # <<>>
      BY <1>0, <1>12 DEF CommitResult, Placed
    <3>2. Tail(waiting) \in Seq(CallIds) /\ Len(Tail(waiting)) = Len(waiting) - 1 /\ Len(waiting) \in Nat
      BY <1>0, <3>1
    <3>3. Len(Tail(waiting)) = 0 <=> Tail(waiting) = <<>>
      BY <3>2, EmptySeq
    <3> QED
      BY <3>2, <3>3
  <2> QED
    BY <1>0, <1>12, <2>1 DEF Placed, CommitResult, Forget, context, stream
<1>13. CASE CallRaises
  BY <1>0, <1>13 DEF Placed, CallRaises, Forget, session, context, stream
<1>14. CASE Crash
  BY <1>0, <1>14 DEF Placed, Crash, Forget, EndRequest
<1>15. ASSUME NEW c \in CallIds, Recover(c)
       PROVE  Placed'
  BY <1>0, <1>15 DEF Placed, Recover, context, stream, pipeline, invocation, loop
<1>16. CASE Restart
  BY <1>0, <1>16 DEF Placed, Restart, RestoreRecord, stream, pipeline, invocation
<1> QED
  BY <1>1, <1>2, <1>3, <1>4, <1>5, <1>6, <1>7, <1>8, <1>9, <1>10, <1>11, <1>12, <1>13, <1>14, <1>15, <1>16
     DEF Next

-----------------------------------------------------------------------------
(* Calls: proposed once, waiting once, executed once, answered once.       *)

NoRepeat(s) == \A i, j \in 1..Len(s) : s[i] = s[j] => i = j

\* Stages of an invocation whose tool has not been executed.
Unstarted == {"idle", "resolve", "start"} \cup Checks

\* What has arrived of a response is part of what the attempt is sending.
Arriving == NoRepeat(order) /\ \A i \in 1..Len(order) : order[i] \in sent

\* The calls that wait are open, each waits once, and none but the first can
\* have been executed.
Queued ==
  /\ NoRepeat(waiting)
  /\ \A i \in 1..Len(waiting) :
       /\ waiting[i] \in OpenCalls(log)
       /\ i > 1 \/ stage \in Unstarted => executions[waiting[i]] = 0

Executed == \A c \in CallIds : executions[c] <= 1 /\ (executions[c] = 1 => c \in Proposed)

CallsInv == Consistent(log) /\ Arriving /\ Queued /\ Executed

LEMMA UnionIs ==
  ASSUME NEW l, NEW c
  PROVE  /\ c \in UNION {l[i].calls : i \in Positions(l)} <=> \E i \in Positions(l) : c \in l[i].calls
         /\ c \in UNION {l[i].call : i \in Positions(l)} <=> \E i \in Positions(l) : c \in l[i].call
<1>1. c \in UNION {l[i].calls : i \in Positions(l)} <=> \E i \in Positions(l) : c \in l[i].calls
  OBVIOUS
<1>2. c \in UNION {l[i].call : i \in Positions(l)} <=> \E i \in Positions(l) : c \in l[i].call
  OBVIOUS
<1> QED
  BY <1>1, <1>2

LEMMA OpenIs ==
  ASSUME NEW l, NEW c
  PROVE  c \in OpenCalls(l) <=> /\ \E i \in Positions(l) : c \in l[i].calls
                                /\ \A i \in Positions(l) : c \notin l[i].call
<1> DEFINE asked == UNION {l[i].calls : i \in Positions(l)}
           answers == UNION {l[i].call : i \in Positions(l)}
<1>1. /\ c \in asked <=> \E i \in Positions(l) : c \in l[i].calls
      /\ c \in answers <=> \E i \in Positions(l) : c \in l[i].call
  BY UnionIs
<1>2. OpenCalls(l) = asked \ answers
  BY DEF OpenCalls
<1> HIDE DEF asked, answers
<1> QED
  BY <1>1, <1>2

LEMMA ProposedIs ==
  ASSUME NEW c
  PROVE  c \in Proposed <=> \E i \in Positions(log) : c \in log[i].calls
  BY UnionIs DEF Proposed

\* A message that neither repeats a call nor answers one.
LEMMA ProposeConsistent ==
  ASSUME NEW l, l \in Seq(Message), Consistent(l), NEW m, m \in Message, m.call = {},
         \A i \in 1..Len(l) : l[i].calls \cap m.calls = {}
  PROVE  Consistent(Append(l, m))
<1> DEFINE k == Append(l, m)
           n == Len(l)
<1>1. /\ n \in Nat /\ Len(k) = n + 1 /\ k[n + 1] = m /\ \A i \in 1..n : k[i] = l[i]
      /\ 1..Len(k) = 1..(n + 1)
  OBVIOUS
<1> HIDE DEF k, n
<1>2. ASSUME NEW i \in 1..(n + 1), NEW j \in 1..(n + 1), i # j
      PROVE  k[i].calls \cap k[j].calls = {} /\ k[i].call \cap k[j].call = {}
  <2>1. CASE i \in 1..n /\ j \in 1..n
    BY <1>1, <1>2, <2>1 DEF Consistent, Positions, n
  <2>2. CASE i \in 1..n /\ j = n + 1
    BY <1>1, <2>2 DEF n
  <2>3. CASE i = n + 1 /\ j \in 1..n
    BY <1>1, <2>3 DEF n
  <2> QED
    BY <1>1, <1>2, <2>1, <2>2, <2>3
<1>3. ASSUME NEW j \in 1..(n + 1), NEW c \in k[j].call
      PROVE  \E i \in 1..(j - 1) : c \in k[i].calls
  <2>1. j \in 1..n /\ c \in l[j].call
    BY <1>1, <1>3
  <2>2. PICK i \in 1..(j - 1) : c \in l[i].calls
    BY <2>1 DEF Consistent, Positions, n
  <2>3. i \in 1..n
    BY <1>1, <2>1, <2>2
  <2> QED
    BY <1>1, <2>2, <2>3
<1>4. Consistent(k)
  BY <1>1, <1>2, <1>3 DEF Consistent, Positions
<1> QED
  BY <1>4 DEF k

\* The result of an open call.
LEMMA AnswerConsistent ==
  ASSUME NEW l, l \in Seq(Message), Consistent(l), NEW c \in OpenCalls(l), NEW t
  PROVE  Consistent(Append(l, ToolResult(c, t)))
<1> DEFINE m == ToolResult(c, t)
           k == Append(l, m)
           n == Len(l)
<1>0. m.calls = {} /\ m.call = {c}
  BY DEF ToolResult
<1> HIDE DEF m
<1>1. /\ n \in Nat /\ Len(k) = n + 1 /\ k[n + 1] = m /\ \A i \in 1..n : k[i] = l[i]
      /\ 1..Len(k) = 1..(n + 1)
  OBVIOUS
<1>a. (\A i \in 1..n : c \notin l[i].call) /\ \E i \in 1..n : c \in l[i].calls
  BY OpenIs DEF Positions
<1> HIDE DEF k, n
<1>2. ASSUME NEW i \in 1..(n + 1), NEW j \in 1..(n + 1), i # j
      PROVE  k[i].calls \cap k[j].calls = {} /\ k[i].call \cap k[j].call = {}
  <2>1. CASE i \in 1..n /\ j \in 1..n
    BY <1>1, <1>2, <2>1 DEF Consistent, Positions, n
  <2>2. CASE i \in 1..n /\ j = n + 1
    BY <1>0, <1>1, <1>a, <2>2
  <2>3. CASE i = n + 1 /\ j \in 1..n
    BY <1>0, <1>1, <1>a, <2>3
  <2> QED
    BY <1>1, <1>2, <2>1, <2>2, <2>3
<1>3. ASSUME NEW j \in 1..(n + 1), NEW d \in k[j].call
      PROVE  \E i \in 1..(j - 1) : d \in k[i].calls
  <2>1. CASE j \in 1..n
    <3>1. d \in l[j].call
      BY <1>1, <1>3, <2>1
    <3>2. PICK i \in 1..(j - 1) : d \in l[i].calls
      BY <2>1, <3>1 DEF Consistent, Positions, n
    <3>3. i \in 1..n
      BY <1>1, <2>1, <3>2
    <3> QED
      BY <1>1, <3>2, <3>3
  <2>2. CASE j = n + 1
    <3>1. d = c
      BY <1>0, <1>1, <1>3, <2>2
    <3>2. PICK i \in 1..n : c \in l[i].calls
      BY <1>a
    <3>3. i \in 1..(j - 1) /\ c \in k[i].calls
      BY <1>1, <2>2, <3>2
    <3> QED
      BY <3>1, <3>3
  <2> QED
    BY <1>1, <1>3, <2>1, <2>2
<1>4. Consistent(k)
  BY <1>1, <1>2, <1>3 DEF Consistent, Positions
<1> QED
  BY <1>4 DEF k, m

\* The results of several open calls.
LEMMA SkipConsistent ==
  ASSUME NEW l, l \in Seq(Message), Consistent(l), NEW w, w \in Seq(CallIds), NoRepeat(w),
         \A q \in 1..Len(w) : w[q] \in OpenCalls(l)
  PROVE  Consistent(l \o Skipped(w))
<1> DEFINE s == Skipped(w)
           k == l \o s
           n == Len(l)
           p == Len(w)
<1>1. s \in Seq(Message) /\ Len(s) = p /\ p \in Nat /\ n \in Nat
  BY SkippedType
<1>2. \A q \in 1..p : s[q].calls = {} /\ s[q].call = {w[q]}
  BY DEF Skipped, ToolResult
<1>a. \A q \in 1..p : /\ \A i \in 1..n : w[q] \notin l[i].call
                      /\ \E i \in 1..n : w[q] \in l[i].calls
  BY OpenIs DEF Positions
<1> HIDE DEF s
<1>3. /\ Len(k) = n + p
      /\ \A i \in 1..n : k[i] = l[i]
      /\ \A i \in (n + 1)..(n + p) : k[i] = s[i - n]
  BY <1>1, SMTT(30)
<1> HIDE DEF k, n, p
<1>4. ASSUME NEW i \in (n + 1)..(n + p)
      PROVE  i - n \in 1..p /\ k[i].calls = {} /\ k[i].call = {w[i - n]}
  BY <1>1, <1>2, <1>3
<1>5. ASSUME NEW i \in 1..(n + p), NEW j \in 1..(n + p), i # j
      PROVE  k[i].calls \cap k[j].calls = {} /\ k[i].call \cap k[j].call = {}
  <2>1. CASE i \in 1..n /\ j \in 1..n
    BY <1>3, <1>5, <2>1 DEF Consistent, Positions, n
  <2>2. CASE i \in 1..n /\ j \in (n + 1)..(n + p)
    BY <1>3, <1>4, <1>a, <2>2
  <2>3. CASE i \in (n + 1)..(n + p) /\ j \in 1..n
    BY <1>3, <1>4, <1>a, <2>3
  <2>4. CASE i \in (n + 1)..(n + p) /\ j \in (n + 1)..(n + p)
    <3>1. i - n # j - n /\ i - n \in 1..p /\ j - n \in 1..p
      BY <1>1, <1>4, <1>5, <2>4
    <3>2. w[i - n] # w[j - n]
      BY <3>1 DEF NoRepeat, p
    <3> QED
      BY <1>4, <2>4, <3>2
  <2> QED
    BY <1>1, <1>5, <2>1, <2>2, <2>3, <2>4
<1>6. ASSUME NEW j \in 1..(n + p), NEW d \in k[j].call
      PROVE  \E i \in 1..(j - 1) : d \in k[i].calls
  <2>1. CASE j \in 1..n
    <3>1. d \in l[j].call
      BY <1>3, <1>6, <2>1
    <3>2. PICK i \in 1..(j - 1) : d \in l[i].calls
      BY <2>1, <3>1 DEF Consistent, Positions, n
    <3>3. i \in 1..n
      BY <1>1, <2>1, <3>2
    <3> QED
      BY <1>3, <3>2, <3>3
  <2>2. CASE j \in (n + 1)..(n + p)
    <3>1. d = w[j - n] /\ j - n \in 1..p
      BY <1>4, <1>6, <2>2
    <3>2. PICK i \in 1..n : d \in l[i].calls
      BY <1>a, <3>1
    <3>3. i \in 1..(j - 1) /\ d \in k[i].calls
      BY <1>1, <1>3, <2>2, <3>2
    <3> QED
      BY <3>3
  <2> QED
    BY <1>1, <1>6, <2>1, <2>2
<1>7. Consistent(k)
  <2>1. Positions(k) = 1..(n + p)
    BY <1>3 DEF Positions
  <2> QED
    BY <1>5, <1>6, <2>1 DEF Consistent
<1> QED
  BY <1>7 DEF k, s

\* Calls stay proposed.
LEMMA ProposedGrows ==
  ASSUME Typed, Next, NEW c \in Proposed
  PROVE  c \in Proposed'
<1>1. log \in Seq(Message) /\ log' \in Seq(Message) /\ Extends(log', log)
  BY LogStep DEF Typed
<1>2. PICK i \in Positions(log) : c \in log[i].calls
  BY ProposedIs
<1>3. i \in Positions(log') /\ c \in log'[i].calls
  BY <1>1, <1>2 DEF Extends, Positions
<1>4. c \in UNION {log'[j].calls : j \in Positions(log')}
  BY <1>3, UnionIs
<1> QED
  BY <1>4 DEF Proposed

LEMMA AnsweredProposed ==
  ASSUME Typed, Consistent(log), NEW c, c \notin Proposed, NEW i \in Positions(log)
  PROVE  c \notin log[i].call /\ c \notin log[i].calls
<1>1. log \in Seq(Message)
  BY DEF Typed
<1>2. \A j \in Positions(log) : c \notin log[j].calls
  BY ProposedIs
<1>3. ASSUME c \in log[i].call
      PROVE  FALSE
  <2>1. PICK j \in 1..(i - 1) : c \in log[j].calls
    BY <1>3 DEF Consistent
  <2>2. j \in Positions(log)
    BY <1>1, <2>1 DEF Positions
  <2> QED
    BY <1>2, <2>1, <2>2
<1> QED
  BY <1>2, <1>3

LEMMA ConsistentStep ==
  ASSUME Typed, CallsInv, Next
  PROVE  Consistent(log)'
<1>0. /\ log \in Seq(Message) /\ order \in Seq(CallIds) /\ waiting \in Seq(CallIds)
      /\ outcome.tokens \in Nat /\ Consistent(log)
  BY DEF Typed, StreamTyped, LoopTyped, PipelineTyped, CallsInv
<1>1. CASE UNCHANGED log
  BY <1>0, <1>1
<1>2. CASE StartRun \/ Inject
  <2>1. log' = Append(log, UserMessage(MessageTokens))
    BY <1>2 DEF StartRun, Inject, Say
  <2>2. UserMessage(MessageTokens) \in Message
    BY Sizes, UserIsMessage
  <2>3. UserMessage(MessageTokens).call = {} /\ UserMessage(MessageTokens).calls = {}
    BY DEF UserMessage
  <2>4. \A i \in 1..Len(log) : log[i].calls \cap UserMessage(MessageTokens).calls = {}
    BY <2>3
  <2>5. Consistent(Append(log, UserMessage(MessageTokens)))
    BY <1>0, <2>2, <2>3, <2>4, ProposeConsistent
  <2> QED
    BY <2>1, <2>5
<1>3. CASE Respond
  <2>1. CASE Registered \cap Proposed = {}
    <3> DEFINE m == AssistantMessage(Registered, MessageTokens)
    <3>1. log' = Append(log, m)
      BY <1>3, <2>1 DEF Respond, Say
    <3>2. m \in Message
      BY <1>0, Sizes, RegisteredFinite, AssistantIsMessage
    <3>3. m.call = {} /\ m.calls = Registered
      BY DEF AssistantMessage
    <3> HIDE DEF m
    <3>4. \A i \in 1..Len(log) : log[i].calls \cap m.calls = {}
      BY <2>1, <3>3, ProposedIs DEF Positions
    <3>5. Consistent(Append(log, m))
      BY <1>0, <3>2, <3>3, <3>4, ProposeConsistent
    <3> QED
      BY <3>1, <3>5
  <2>2. CASE ~(Registered \cap Proposed = {})
    BY <1>1, <1>3, <2>2 DEF Respond
  <2> QED
    BY <2>1, <2>2
<1>4. CASE SkipBatch
  <2>1. log' = log \o Skipped(waiting)
    BY <1>4 DEF SkipBatch, Skipped
  <2>2. Consistent(log \o Skipped(waiting))
    BY <1>0, SkipConsistent DEF CallsInv, Queued
  <2> QED
    BY <2>1, <2>2
<1>5. CASE CommitResult
  <2>1. log' = Append(log, ToolResult(Head(waiting), outcome.tokens)) /\ waiting # <<>>
    BY <1>5 DEF CommitResult, Say, Typed, Placed
  <2>2. Head(waiting) \in OpenCalls(log)
    <3>1. 1 \in 1..Len(waiting) /\ Head(waiting) = waiting[1]
      BY <1>0, <2>1, EmptySeq
    <3> QED
      BY <3>1 DEF CallsInv, Queued
  <2>3. Consistent(Append(log, ToolResult(Head(waiting), outcome.tokens)))
    BY <1>0, <2>2, AnswerConsistent
  <2> QED
    BY <2>1, <2>3
<1>6. ASSUME NEW c \in CallIds, Recover(c)
      PROVE  Consistent(log)'
  <2>1. log' = Append(log, ToolResult(c, 1)) /\ c \in OpenCalls(log)
    BY <1>6 DEF Recover, Say
  <2>2. Consistent(Append(log, ToolResult(c, 1)))
    BY <1>0, <2>1, AnswerConsistent
  <2> QED
    BY <2>1, <2>2
<1>7. CASE ContinueRun \/ EndRun \/ Build \/ FinishBuild \/ Attempt \/ Receive
            \/ RequestCancel \/ AbandonRequest \/ BeginCall \/ WorkOnCall \/ CallRaises
            \/ Crash \/ Restart
  <2>1. UNCHANGED log
    BY <1>7 DEF ContinueRun, EndRun, Build, FinishBuild, Attempt, Receive, RequestCancel,
         AbandonRequest, BeginCall, WorkOnCall, CallRaises, Crash, Restart, session,
         BuildPlain, BuildAgain, PersistSummary, BuildRefused, SummaryRefused,
         CommitRecord, CheckpointFails, RestoreRecord
  <2> QED
    BY <1>1, <2>1
<1> QED
  BY <1>2, <1>3, <1>4, <1>5, <1>6, <1>7 DEF Next

LEMMA ArrivingStep ==
  ASSUME Typed, CallsInv, Next
  PROVE  Arriving'
<1>0. Arriving /\ order \in Seq(CallIds)
  BY DEF CallsInv, Typed, StreamTyped
<1>1. CASE UNCHANGED stream
  BY <1>0, <1>1 DEF stream, Arriving, NoRepeat
<1>2. CASE EndRequest \/ BeginAttempt
  BY <1>2 DEF EndRequest, BeginAttempt, NoStream, Arriving, NoRepeat
<1>3. ASSUME NEW c \in CallIds, NEW k \in Pieces, Deliver(c, k)
      PROVE  Arriving'
  <2>1. c \in sent /\ sent' = sent
    BY <1>3 DEF Deliver
  <2>2. CASE c \in Registered
    BY <1>0, <1>3, <2>1, <2>2 DEF Deliver, Arriving, NoRepeat
  <2>3. CASE c \notin Registered
    <3>1. order' = Append(order, c)
      BY <1>3, <2>3 DEF Deliver
    <3>2. /\ Len(order') = Len(order) + 1 /\ order'[Len(order) + 1] = c /\ Len(order) \in Nat
          /\ \A i \in 1..Len(order) : order'[i] = order[i] /\ order[i] # c
      BY <1>0, <2>3, <3>1 DEF Registered
    <3>3. \A i \in 1..Len(order') : i \in 1..Len(order) \/ i = Len(order) + 1
      BY <3>2
    <3>4. NoRepeat(order')
      BY <1>0, <3>2, <3>3 DEF Arriving, NoRepeat
    <3>5. \A i \in 1..Len(order') : order'[i] \in sent'
      BY <1>0, <2>1, <3>2, <3>3 DEF Arriving
    <3> QED
      BY <3>4, <3>5 DEF Arriving
  <2> QED
    BY <2>2, <2>3
<1>5. UNCHANGED stream \/ EndRequest \/ BeginAttempt \/ (\E c \in CallIds, k \in Pieces : Deliver(c, k))
  BY DEF Next, StartRun, ContinueRun, Inject, EndRun, Build, FinishBuild, Attempt, Receive,
     RequestCancel, AbandonRequest, Respond, SkipBatch, BeginCall, WorkOnCall, CommitResult,
     CallRaises, Crash, Recover, Restart
<1> QED
  BY <1>1, <1>2, <1>3, <1>5

\* Executing is the only step of an invocation that counts, and what comes after
\* it is past the start.
LEMMA ExecutionCounted ==
  ASSUME PipelineTyped, PipelineStep(cancelled), stage # "idle"
  PROVE  \/ /\ executions' = executions
            /\ stage' \in Unstarted => stage \in Unstarted
         \/ /\ stage = "start" /\ stage' \notin Unstarted
            /\ executions' = [c \in CallIds |-> executions[c] + IF c \in call THEN 1 ELSE 0]
<1>1. CASE Execute(cancelled)
  BY <1>1, TurnAssumption DEF Execute, Reach, Unstarted, Checks
<1>2. CASE Resolve
  BY <1>2 DEF Resolve, Unstarted
<1>3. ASSUME NEW check \in Checks, Check(check)
      PROVE  executions' = executions /\ stage \in Unstarted
  BY <1>3 DEF Check, Unstarted
<1>4. CASE Spawn
  BY <1>4 DEF Spawn
<1>5. ASSUME NEW p, ProcessEnds(p)
      PROVE  executions' = executions /\ stage' = stage
  BY <1>5 DEF ProcessEnds
<1>6. ASSUME NEW why, Stop(why)
      PROVE  executions' = executions /\ stage' \notin Unstarted
  BY <1>6 DEF Stop, Reach, Unstarted, Checks
<1>7. CASE Communicated \/ Reaped \/ BudgetEndsWait \/ OutsideEndsWait \/ Process \/ CallAfter
  BY <1>7 DEF Communicated, Reaped, BudgetEndsWait, OutsideEndsWait, Process, CallAfter, Failed,
     Reach, Unstarted, Checks
<1> QED
  BY <1>1, <1>2, <1>3, <1>4, <1>5, <1>6, <1>7 DEF PipelineStep

LEMMA ExecutedStep ==
  ASSUME Typed, CallsInv, Next
  PROVE  Executed'
<1>0. Executed /\ executions \in [CallIds -> Nat] /\ PipelineTyped /\ Placed
  BY DEF CallsInv, Typed, PipelineTyped
<1>1. CASE UNCHANGED executions
  BY <1>0, <1>1, ProposedGrows DEF Executed
<1>2. CASE WorkOnCall
  <2>1. stage # "idle" /\ PipelineStep(cancelled) /\ pc = "call"
    BY <1>0, <1>2 DEF WorkOnCall, Placed
  <2>2. CASE executions' = executions
    BY <1>1, <2>2
  <2>3. CASE stage = "start" /\ executions' = [c \in CallIds |-> executions[c] + IF c \in call THEN 1 ELSE 0]
    <3>1. waiting # <<>> /\ waiting \in Seq(CallIds) /\ call = {Head(waiting)}
      BY <1>0, <2>1 DEF Placed, Typed, LoopTyped
    <3>2. 1 \in 1..Len(waiting) /\ Head(waiting) = waiting[1]
      BY <3>1, EmptySeq
    <3>3. waiting[1] \in OpenCalls(log) /\ executions[waiting[1]] = 0
      BY <2>3, <3>2 DEF CallsInv, Queued, Unstarted
    <3>4. waiting[1] \in Proposed
      BY <3>3, OpenIs, ProposedIs
    <3>5. ASSUME NEW c \in CallIds
          PROVE  executions'[c] <= 1 /\ (executions'[c] = 1 => c \in Proposed)
      <4>1. CASE c = waiting[1]
        BY <2>3, <3>1, <3>2, <3>3, <3>4, <4>1
      <4>2. CASE c # waiting[1]
        <5>1. executions'[c] = executions[c]
          BY <1>0, <2>3, <3>1, <3>2, <4>2
        <5> QED
          BY <1>0, <5>1 DEF Executed
      <4> QED
        BY <4>1, <4>2
    <3> QED
      BY <3>5, ProposedGrows DEF Executed
  <2> QED
    BY <1>0, <2>1, <2>2, <2>3, ExecutionCounted
<1>3. UNCHANGED executions \/ WorkOnCall
  BY DEF Next, StartRun, ContinueRun, Inject, EndRun, Build, FinishBuild, Attempt, Receive,
     RequestCancel, AbandonRequest, Respond, SkipBatch, BeginCall, Invoke, CommitResult,
     CallRaises, Crash, Recover, Restart, pipeline
<1> QED
  BY <1>1, <1>2, <1>3

\* A response that is committed waits behind its first call, none of it executed.
LEMMA ResponseQueued ==
  ASSUME Typed, CallsInv, Respond, Registered \cap Proposed = {}
  PROVE  Queued'
<1>0. /\ log \in Seq(Message) /\ order \in Seq(CallIds) /\ executions \in [CallIds -> Nat]
      /\ Consistent(log) /\ Executed /\ Arriving
  BY DEF Typed, StreamTyped, PipelineTyped, CallsInv
<1> DEFINE m == AssistantMessage(Registered, MessageTokens)
<1>1. log' = Append(log, m) /\ waiting' = order /\ executions' = executions
  BY DEF Respond, Say, pipeline
<1>2. m.calls = Registered /\ m.call = {}
  BY DEF AssistantMessage
<1> HIDE DEF m
<1>3. /\ Len(log') = Len(log) + 1 /\ Len(log) \in Nat /\ log'[Len(log) + 1] = m
      /\ \A i \in 1..Len(log) : log'[i] = log[i]
  BY <1>0, <1>1
<1>4. ASSUME NEW i \in 1..Len(order)
      PROVE  order[i] \in OpenCalls(log') /\ executions'[order[i]] = 0
  <2> DEFINE c == order[i]
  <2>1. c \in CallIds /\ c \in Registered /\ c \notin Proposed
    BY <1>0 DEF Registered
  <2> HIDE DEF c
  <2>2. executions'[c] = 0
    BY <1>0, <1>1, <2>1 DEF Executed
  <2>3. \A j \in Positions(log) : c \notin log[j].call
    BY <1>0, <2>1, AnsweredProposed
  <2>4. \A j \in Positions(log') : c \notin log'[j].call
    BY <1>2, <1>3, <2>3 DEF Positions
  <2>5. Len(log) + 1 \in Positions(log') /\ c \in log'[Len(log) + 1].calls
    BY <1>2, <1>3, <2>1 DEF Positions
  <2>6. c \in OpenCalls(log')
    BY <2>4, <2>5, OpenIs
  <2> QED
    BY <2>2, <2>6 DEF c
<1>5. NoRepeat(order)
  BY <1>0 DEF Arriving
<1> QED
  BY <1>1, <1>4, <1>5 DEF Queued

LEMMA CommitQueued ==
  ASSUME Typed, CallsInv, CommitResult
  PROVE  Queued'
<1>0. /\ log \in Seq(Message) /\ waiting \in Seq(CallIds) /\ waiting # <<>> /\ Queued
  BY DEF Typed, LoopTyped, CallsInv, CommitResult, Placed
<1> DEFINE m == ToolResult(Head(waiting), outcome.tokens)
<1>1. log' = Append(log, m) /\ waiting' = Tail(waiting) /\ executions' = executions
  BY DEF CommitResult, Say
<1>2. m.calls = {} /\ m.call = {waiting[1]}
  BY <1>0 DEF ToolResult
<1> HIDE DEF m
<1>3. /\ Len(log') = Len(log) + 1 /\ Len(log) \in Nat /\ log'[Len(log) + 1] = m
      /\ \A i \in 1..Len(log) : log'[i] = log[i]
  BY <1>0, <1>1
<1>4. /\ Len(waiting') = Len(waiting) - 1 /\ Len(waiting) \in Nat \ {0}
      /\ \A i \in 1..Len(waiting') : waiting'[i] = waiting[i + 1]
  BY <1>0, <1>1, HeadTailProperties, EmptySeq
<1>5. ASSUME NEW i \in 1..Len(waiting')
      PROVE  waiting'[i] \in OpenCalls(log') /\ executions'[waiting'[i]] = 0
  <2>1. i + 1 \in 1..Len(waiting) /\ i + 1 > 1 /\ 1 \in 1..Len(waiting) /\ i + 1 # 1
    BY <1>4
  <2> DEFINE c == waiting[i + 1]
  <2>2. c \in OpenCalls(log) /\ executions[c] = 0
    BY <1>0, <2>1 DEF Queued
  <2>3. c # waiting[1]
    BY <1>0, <2>1 DEF Queued, NoRepeat
  <2> HIDE DEF c
  <2>4. (\E j \in Positions(log) : c \in log[j].calls) /\ \A j \in Positions(log) : c \notin log[j].call
    BY <2>2, OpenIs
  <2>5. \A j \in Positions(log') : c \notin log'[j].call
    <3>1. c \notin log'[Len(log) + 1].call
      BY <1>2, <1>3, <2>3
    <3>2. \A j \in 1..Len(log) : c \notin log'[j].call
      BY <1>3, <2>4 DEF Positions
    <3>3. \A j \in Positions(log') : j \in 1..Len(log) \/ j = Len(log) + 1
      BY <1>3 DEF Positions
    <3> QED
      BY <3>1, <3>2, <3>3
  <2>6. \E j \in Positions(log') : c \in log'[j].calls
    BY <1>3, <2>4 DEF Positions
  <2>7. c \in OpenCalls(log')
    BY <2>5, <2>6, OpenIs
  <2> QED
    BY <1>1, <1>4, <2>2, <2>7 DEF c
<1>6. NoRepeat(waiting')
  <2>1. ASSUME NEW i \in 1..Len(waiting'), NEW j \in 1..Len(waiting'), waiting'[i] = waiting'[j]
        PROVE  i = j
    <3>1. i + 1 \in 1..Len(waiting) /\ j + 1 \in 1..Len(waiting) /\ waiting[i + 1] = waiting[j + 1]
      BY <1>4, <2>1
    <3>2. i + 1 = j + 1
      BY <1>0, <3>1 DEF Queued, NoRepeat
    <3> QED
      BY <1>4, <3>2
  <2> QED
    BY <2>1 DEF NoRepeat
<1> QED
  BY <1>5, <1>6 DEF Queued

LEMMA QueuedStep ==
  ASSUME Typed, CallsInv, Next
  PROVE  Queued'
<1>0. Queued /\ PipelineTyped /\ Placed /\ executions \in [CallIds -> Nat] /\ waiting \in Seq(CallIds)
  BY DEF CallsInv, Typed, PipelineTyped, LoopTyped
<1>1. CASE waiting' = <<>>
  BY <1>1 DEF Queued, NoRepeat
<1>2. CASE UNCHANGED <<log, waiting, executions>> /\ (stage' \in Unstarted => stage \in Unstarted)
  BY <1>0, <1>2 DEF Queued
<1>3. CASE WorkOnCall
  <2>1. /\ stage # "idle" /\ PipelineStep(cancelled) /\ pc = "call" /\ UNCHANGED <<log, waiting>>
    BY <1>0, <1>3 DEF WorkOnCall, Placed, session, loop
  <2>2. CASE executions' = executions /\ (stage' \in Unstarted => stage \in Unstarted)
    BY <1>2, <2>1, <2>2
  <2>3. CASE /\ stage = "start" /\ stage' \notin Unstarted
             /\ executions' = [c \in CallIds |-> executions[c] + IF c \in call THEN 1 ELSE 0]
    <3>1. waiting # <<>> /\ call = {Head(waiting)}
      BY <1>0, <2>1 DEF Placed
    <3>2. 1 \in 1..Len(waiting) /\ Head(waiting) = waiting[1]
      BY <1>0, <3>1, EmptySeq
    <3>3. ASSUME NEW i \in 1..Len(waiting)
          PROVE  /\ waiting[i] \in OpenCalls(log)
                 /\ i > 1 => executions'[waiting[i]] = 0
      <4>1. waiting[i] \in OpenCalls(log) /\ executions[waiting[i]] = 0 /\ waiting[i] \in CallIds
        BY <1>0, <2>3 DEF Queued, Unstarted
      <4>2. ASSUME i > 1
            PROVE  waiting[i] # waiting[1]
        BY <1>0, <3>2, <4>2 DEF Queued, NoRepeat
      <4>3. ASSUME i > 1
            PROVE  executions'[waiting[i]] = 0
        BY <2>3, <3>1, <3>2, <4>1, <4>2, <4>3
      <4> QED
        BY <4>1, <4>3
    <3> QED
      BY <1>0, <2>1, <2>3, <3>3 DEF Queued
  <2> QED
    BY <1>0, <2>1, <2>2, <2>3, ExecutionCounted
<1>4. CASE Respond
  <2>1. CASE Registered \cap Proposed = {}
    BY <1>4, <2>1, ResponseQueued
  <2>2. CASE ~(Registered \cap Proposed = {})
    BY <1>2, <1>4, <2>2 DEF Respond, pipeline, invocation
  <2> QED
    BY <2>1, <2>2
<1>5. CASE CommitResult
  BY <1>5, CommitQueued
<1>6. CASE BeginCall
  BY <1>2, <1>6 DEF BeginCall, Invoke, Unstarted, session
<1>7. CASE StartRun \/ Inject \/ SkipBatch \/ CallRaises \/ Crash
  <2>1. waiting' = <<>>
    BY <1>0, <1>7 DEF StartRun, Inject, SkipBatch, CallRaises, Crash, Building, loop, Placed
  <2> QED
    BY <1>1, <2>1
<1>8. ASSUME NEW c \in CallIds, Recover(c)
      PROVE  Queued'
  <2>1. waiting' = <<>>
    BY <1>0, <1>8 DEF Recover, loop, Placed
  <2> QED
    BY <1>1, <2>1
<1>9. CASE ContinueRun \/ EndRun \/ Build \/ FinishBuild \/ Attempt \/ Receive \/ RequestCancel
             \/ AbandonRequest \/ Restart
  <2>1. UNCHANGED <<log, waiting, executions, stage>>
    BY <1>9 DEF ContinueRun, EndRun, Build, FinishBuild, Attempt, Receive, RequestCancel,
       AbandonRequest, Restart, session, loop, pipeline, invocation, BuildPlain, BuildAgain,
       PersistSummary, BuildRefused, SummaryRefused, CommitRecord, CheckpointFails, RestoreRecord
  <2> QED
    BY <1>2, <2>1
<1> QED
  BY <1>3, <1>4, <1>5, <1>6, <1>7, <1>8, <1>9 DEF Next

-----------------------------------------------------------------------------
(* What an invocation has done by each of its stages.                      *)

Ran == executions[Head(waiting)] = 1
NotRan == executions[Head(waiting)] = 0

\* The shell is gone; what could still write to the output is there only when
\* the wait for it was ended.
Left ==
  /\ "shell" \notin alive
  /\ alive \cap Piped # {} => outcome.status = "timeout"

RanStatuses == {"completed", "error", "timeout", "cancelled"}

Denied == NotRan /\ outcome.status = "denied" /\ alive = {}

Displayed ==
  /\ Ran /\ cleared = Checks /\ outcome.status \in RanStatuses
  /\ outcome.tokens <= DisplayTokens /\ Left

BeforeExecution ==
  /\ stage \in Unstarted => alive = {} /\ told = {} /\ NotRan
  /\ stage \in {"resolve", "before"} => cleared = {}
  /\ stage = "permission" => cleared = {"before"}
  /\ stage = "safety" => cleared = {"before", "permission"}
  /\ stage = "start" => cleared = Checks

UnderExecution ==
  /\ stage \in Executing \cup {"process"} => told = {} /\ Ran /\ cleared = Checks
  /\ stage = "reaping" => "shell" \notin alive

AfterExecution ==
  /\ stage = "process" => outcome.status \in RanStatuses /\ Left
  /\ stage = "after" => told = {} /\ (Denied \/ Displayed)
  /\ stage = "returned" =>
       \/ NotRan /\ outcome.status = "error" /\ alive = {}
       \/ (Denied \/ Displayed) /\ told = {outcome}

Journey ==
  IF pc = "call" THEN BeforeExecution /\ UnderExecution /\ AfterExecution
  ELSE alive = {} /\ told = {} /\ cleared = {}

LEMMA RunsOnce ==
  ASSUME Typed, pc = "call", NotRan, waiting' = waiting,
         executions' = [c \in CallIds |-> executions[c] + IF c \in call THEN 1 ELSE 0]
  PROVE  Ran'
<1>1. waiting # <<>> /\ waiting \in Seq(CallIds) /\ call = {Head(waiting)}
  BY DEF Typed, Placed, LoopTyped
<1>2. Head(waiting) \in CallIds
  BY <1>1
<1> QED
  BY <1>1, <1>2 DEF Ran, NotRan

LEMMA InvocationJourney ==
  ASSUME Typed, pc = "call", Journey, PipelineStep(cancelled),
         waiting' = waiting, pc' = pc
  PROVE  Journey'
<1>0. /\ BeforeExecution /\ UnderExecution /\ AfterExecution
      /\ outcome \in [status : Statuses \cup {"none"}, tokens : Nat]
  BY DEF Journey, Typed, PipelineTyped
<1> SUFFICES BeforeExecution' /\ UnderExecution' /\ AfterExecution'
  BY DEF Journey
<1> USE DEF Reach, Checks, Executing, Unstarted, Ran, NotRan
<1>1. CASE Resolve
  BY <1>0, <1>1 DEF Resolve, Outcome, BeforeExecution, UnderExecution, AfterExecution
<1>2. CASE Execute(cancelled)
  <2>1. executions' = [c \in CallIds |-> executions[c] + IF c \in call THEN 1 ELSE 0]
    BY <1>2, TurnAssumption DEF Execute
  <2>2. NotRan /\ alive = {} /\ told = {} /\ cleared = Checks
    BY <1>0, <1>2 DEF Execute, BeforeExecution
  <2>3. Ran'
    BY <2>1, <2>2, RunsOnce
  <2>4. told' = {} /\ cleared' = Checks
    BY <1>2, <2>2 DEF Execute
  <2>5. \/ stage' = "process" /\ alive' = {} /\ outcome'.status \in RanStatuses
        \/ stage' = "running" /\ alive' = {"shell"}
    BY <1>2, <2>2 DEF Execute, Outcome, RanStatuses
  <2> QED
    BY <2>3, <2>4, <2>5 DEF BeforeExecution, UnderExecution, AfterExecution, Left
<1>3. CASE Spawn
  BY <1>0, <1>3 DEF Spawn, BeforeExecution, UnderExecution, AfterExecution
<1>4. ASSUME NEW p, ProcessEnds(p)
      PROVE  BeforeExecution' /\ UnderExecution' /\ AfterExecution'
  BY <1>0, <1>4 DEF ProcessEnds, BeforeExecution, UnderExecution, AfterExecution
<1>5. CASE Communicated
  BY <1>0, <1>5 DEF Communicated, Outcome, BeforeExecution, UnderExecution, AfterExecution,
     RanStatuses, Left, Piped
<1>6. ASSUME NEW check \in Checks, Check(check)
      PROVE  BeforeExecution' /\ UnderExecution' /\ AfterExecution'
  <2>1. alive = {} /\ told = {} /\ NotRan /\ UNCHANGED <<alive, told, executions>>
    BY <1>0, <1>6 DEF Check, BeforeExecution
  <2>2. CASE stage' = "after" /\ outcome'.status = "denied"
    BY <2>1, <2>2 DEF BeforeExecution, UnderExecution, AfterExecution, Denied
  <2>3. CASE cleared' = cleared \cup {check} /\ stage' = After(check)
    BY <1>0, <1>6, <2>1, <2>3 DEF Check, After, BeforeExecution, UnderExecution, AfterExecution
  <2> QED
    BY <1>6, <2>2, <2>3 DEF Check, Outcome
<1>7. ASSUME NEW why, Stop(why)
      PROVE  BeforeExecution' /\ UnderExecution' /\ AfterExecution'
  BY <1>0, <1>7 DEF Stop, Terminate, Grouped, BeforeExecution, UnderExecution, AfterExecution
<1>8. CASE Reaped \/ BudgetEndsWait \/ OutsideEndsWait
  <2>1. stage = "reaping" /\ UNCHANGED <<alive, told, executions, cleared>>
    BY <1>8 DEF Reaped, BudgetEndsWait, OutsideEndsWait, Failed
  <2>2. "shell" \notin alive /\ told = {} /\ Ran /\ cleared = Checks
    BY <1>0, <2>1 DEF UnderExecution
  <2>3. CASE stage' = "raised"
    BY <2>3 DEF BeforeExecution, UnderExecution, AfterExecution
  <2>4. CASE /\ stage' = "process" /\ outcome'.status \in RanStatuses
             /\ alive \cap Piped = {} \/ outcome'.status = "timeout"
    BY <2>1, <2>2, <2>4 DEF BeforeExecution, UnderExecution, AfterExecution, Left
  <2> QED
    BY <1>8, <2>3, <2>4 DEF Reaped, BudgetEndsWait, OutsideEndsWait, Failed, Outcome, RanStatuses
<1>9. CASE Process
  <2>1. /\ outcome' = [outcome EXCEPT !.tokens = Truncate(outcome.tokens)]
        /\ stage = "process" /\ stage' = "after" /\ UNCHANGED <<alive, told, executions, cleared>>
    BY <1>9 DEF Process
  <2>2. Truncate(outcome.tokens) \in Nat /\ Truncate(outcome.tokens) <= DisplayTokens
    BY <1>0, Sizes DEF Truncate
  <2>3. outcome'.status = outcome.status /\ outcome'.tokens <= DisplayTokens
    BY <1>0, <2>1, <2>2
  <2>4. Displayed' /\ told' = {}
    BY <1>0, <2>1, <2>3 DEF UnderExecution, AfterExecution, Displayed, Left
  <2> QED
    BY <2>1, <2>4 DEF BeforeExecution, UnderExecution, AfterExecution
<1>10. CASE CallAfter
  <2>1. stage' = "returned" /\ UNCHANGED <<alive, outcome, executions, cleared>>
        /\ stage = "after" /\ told' = told \cup {outcome}
    BY <1>10 DEF CallAfter
  <2>2. (Denied' \/ Displayed') /\ told' = {outcome'}
    BY <1>0, <2>1 DEF AfterExecution, Denied, Displayed, Left
  <2> QED
    BY <2>1, <2>2 DEF BeforeExecution, UnderExecution, AfterExecution
<1> QED
  BY <1>1, <1>2, <1>3, <1>4, <1>5, <1>6, <1>7, <1>8, <1>9, <1>10 DEF PipelineStep

LEMMA JourneyStep ==
  ASSUME Typed, CallsInv, Journey, Next
  PROVE  Journey'
<1>0. Placed /\ Queued
  BY DEF Typed, CallsInv
<1>1. CASE pc # "call" /\ pc' # "call" /\ UNCHANGED pipeline
  BY <1>1 DEF Journey, pipeline, invocation
<1>2. CASE Forget /\ pc' # "call"
  BY <1>2 DEF Journey, Forget
<1>3. CASE WorkOnCall
  BY <1>3, InvocationJourney DEF WorkOnCall, loop
<1>4. CASE BeginCall
  <2>1. waiting # <<>> /\ stage = "idle" /\ waiting \in Seq(CallIds)
    BY <1>0, <1>4 DEF BeginCall, Invoke, Placed, Typed, LoopTyped
  <2>2. 1 \in 1..Len(waiting) /\ Head(waiting) = waiting[1]
    BY <2>1, EmptySeq
  <2>3. NotRan
    BY <1>0, <2>1, <2>2 DEF NotRan, Queued, Unstarted
  <2>4. stage' = "resolve" /\ pc' = "call" /\ alive' = {} /\ told' = {} /\ cleared' = {}
    BY <1>4 DEF BeginCall, Invoke, Reach, Journey
  <2>5. NotRan'
    BY <1>4, <2>3 DEF BeginCall, Invoke, NotRan
  <2> QED
    BY <2>4, <2>5 DEF Journey, BeforeExecution, UnderExecution, AfterExecution, Executing
<1>5. CASE RequestCancel
  <2>1. UNCHANGED <<pipeline, pc, waiting>>
    BY <1>5 DEF RequestCancel
  <2> QED
    BY <2>1 DEF Journey, pipeline, invocation, BeforeExecution, UnderExecution, AfterExecution,
       Denied, Displayed, Left, Ran, NotRan
<1>6. CASE CommitResult \/ CallRaises \/ Crash
  BY <1>2, <1>6 DEF CommitResult, CallRaises, Crash
<1>7. CASE StartRun \/ ContinueRun \/ Inject \/ EndRun \/ Build \/ FinishBuild \/ Attempt \/ Receive
             \/ AbandonRequest \/ Respond \/ SkipBatch \/ (\E c \in CallIds : Recover(c)) \/ Restart
  <2>1. pc # "call" /\ pc' # "call" /\ UNCHANGED pipeline
    BY <1>7 DEF StartRun, ContinueRun, Inject, EndRun, Build, FinishBuild, Attempt, Receive,
       AbandonRequest, Respond, SkipBatch, Recover, Restart, Building, loop
  <2> QED
    BY <1>1, <2>1
<1> QED
  BY <1>3, <1>4, <1>5, <1>6, <1>7 DEF Next

-----------------------------------------------------------------------------
(* The summaries.                                                          *)

\* The record in force is the last summary, or the one before it.
InForce ==
  \/ record = NoRecord /\ Len(stored) <= 1
  \/ \E i \in 1..Len(stored) : i >= Len(stored) - 1 /\ record = stored[i]

\* Numbered without a gap, each covering more than the one before and no more
\* than could be covered now.
Ascending ==
  \A i \in 1..Len(stored) :
    /\ stored[i].version = i
    /\ stored[i].through <= FindCut(log)
    /\ i > 1 => stored[i].through > stored[i - 1].through

\* A summary whose checkpoint is being saved is the last of the store, for the
\* log as it is, and the request behind it is within the budget.
PendingSaved ==
  pending # NoRecord =>
    /\ stored # <<>> /\ pending = stored[Len(stored)]
    /\ pending.through = FindCut(log) /\ FindCut(log) # 0
    /\ Decide(Estimate(log, TailStart(pending))) # "reject"

Summaries ==
  /\ Ascending /\ PendingSaved
  /\ IF pc = "down" THEN record = NoRecord ELSE InForce

LEMMA LastStored ==
  ASSUME NEW s, s \in Seq(Summary), s # <<>>
  PROVE  Len(s) \in Nat \ {0} /\ Len(s) \in 1..Len(s) /\ s[Len(s)] \in Summary
<1>1. Len(s) \in Nat \ {0}
  BY EmptySeq
<1> QED
  BY <1>1

\* After a restart the latest summary is in force.
LEMMA Restored ==
  ASSUME ContextTyped, Ascending, RestoreRecord
  PROVE  record' \in Summary /\ InForce'
<1>0. stored \in Seq(Summary) /\ stored' = stored
  BY DEF ContextTyped, RestoreRecord
<1>1. CASE stored = <<>>
  <2>1. record' = NoRecord
    BY <1>1 DEF RestoreRecord
  <2> QED
    BY <1>0, <1>1, <2>1 DEF NoRecord, Summary, InForce
<1>2. CASE stored # <<>>
  <2> DEFINE R == {stored[i] : i \in 1..Len(stored)}
             Latest(r) == \A i \in 1..Len(stored) : stored[i].version <= r.version
  <2>1. Len(stored) \in 1..Len(stored) /\ Len(stored) \in Nat
    BY <1>0, <1>2, LastStored
  <2>2. stored[Len(stored)] \in R /\ Latest(stored[Len(stored)])
    BY <2>1 DEF Ascending
  <2>3. record' = CHOOSE r \in R : Latest(r)
    BY <1>2 DEF RestoreRecord
  <2>4. record' \in R /\ Latest(record')
    BY <2>2, <2>3
  <2>5. PICK i \in 1..Len(stored) : record' = stored[i]
    BY <2>4
  <2>6. i = Len(stored)
    <3>1. stored[i].version = i /\ stored[Len(stored)].version = Len(stored)
      BY <2>1 DEF Ascending
    <3>2. stored[Len(stored)].version <= record'.version
      BY <2>1, <2>4
    <3> QED
      BY <2>1, <2>5, <3>1, <3>2
  <2> QED
    BY <1>0, <2>1, <2>5, <2>6 DEF InForce
<1> QED
  BY <1>1, <1>2

\* The sink takes a summary only if it follows the last one of the store.
LEMMA PersistAscends ==
  ASSUME Typed, Summaries, pc # "down", PersistSummary
  PROVE  Ascending' /\ PendingSaved' /\ InForce' /\ ContextTyped'
<1> DEFINE n == Len(stored)
           c == Compacted
<1>0. /\ log \in Seq(Message) /\ stored \in Seq(Summary) /\ record \in Summary /\ n \in Nat
      /\ log' = log /\ record' = record /\ stored' = Append(stored, c) /\ pending' = c
      /\ InForce /\ Ascending
  BY DEF Typed, ContextTyped, PersistSummary, Summaries
<1>1. FindCut(log) \in Nat
  BY <1>0, CutType
<1>2. c = [version |-> record.version + 1, through |-> FindCut(log)] /\ record.version \in Nat
  BY <1>0 DEF Compacted, Summary
<1>3. c \in Summary /\ c.version = record.version + 1 /\ c.through = FindCut(log)
  BY <1>1, <1>2 DEF Summary
<1>4. CanCompact /\ NewBoundary /\ \A i \in 1..n : stored[i].version # c.version
  BY DEF PersistSummary
<1>5. /\ FindCut(log) # 0 /\ Decide(Estimate(log, TailStart(c))) # "reject"
      /\ record = NoRecord \/ record.through # c.through
  BY <1>4 DEF CanCompact, NewBoundary
<1> HIDE DEF c, n
<1>6. (n = 0 /\ c.version = 1) \/ (n \in Nat \ {0} /\ record = stored[n] /\ c.version = n + 1)
  <2>1. CASE record = NoRecord /\ n <= 1
    <3>1. c.version = 1
      BY <1>3, <2>1 DEF NoRecord
    <3>2. n # 1
      BY <1>0, <1>4, <3>1 DEF Ascending, n
    <3> QED
      BY <1>0, <2>1, <3>1, <3>2
  <2>2. ASSUME NEW i \in 1..n, i >= n - 1, record = stored[i]
        PROVE  n \in Nat \ {0} /\ record = stored[n] /\ c.version = n + 1
    <3>1. record.version = i
      BY <1>0, <2>2 DEF Ascending, n
    <3>2. c.version = i + 1
      BY <1>3, <3>1
    <3>3. i + 1 \notin 1..n
      BY <1>0, <1>4, <3>2 DEF Ascending, n
    <3>4. i = n
      BY <1>0, <2>2, <3>3
    <3> QED
      BY <1>0, <2>2, <3>2, <3>4
  <2> QED
    BY <1>0, <2>1, <2>2 DEF InForce, n
<1>7. /\ Len(stored') = n + 1 /\ stored'[n + 1] = c /\ stored' \in Seq(Summary)
      /\ \A i \in 1..n : stored'[i] = stored[i]
  BY <1>0, <1>3 DEF n
<1>8. Ascending'
  <2>1. c.version = n + 1 /\ c.through <= FindCut(log)
    BY <1>1, <1>3, <1>6
  <2>2. ASSUME n + 1 > 1
        PROVE  c.through > stored'[n].through
    <3>1. n \in 1..n /\ record = stored[n] /\ stored'[n] = stored[n] /\ record # NoRecord
      <4>1. n \in Nat \ {0} /\ record = stored[n]
        BY <1>0, <1>6, <2>2
      <4>2. record.version = n
        BY <1>0, <4>1 DEF Ascending, n
      <4> QED
        BY <1>7, <4>1, <4>2 DEF NoRecord
    <3>2. stored[n].through <= FindCut(log) /\ stored[n].through # c.through
      BY <1>0, <1>5, <3>1 DEF Ascending, n
    <3>3. stored[n].through \in Nat
      BY <1>0, <3>1 DEF Summary
    <3> QED
      BY <1>1, <1>3, <3>1, <3>2, <3>3
  <2>3. \A i \in 1..n : /\ stored'[i].version = i /\ stored'[i].through <= FindCut(log)
                        /\ i > 1 => stored'[i].through > stored'[i - 1].through
    <3> TAKE i \in 1..n
    <3>1. i > 1 => i - 1 \in 1..n
      BY <1>0
    <3> QED
      BY <1>0, <1>7, <3>1 DEF Ascending, n
  <2>4. \A i \in 1..(n + 1) : i \in 1..n \/ i = n + 1
    BY <1>0
  <2>5. (n + 1) - 1 = n
    BY <1>0
  <2>6. \A i \in 1..(n + 1) : /\ stored'[i].version = i /\ stored'[i].through <= FindCut(log)
                              /\ i > 1 => stored'[i].through > stored'[i - 1].through
    BY <1>7, <2>1, <2>2, <2>3, <2>4, <2>5
  <2> QED
    BY <1>0, <1>7, <2>6 DEF Ascending
<1>9. PendingSaved'
  <2>1. stored' # <<>>
    BY <1>0, <1>7, EmptySeq
  <2> QED
    BY <1>0, <1>3, <1>5, <1>7, <2>1 DEF PendingSaved
<1>10. InForce'
  <2>1. CASE n = 0
    BY <1>0, <1>6, <1>7, <2>1 DEF InForce, n
  <2>2. CASE n \in Nat \ {0} /\ record = stored[n]
    <3>1. n \in 1..Len(stored') /\ n >= Len(stored') - 1 /\ record' = stored'[n]
      BY <1>0, <1>7, <2>2
    <3> QED
      BY <3>1 DEF InForce
  <2> QED
    BY <1>6, <2>1, <2>2
<1> QED
  BY <1>0, <1>3, <1>7, <1>8, <1>9, <1>10 DEF ContextTyped

\* Summaries that are left alone still ascend when the log has grown.
LEMMA AscendingKept ==
  ASSUME Typed, Next, Ascending, UNCHANGED stored
  PROVE  Ascending'
<1>1. /\ log \in Seq(Message) /\ log' \in Seq(Message) /\ Extends(log', log)
      /\ stored \in Seq(Summary)
  BY LogStep DEF Typed, ContextTyped
<1>2. FindCut(log) <= FindCut(log') /\ FindCut(log) \in Nat /\ FindCut(log') \in Nat
  BY <1>1, CallsCounted, CutGrows, CutType
<1>3. ASSUME NEW i \in 1..Len(stored)
      PROVE  stored[i].through \in Nat
  <2>1. stored[i] \in Summary
    BY <1>1
  <2> QED
    BY <2>1 DEF Summary
<1>4. \A i \in 1..Len(stored) : stored[i].through <= FindCut(log')
  BY <1>2, <1>3 DEF Ascending
<1> QED
  BY <1>4 DEF Ascending

\* A log whose summary waits for its checkpoint does not change.
LEMMA PendingBlocks ==
  ASSUME Typed, Next, pending # NoRecord
  PROVE  UNCHANGED log
<1>0. pc = "build" /\ stage = "idle" /\ waiting = <<>>
  BY DEF Typed, Placed
<1>1. CASE FinishBuild
  BY <1>1 DEF FinishBuild, CommitRecord, CheckpointFails
<1>2. CASE ~FinishBuild
  BY <1>0, <1>2 DEF Next, StartRun, ContinueRun, Inject, EndRun, Build, Building, Attempt, Receive,
     RequestCancel, AbandonRequest, Respond, SkipBatch, BeginCall, WorkOnCall, CommitResult,
     CallRaises, Crash, Recover, Restart, session
<1> QED
  BY <1>1, <1>2

LEMMA SummariesStep ==
  ASSUME Typed, Summaries, Next
  PROVE  Summaries' /\ ContextTyped'
<1>0. /\ stored \in Seq(Summary) /\ record \in Summary /\ pending \in Summary
      /\ Ascending /\ PendingSaved /\ Placed /\ ContextTyped
  BY DEF Typed, ContextTyped, Summaries
<1>a. NoRecord \in Summary
  BY DEF NoRecord, Summary
<1>1. CASE Build /\ PersistSummary
  <2>1. pc # "down" /\ pc' # "down"
    BY <1>1 DEF Build, Building, PersistSummary, BuildPlain, BuildAgain, BuildRefused, SummaryRefused
  <2> QED
    BY <1>1, <2>1, PersistAscends DEF Summaries
<1>2. CASE FinishBuild
  <2>1. /\ UNCHANGED <<log, stored>> /\ pc # "down" /\ pc' # "down" /\ pending' = NoRecord
        /\ (record' = pending /\ pending # NoRecord) \/ record' = record
    BY <1>2 DEF FinishBuild, CommitRecord, CheckpointFails
  <2>2. Ascending' /\ PendingSaved'
    BY <1>0, <2>1 DEF Ascending, PendingSaved
  <2>3. CASE record' = record
    BY <1>0, <1>a, <2>1, <2>2, <2>3 DEF Summaries, InForce, ContextTyped
  <2>4. CASE record' = pending /\ pending # NoRecord
    <3>1. Len(stored) \in 1..Len(stored) /\ Len(stored) \in Nat /\ pending = stored[Len(stored)]
      BY <1>0, <2>4, LastStored DEF PendingSaved
    <3>2. InForce'
      BY <2>1, <2>4, <3>1 DEF InForce
    <3> QED
      BY <1>0, <1>a, <2>1, <2>2, <2>4, <3>2 DEF Summaries, ContextTyped
  <2> QED
    BY <2>1, <2>3, <2>4
<1>3. CASE Crash
  <2>1. UNCHANGED <<log, stored>> /\ pc' = "down" /\ record' = NoRecord /\ pending' = NoRecord
    BY <1>3 DEF Crash
  <2> QED
    BY <1>0, <1>a, <2>1 DEF Summaries, Ascending, PendingSaved, ContextTyped
<1>4. CASE Restart
  <2>1. UNCHANGED <<log, stored, pending>> /\ RestoreRecord /\ pc' # "down"
    BY <1>4 DEF Restart, RestoreRecord
  <2>2. record' \in Summary /\ InForce'
    BY <1>0, <2>1, Restored
  <2> QED
    BY <1>0, <2>1, <2>2 DEF Summaries, Ascending, PendingSaved, ContextTyped
<1>5. CASE UNCHANGED <<stored, record, pending>> /\ (pc' = "down" <=> pc = "down")
  <2>1. Ascending'
    BY <1>0, <1>5, AscendingKept
  <2>2. PendingSaved'
    <3>1. ASSUME pending # NoRecord
          PROVE  log' = log
      BY <3>1, PendingBlocks
    <3> QED
      BY <1>0, <1>5, <3>1 DEF PendingSaved
  <2> QED
    BY <1>0, <1>5, <2>1, <2>2 DEF Summaries, InForce, ContextTyped
<1>6. CASE Build /\ ~PersistSummary
  <2>1. UNCHANGED <<stored, record, pending>> /\ pc # "down" /\ pc' # "down"
    BY <1>6 DEF Build, Building, BuildPlain, BuildAgain, BuildRefused, SummaryRefused, context
  <2> QED
    BY <1>5, <2>1
<1>7. CASE StartRun \/ ContinueRun \/ Inject \/ EndRun \/ Attempt \/ Receive \/ RequestCancel
             \/ AbandonRequest \/ Respond \/ SkipBatch \/ BeginCall \/ WorkOnCall \/ CommitResult
             \/ CallRaises \/ (\E c \in CallIds : Recover(c))
  <2>1. UNCHANGED <<stored, record, pending>>
    BY <1>7 DEF StartRun, ContinueRun, Inject, EndRun, Attempt, Receive, RequestCancel,
       AbandonRequest, Respond, SkipBatch, BeginCall, WorkOnCall, CommitResult, CallRaises,
       Recover, session, context, Consumed
  <2>2. pc' = "down" <=> pc = "down"
    BY <1>7 DEF StartRun, ContinueRun, Inject, EndRun, Attempt, Receive, RequestCancel,
       AbandonRequest, Respond, SkipBatch, BeginCall, WorkOnCall, CommitResult, CallRaises,
       Recover, Building, loop
  <2> QED
    BY <1>5, <2>1, <2>2
<1> QED
  BY <1>1, <1>2, <1>3, <1>4, <1>6, <1>7 DEF Next

-----------------------------------------------------------------------------
(* What a request stands for.                                              *)

\* What RequestWhole says of a log and the context of a request.
WholeFor(l, q) ==
  /\ q.sources \cup (q.first..Len(l)) = Positions(l)
  /\ q.sources \cap (q.first..Len(l)) = {}
  /\ \A i, j \in Positions(l) :
       l[j].call # {} /\ l[j].call \subseteq l[i].calls => (i < q.first <=> j < q.first)
  /\ q.version > 0 => Cardinality({s \in GroupStarts(l) : s >= q.first}) >= PreserveRecent
  /\ Decide(Estimate(l, q.first)) # "reject"

LEMMA PlainIsWhole ==
  ASSUME NEW l, l \in Seq(Message), Decide(Estimate(l, 1)) = "fit"
  PROVE  WholeFor(l, Plain)
<1>1. Plain.version = 0 /\ Plain.sources = {} /\ Plain.first = 1
  BY DEF Plain
<1>2. Len(l) \in Nat /\ \A i \in Positions(l) : ~(i < 1)
  BY DEF Positions
<1> QED
  BY <1>1, <1>2 DEF WholeFor, Positions

LEMMA SummarisedIsWhole ==
  ASSUME NEW l, l \in Seq(Message), Consistent(l), NEW r, r.through = FindCut(l),
         FindCut(l) # 0, Decide(Estimate(l, TailStart(r))) # "reject"
  PROVE  WholeFor(l, Summarised(r))
<1> DEFINE q == Summarised(r)
           e == FindCut(l)
<1>1. q.sources = 1..e /\ q.first = e + 1 /\ q.first = TailStart(r)
  BY DEF Summarised, TailStart
<1>2. e \in Nat /\ e <= Len(l) /\ Len(l) \in Nat /\ e # 0
  BY CutType
<1>3. Cardinality({s \in GroupStarts(l) : s >= e + 1}) >= PreserveRecent
  BY <1>2, RecentKept
<1>4. \A i, j \in Positions(l) :
        l[j].call # {} /\ l[j].call \subseteq l[i].calls => (i < e + 1 <=> j < e + 1)
  BY CutKeepsCalls
<1> HIDE DEF q, e
<1>5. /\ (1..e) \cup ((e + 1)..Len(l)) = 1..Len(l)
      /\ (1..e) \cap ((e + 1)..Len(l)) = {}
  BY <1>2
<1>6. WholeFor(l, q)
  BY <1>1, <1>3, <1>4, <1>5 DEF WholeFor, Positions
<1> QED
  BY <1>6 DEF q

Requested == pc = "stream" => WholeFor(log, request)

LEMMA RequestStep ==
  ASSUME Typed, CallsInv, Summaries, Requested, Next
  PROVE  Requested'
<1>0. log \in Seq(Message) /\ Consistent(log) /\ PendingSaved /\ Placed
  BY DEF Typed, CallsInv, Summaries
<1>1. CASE Build
  <2>1. log' = log
    BY <1>1 DEF Build, BuildPlain, BuildAgain, PersistSummary, BuildRefused, SummaryRefused
  <2>2. CASE BuildPlain
    BY <1>0, <2>1, <2>2, PlainIsWhole DEF BuildPlain, Requested
  <2>3. CASE BuildAgain
    <3>1. /\ request' = Summarised(Compacted) /\ FindCut(log) # 0
          /\ Decide(Estimate(log, TailStart(Compacted))) # "reject"
      BY <2>3 DEF BuildAgain, CanCompact
    <3>2. Compacted.through = FindCut(log)
      BY DEF Compacted
    <3> QED
      BY <1>0, <2>1, <3>1, <3>2, SummarisedIsWhole DEF Requested
  <2>4. CASE pc' # "stream"
    BY <2>4 DEF Requested
  <2> QED
    BY <1>1, <2>2, <2>3, <2>4 DEF Build, Building
<1>2. CASE FinishBuild
  <2>1. CASE CommitRecord
    <3>1. log' = log /\ request' = Summarised(pending) /\ pending # NoRecord
      BY <2>1 DEF CommitRecord
    <3> QED
      BY <1>0, <3>1, SummarisedIsWhole DEF PendingSaved, Requested
  <2>2. CASE pc' # "stream"
    BY <2>2 DEF Requested
  <2> QED
    BY <1>2, <2>1, <2>2 DEF FinishBuild
<1>3. CASE pc = "stream" /\ UNCHANGED <<log, request>>
  BY <1>3 DEF Requested
<1>4. CASE pc' # "stream"
  BY <1>4 DEF Requested
<1>5. CASE Attempt \/ Receive
  BY <1>3, <1>5 DEF Attempt, Receive, session, context
<1>6. CASE StartRun \/ ContinueRun \/ Inject \/ EndRun \/ RequestCancel
             \/ AbandonRequest \/ Respond \/ SkipBatch \/ BeginCall \/ WorkOnCall \/ CommitResult
             \/ CallRaises \/ Crash \/ (\E c \in CallIds : Recover(c)) \/ Restart
  <2>1. CASE RequestCancel
    <3>1. pc = "call" /\ pc' = pc
      BY <1>0, <2>1 DEF RequestCancel, Placed, Executing
    <3> QED
      BY <1>4, <3>1
  <2>2. CASE ~RequestCancel
    BY <1>4, <1>6, <2>2 DEF StartRun, ContinueRun, Inject, EndRun, AbandonRequest, Respond, SkipBatch,
       BeginCall, WorkOnCall, CommitResult, CallRaises, Crash, Recover, Restart, Building, loop
  <2> QED
    BY <2>1, <2>2
<1> QED
  BY <1>1, <1>2, <1>5, <1>6 DEF Next

-----------------------------------------------------------------------------
(* The inductive invariant and what follows from it.                       *)

TurnInv == Typed /\ CallsInv /\ Journey /\ Summaries /\ Requested

LEMMA TurnInit == Init => TurnInv
<1> SUFFICES ASSUME Init PROVE TurnInv
  OBVIOUS
<1>0. /\ log = <<>> /\ stored = <<>> /\ order = <<>> /\ waiting = <<>>
      /\ \A S : <<>> \in Seq(S)
      /\ Len(<<>>) = 0 /\ NoRecord \in Summary /\ pc = "idle" /\ stage = "idle"
  BY EmptySeq DEF Init, NoRecord, Summary
<1>1. ContextTyped /\ StreamTyped
  BY <1>0 DEF Init, ContextTyped, StreamTyped
<1>2. PipelineTyped
  BY TurnAssumption DEF Init, PipelineTyped, Stages, NoOutcome
<1>3. LoopTyped /\ Placed
  BY <1>0 DEF Init, LoopTyped, Placed
<1>4. Typed
  BY <1>0, <1>1, <1>2, <1>3 DEF Typed
<1>5. Consistent(log) /\ Arriving /\ Queued
  BY <1>0 DEF Consistent, Positions, Arriving, Queued, NoRepeat
<1>6. Executed
  BY TurnAssumption DEF Init, Executed
<1>7. Journey /\ Requested
  BY DEF Init, Journey, Requested
<1>8. Summaries
  BY <1>0 DEF Init, Summaries, Ascending, PendingSaved, InForce
<1> QED
  BY <1>4, <1>5, <1>6, <1>7, <1>8 DEF TurnInv, CallsInv

LEMMA TurnStep == TurnInv /\ [Next]_vars => TurnInv'
<1> SUFFICES ASSUME TurnInv, [Next]_vars PROVE TurnInv'
  OBVIOUS
<1>0. Typed /\ CallsInv /\ Journey /\ Summaries /\ Requested
  BY DEF TurnInv
<1>1. CASE Next
  <2>1. Typed'
    BY <1>0, <1>1, LogStep, SummariesStep, StreamStep, PipelineTypeStep, LoopStep, PlacedStep DEF Typed
  <2>2. CallsInv'
    BY <1>0, <1>1, ConsistentStep, ArrivingStep, QueuedStep, ExecutedStep DEF CallsInv
  <2>3. Journey' /\ Summaries' /\ Requested'
    BY <1>0, <1>1, JourneyStep, SummariesStep, RequestStep
  <2> QED
    BY <2>1, <2>2, <2>3 DEF TurnInv
<1>2. CASE UNCHANGED vars
  <2>1. /\ UNCHANGED <<log, stored, record, pending, request, sent, order, attempt>>
        /\ UNCHANGED <<stage, call, cleared, alive, outcome, told, executions, pc, waiting>>
    BY <1>2 DEF vars, session, context, stream, pipeline, invocation, loop
  <2>2. Typed'
    BY <1>0, <2>1 DEF Typed, ContextTyped, StreamTyped, PipelineTyped, LoopTyped, Placed
  <2>3. CallsInv'
    BY <1>0, <2>1 DEF CallsInv, Arriving, Queued, Executed, Proposed
  <2>4. Journey'
    BY <1>0, <2>1 DEF Journey, BeforeExecution, UnderExecution, AfterExecution, Denied, Displayed,
       Left, Ran, NotRan
  <2>5. Summaries' /\ Requested'
    BY <1>0, <2>1 DEF Summaries, Ascending, PendingSaved, InForce, Requested
  <2> QED
    BY <2>2, <2>3, <2>4, <2>5 DEF TurnInv
<1> QED
  BY <1>1, <1>2

LEMMA AlwaysTurnInv == Spec => []TurnInv
  BY TurnInit, TurnStep, PTL DEF Spec

\* Every variable keeps its type, and the place of the loop decides which of
\* them are in use (AgentLoop.run, ContextManager.build, ToolPipeline.invoke).
THEOREM TurnTypes == Spec => []TypeOK
<1>1. TurnInv => TypeOK
  <2> SUFFICES ASSUME TurnInv PROVE TypeOK
    OBVIOUS
  <2>0. /\ log \in Seq(Message) /\ Len(log) \in Nat /\ record \in Summary /\ pending \in Summary
        /\ stored \in Seq(Summary) /\ PipelineTyped /\ LoopTyped /\ Placed /\ Summaries
        /\ FindCut(log) \in Nat /\ FindCut(log) <= Len(log)
    BY CutType DEF TurnInv, Typed, ContextTyped
  <2>1. \A i \in Positions(log) :
          log[i] \in [kind : {"user", "assistant", "result"}, calls : SUBSET CallIds,
                      call : SUBSET CallIds, tokens : Nat]
    <3> TAKE i \in Positions(log)
    <3>1. log[i] \in Message
      BY <2>0 DEF Positions
    <3> QED
      BY <3>1 DEF Message
  <2>2. ASSUME NEW r \in Summary, r = NoRecord \/ r.through <= FindCut(log)
        PROVE  r \in [version : Nat, through : 0..Len(log)]
    <3>1. r.through \in Nat /\ r.through <= Len(log)
      BY <2>0, <2>2 DEF NoRecord, Summary
    <3>2. r.through \in 0..Len(log)
      BY <2>0, <3>1
    <3> QED
      BY <3>2 DEF Summary
  <2>3. record = NoRecord \/ record.through <= FindCut(log)
    BY <2>0 DEF Summaries, InForce, Ascending
  <2>4. pending = NoRecord \/ pending.through <= FindCut(log)
    BY <2>0 DEF Summaries, PendingSaved
  <2>5. /\ record \in [version : Nat, through : 0..Len(log)]
        /\ pending \in [version : Nat, through : 0..Len(log)]
    BY <2>0, <2>2, <2>3, <2>4
  <2>6. outcome.status \in Statuses \cup {"none"}
    BY <2>0 DEF PipelineTyped
  <2>7. stage \in {"idle", "resolve", "start", "process", "after", "returned", "raised"}
                    \cup Checks \cup Executing
    BY <2>0 DEF PipelineTyped, Stages
  <2> QED
    BY <2>0, <2>1, <2>5, <2>6, <2>7 DEF TypeOK, LoopTyped, Placed
<1> QED
  BY <1>1, AlwaysTurnInv, PTL

\* A request stands for the whole history once, never parts a call from its
\* result, keeps the recent groups and is within the budget (find_cut,
\* _tail_after, TokenManager.decide_total).
THEOREM RequestsAreWhole == Spec => []RequestWhole
<1>1. TurnInv => RequestWhole
  BY DEF TurnInv, Requested, WholeFor, RequestWhole
<1> QED
  BY <1>1, AlwaysTurnInv, PTL

\* The summaries of a session are numbered without a gap and cover more and
\* more, whatever fails between the row and its checkpoint (builder.py's
\* _commit_record, the runtime's sink).
THEOREM SummariesAscend == Spec => []SummariesMonotonic
<1>1. TurnInv => SummariesMonotonic
  BY DEF TurnInv, Summaries, Ascending, SummariesMonotonic
<1> QED
  BY <1>1, AlwaysTurnInv, PTL

\* What is in force is what a restart would find, or its predecessor while the
\* last one's checkpoint is missing (builder.py, _restore_compaction).
THEOREM RecordsAreStored == Spec => []RecordFollowsStore
<1>1. TurnInv => RecordFollowsStore
  BY DEF TurnInv, Summaries, InForce, RecordFollowsStore
<1> QED
  BY <1>1, AlwaysTurnInv, PTL

\* The effects of a call happen at most once, only when it was proposed, and it
\* is answered at most once (MessageLog, ToolPipeline.invoke, RecoveryEngine).
THEOREM ExecutedOnce == Spec => []OneExecutionPerCall
<1>1. TurnInv => OneExecutionPerCall
  <2> SUFFICES ASSUME TurnInv, NEW c \in CallIds
               PROVE  /\ executions[c] <= 1
                      /\ executions[c] = 1 => c \in Proposed
                      /\ Cardinality({i \in Positions(log) : c \in log[i].call}) <= 1
    BY DEF OneExecutionPerCall
  <2> DEFINE A == {i \in Positions(log) : c \in log[i].call}
  <2>1. \A i, j \in A : i = j
    BY DEF TurnInv, CallsInv, Consistent
  <2>2. A = {} \/ \E i : A = {i}
    BY <2>1
  <2> HIDE DEF A
  <2>3. Cardinality(A) = 0 \/ Cardinality(A) = 1
    BY <2>2, FS_EmptySet, FS_Singleton
  <2>4. Cardinality(A) <= 1
    BY <2>3
  <2> QED
    BY <2>4 DEF A, TurnInv, CallsInv, Executed
<1> QED
  BY <1>1, AlwaysTurnInv, PTL

\* The outcome that is committed says what happened to the call, and what may
\* still write to its output (ToolPipeline.invoke, tools/bash.py).
THEOREM OutcomesAreTrue == Spec => []OutcomeMatchesExecution
<1>1. TurnInv => OutcomeMatchesExecution
  <2> SUFFICES ASSUME TurnInv, stage = "returned"
               PROVE  /\ \A c \in call :
                           /\ executions[c] = 1 =>
                                cleared = Checks /\ told = {outcome} /\ outcome.tokens <= DisplayTokens
                           /\ outcome.status = "denied" => executions[c] = 0 /\ told = {outcome}
                           /\ outcome.status \in {"completed", "timeout", "cancelled"} => executions[c] = 1
                      /\ Left
    BY DEF OutcomeMatchesExecution, Left
  <2>1. pc = "call" /\ call = {Head(waiting)}
    BY DEF TurnInv, Typed, Placed
  <2>2. \/ NotRan /\ outcome.status = "error" /\ alive = {}
        \/ (Denied \/ Displayed) /\ told = {outcome}
    BY <2>1 DEF TurnInv, Journey, AfterExecution
  <2>3. CASE NotRan /\ outcome.status = "error" /\ alive = {}
    BY <2>1, <2>3 DEF NotRan, Left
  <2>4. CASE Denied /\ told = {outcome}
    BY <2>1, <2>4 DEF Denied, NotRan, Left
  <2>5. CASE Displayed /\ told = {outcome}
    BY <2>1, <2>5 DEF Displayed, Ran, RanStatuses
  <2> QED
    BY <2>2, <2>3, <2>4, <2>5
<1> QED
  BY <1>1, AlwaysTurnInv, PTL

\* A response is committed from the attempt that was completed, with calls that
\* attempt was sending, and nothing of it is kept for the next (call_model).
THEOREM ResponsesAreUnmixed == Spec => ResponseFromOneAttempt
<1> DEFINE Step == \A i \in Positions(log') :
                     i > Len(log) /\ log'[i].kind = "assistant" =>
                       /\ log'[i].calls \subseteq sent
                       /\ attempt' = 0 /\ order' = <<>>
<1>1. TurnInv /\ [Next]_vars => [Step]_vars
  <2> SUFFICES ASSUME TurnInv, Next PROVE Step
    OBVIOUS
  <2>0. /\ log \in Seq(Message) /\ Len(log) \in Nat /\ waiting \in Seq(CallIds) /\ Arriving
    BY DEF TurnInv, Typed, LoopTyped, CallsInv
  <2>1. CASE UNCHANGED log
    BY <2>0, <2>1 DEF Positions
  <2>2. ASSUME NEW m, m.kind # "assistant", log' = Append(log, m)
        PROVE  Step
    <3>1. \A i \in Positions(log') : i > Len(log) => log'[i] = m
      BY <2>0, <2>2 DEF Positions
    <3> QED
      BY <2>2, <3>1
  <2>3. CASE StartRun \/ Inject \/ CommitResult \/ (\E c \in CallIds : Recover(c))
    <3>1. \E m : m.kind # "assistant" /\ log' = Append(log, m)
      <4>1. UserMessage(MessageTokens).kind = "user"
        BY DEF UserMessage
      <4>2. \A c, n : ToolResult(c, n).kind = "result"
        BY DEF ToolResult
      <4> QED
        BY <2>3, <4>1, <4>2 DEF StartRun, Inject, CommitResult, Recover, Say
    <3> QED
      BY <2>2, <3>1
  <2>4. CASE Respond
    <3>1. CASE log' = Append(log, AssistantMessage(Registered, MessageTokens))
      <4>1. \A i \in Positions(log') : i > Len(log) => log'[i] = AssistantMessage(Registered, MessageTokens)
        BY <2>0, <3>1 DEF Positions
      <4>2. AssistantMessage(Registered, MessageTokens).calls = Registered
        BY DEF AssistantMessage
      <4>3. Registered \subseteq sent
        BY <2>0 DEF Arriving, Registered
      <4>4. attempt' = 0 /\ order' = <<>>
        BY <2>4 DEF Respond, EndRequest, NoStream
      <4> QED
        BY <4>1, <4>2, <4>3, <4>4
    <3> QED
      BY <2>1, <2>4, <3>1 DEF Respond, Say
  <2>5. CASE SkipBatch
    <3>1. log' = log \o Skipped(waiting)
      BY <2>5 DEF SkipBatch, Skipped
    <3>2. Skipped(waiting) \in Seq(Message) /\ Len(Skipped(waiting)) = Len(waiting)
      BY <2>0, SkippedType
    <3>3. \A q \in 1..Len(waiting) : Skipped(waiting)[q].kind = "result"
      BY DEF Skipped, ToolResult
    <3>4. \A i \in Positions(log') :
            i > Len(log) => i - Len(log) \in 1..Len(waiting) /\ log'[i] = Skipped(waiting)[i - Len(log)]
      BY <2>0, <3>1, <3>2 DEF Positions
    <3> QED
      BY <3>3, <3>4
  <2>6. CASE ContinueRun \/ EndRun \/ Build \/ FinishBuild \/ Attempt \/ Receive
              \/ RequestCancel \/ AbandonRequest \/ BeginCall \/ WorkOnCall \/ CallRaises
              \/ Crash \/ Restart
    <3>1. UNCHANGED log
      BY <2>6 DEF ContinueRun, EndRun, Build, FinishBuild, Attempt, Receive, RequestCancel,
           AbandonRequest, BeginCall, WorkOnCall, CallRaises, Crash, Restart, session,
           BuildPlain, BuildAgain, PersistSummary, BuildRefused, SummaryRefused,
           CommitRecord, CheckpointFails, RestoreRecord
    <3> QED
      BY <2>1, <3>1
  <2> QED
    BY <2>3, <2>4, <2>5, <2>6 DEF Next
<1> QED
  BY <1>1, AlwaysTurnInv, PTL DEF Spec, ResponseFromOneAttempt
=============================================================================
