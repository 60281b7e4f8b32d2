------------------------- MODULE RequestStrategyProofs -------------------------
(***************************************************************************)
(* Theorems about a request on its way to the tasks: for any database of   *)
(* StationLite, any request, limits and strategy, the tasks ask for what   *)
(* the database says, once, and refusals are true.                         *)
(***************************************************************************)
EXTENDS RequestStrategy, SequenceTheorems, FiniteSetTheorems, WellFoundedInduction, TLAPS

-----------------------------------------------------------------------------
(* Numbers. *)

\* A set of natural numbers has a least element.
LEMMA Least ==
    ASSUME NEW T \in SUBSET Nat, T # {}
    PROVE  \E x \in T : \A y \in T : x <= y
<1> DEFINE R == OpToRel(<, Nat)
<1>1. IsWellFoundedOn(R, Nat)
  BY NatLessThanWellFounded
<1>2. PICK x \in T : \A y \in T : ~(<<y, x>> \in R)
  <2> HIDE DEF R
  <2> QED BY <1>1, WFMin
<1>3. \A y \in T : ~(y < x)
  BY <1>2 DEF OpToRel
<1> QED BY <1>3

\* Induction, for the numbers up to n, of what holds for those in P.
LEMMA Induction ==
    ASSUME NEW n \in Nat, NEW P, 0 \in P,
           \A k \in 1 .. n : k - 1 \in P => k \in P
    PROVE  \A k \in 0 .. n : k \in P
<1> DEFINE T == (0 .. n) \ P
<1>1. SUFFICES ASSUME T # {} PROVE FALSE
  OBVIOUS
<1>2. PICK x \in T : \A y \in T : x <= y
  <2> T \in SUBSET Nat
    OBVIOUS
  <2> HIDE DEF T
  <2> QED BY <1>1, Least
<1>3. x \in 1 .. n /\ x - 1 \notin T
  BY <1>2
<1> QED BY <1>2, <1>3

LEMMA MinOfNats ==
    ASSUME NEW S \in SUBSET Nat, S # {}
    PROVE  Min(S) \in S /\ \A y \in S : Min(S) <= y
<1>1. \E x \in S : \A y \in S : x <= y
  BY Least
<1> QED BY <1>1 DEF Min

\* Bounded sets of numbers have a maximum.
LEMMA MaxOfBounded ==
    ASSUME NEW n \in Nat, NEW S \in SUBSET (0 .. n), S # {}
    PROVE  Max(S) \in S /\ \A y \in S : y <= Max(S)
<1> DEFINE T == {n - s : s \in S}
<1>1. T \in SUBSET Nat /\ T # {}
  <2>1. \A s \in S : s \in Nat /\ s <= n
    OBVIOUS
  <2>2. \A s \in S : n - s \in Nat
    BY <2>1
  <2> QED BY <2>2
<1>2. PICK m \in T : \A k \in T : m <= k
  <2> HIDE DEF T
  <2> QED BY <1>1, Least
<1>3. PICK x \in S : m = n - x
  BY <1>2
<1>4. \A y \in S : x >= y
  <2> SUFFICES ASSUME NEW y \in S PROVE x >= y
    OBVIOUS
  <2>1. m <= n - y
    BY <1>2
  <2> QED BY <1>3, <2>1
<1>5. Max(S) \in S /\ \A y \in S : Max(S) >= y
  BY <1>3, <1>4 DEF Max
<1> QED BY <1>5

\* The values of a function of a finite set.
LEMMA ImageFinite ==
    ASSUME NEW f, IsFiniteSet(DOMAIN f), f = [x \in DOMAIN f |-> f[x]]
    PROVE  IsFiniteSet({f[x] : x \in DOMAIN f})
<1>1. f \in Surjection(DOMAIN f, {f[x] : x \in DOMAIN f})
  BY DEF Surjection
<1> QED BY <1>1, FS_Surjection

-----------------------------------------------------------------------------
(* Interval trees. *)

Clock == 1 .. EndOfTime

\* What interval trees hold.
Intervals == {iv \in Clock \X Clock : iv[1] < iv[2]}

Covers(tree, t) == \E iv \in tree : iv[1] <= t /\ t < iv[2]

ApartIn(tree) == \A i, j \in tree : i # j => i[2] <= j[1] \/ j[2] <= i[1]

LEMMA IntervalType ==
    \A iv \in Intervals : /\ iv = <<iv[1], iv[2]>>
                          /\ iv[1] \in Clock /\ iv[2] \in Clock /\ iv[1] < iv[2]
                          /\ iv[1] \in Nat /\ iv[2] \in Nat
                          /\ iv[1] >= 1 /\ iv[2] <= EndOfTime
BY ConstantsAssumption DEF Intervals, Clock

LEMMA BeginAndEnd ==
    ASSUME NEW tree \in SUBSET Intervals, tree # {}
    PROVE  /\ Begin(tree) \in Clock /\ End(tree) \in Clock
           /\ \E iv \in tree : iv[1] = Begin(tree)
           /\ \E iv \in tree : iv[2] = End(tree)
           /\ \A iv \in tree : Begin(tree) <= iv[1] /\ iv[2] <= End(tree)
<1> DEFINE B == {iv[1] : iv \in tree}
           E == {iv[2] : iv \in tree}
<1>1. B \in SUBSET Nat /\ B \subseteq Clock /\ B # {}
  BY IntervalType
<1>2. E \in SUBSET (0 .. EndOfTime) /\ E \subseteq Clock /\ E # {} /\ EndOfTime \in Nat
  BY IntervalType, ConstantsAssumption DEF Clock
<1>3. Min(B) \in B /\ \A y \in B : Min(B) <= y
  <2> HIDE DEF B
  <2> QED BY <1>1, MinOfNats
<1>4. Max(E) \in E /\ \A y \in E : y <= Max(E)
  <2> HIDE DEF E
  <2> QED BY <1>2, MaxOfBounded
<1>5. Begin(tree) = Min(B) /\ End(tree) = Max(E)
  BY DEF Begin, End
<1>6. Begin(tree) \in B /\ End(tree) \in E
  BY <1>3, <1>4, <1>5
<1>7. \A iv \in tree : iv[1] \in B /\ iv[2] \in E
  OBVIOUS
<1> QED BY <1>1, <1>2, <1>3, <1>4, <1>5, <1>6, <1>7

\* The begins and ends that merging keeps.
BeginsOf(tree) ==
    {iv[1] : iv \in {i \in tree : \A j \in tree : j[1] < i[1] => j[2] < i[1]}}

EndsOf(tree) ==
    {iv[2] : iv \in {i \in tree : \A j \in tree : j[2] > i[2] => j[1] > i[2]}}

EndAfter(tree, b) == Min({e \in EndsOf(tree) : e > b})

LEMMA MergedDef == \A tree : Merged(tree) = {<<b, EndAfter(tree, b)>> : b \in BeginsOf(tree)}
BY DEF Merged, BeginsOf, EndsOf, EndAfter

\* Of the ends of what begins before t the last is kept unless something
\* reaches over it.
LEMMA LastEnd ==
    ASSUME NEW tree \in SUBSET Intervals, NEW t \in Nat,
           NEW i \in tree, i[1] <= t, i[2] <= t,
           \A j \in tree : j[1] <= t => j[2] <= t
    PROVE  \E e \in EndsOf(tree) : i[2] <= e /\ e <= t
<1> DEFINE E == {j[2] : j \in {k \in tree : k[1] <= t}}
<1>1. E \in SUBSET (0 .. EndOfTime) /\ E # {} /\ i[2] \in E /\ EndOfTime \in Nat
  BY IntervalType, ConstantsAssumption
<1>2. Max(E) \in E /\ \A y \in E : y <= Max(E)
  <2> HIDE DEF E
  <2> QED BY <1>1, MaxOfBounded
<1>3. PICK j \in tree : j[1] <= t /\ j[2] = Max(E)
  BY <1>2
<1>4. ASSUME NEW k \in tree, k[2] > j[2] PROVE k[1] > j[2]
  <2>1. k[1] \in Nat /\ k[2] \in Nat /\ j[2] \in Nat
    BY IntervalType
  <2>2. ~(k[1] <= t)
    <3>1. k[1] <= t => k[2] \in E
      OBVIOUS
    <3> HIDE DEF E
    <3> QED BY <1>2, <1>3, <1>4, <2>1, <3>1
  <2>3. j[2] <= t
    BY <1>3
  <2> QED BY <2>1, <2>2, <2>3
<1>5. j[2] \in EndsOf(tree)
  BY <1>4 DEF EndsOf
<1>6. j[2] <= t /\ i[2] <= j[2]
  <2> HIDE DEF E
  <2> QED BY <1>1, <1>2, <1>3
<1> QED BY <1>5, <1>6

LEMMA EndsType ==
    ASSUME NEW tree \in SUBSET Intervals
    PROVE  EndsOf(tree) \subseteq Nat /\ BeginsOf(tree) \subseteq Nat
BY IntervalType DEF EndsOf, BeginsOf

LEMMA EndAfterType ==
    ASSUME NEW tree \in SUBSET Intervals, NEW b \in BeginsOf(tree)
    PROVE  /\ b \in Nat /\ \E i \in tree : i[1] = b
           /\ EndAfter(tree, b) \in EndsOf(tree) /\ EndAfter(tree, b) > b
           /\ \A e \in EndsOf(tree) : e > b => EndAfter(tree, b) <= e
           /\ \E i \in tree : i[2] = EndAfter(tree, b)
           /\ <<b, EndAfter(tree, b)>> \in Intervals
<1>1. PICK i \in tree : i[1] = b
  BY DEF BeginsOf
<1>2. EndsOf(tree) \subseteq Clock /\ b \in Clock /\ b < i[2] /\ b \in Nat /\ i[2] \in Nat
  BY <1>1, IntervalType DEF EndsOf
<1> DEFINE E == {e \in EndsOf(tree) : e > b}
<1>3. E # {}
  <2>1. EndOfTime \in Nat /\ i[1] <= EndOfTime /\ i[2] <= EndOfTime
        /\ \A j \in tree : j[1] <= EndOfTime => j[2] <= EndOfTime
    BY <1>2, IntervalType, ConstantsAssumption DEF Clock
  <2>2. PICK e \in EndsOf(tree) : i[2] <= e /\ e <= EndOfTime
    BY <2>1, LastEnd
  <2>3. e \in Nat
    BY <2>2, <1>2, ConstantsAssumption DEF Clock
  <2>4. e > b
    BY <2>2, <2>3, <1>2
  <2> QED BY <2>2, <2>4
<1>4. E \in SUBSET Nat
  BY <1>2, ConstantsAssumption DEF Clock
<1>5. Min(E) \in E /\ \A y \in E : Min(E) <= y
  <2> HIDE DEF E
  <2> QED BY <1>3, <1>4, MinOfNats
<1>6. EndAfter(tree, b) = Min(E)
  BY DEF EndAfter
<1>7. EndAfter(tree, b) \in EndsOf(tree) /\ EndAfter(tree, b) > b
  BY <1>5, <1>6
<1>8. \E j \in tree : j[2] = EndAfter(tree, b)
  BY <1>7 DEF EndsOf
<1>9. \A e \in EndsOf(tree) : e > b => EndAfter(tree, b) <= e
  BY <1>5, <1>6
<1>10. <<b, EndAfter(tree, b)>> \in Intervals
  <2>1. EndAfter(tree, b) \in Clock
    BY <1>7, <1>2
  <2> QED BY <1>2, <1>7, <2>1, ConstantsAssumption DEF Intervals, Clock
<1> QED BY <1>1, <1>2, <1>7, <1>8, <1>9, <1>10

LEMMA MergedBegins ==
    ASSUME NEW tree \in SUBSET Intervals
    PROVE  /\ Merged(tree) \subseteq Intervals
           /\ \A iv \in Merged(tree) : /\ iv[1] \in BeginsOf(tree)
                                       /\ iv[2] = EndAfter(tree, iv[1])
                                       /\ \E i \in tree : i[1] = iv[1]
                                       /\ \E i \in tree : i[2] = iv[2]
           /\ \A b \in BeginsOf(tree) : <<b, EndAfter(tree, b)>> \in Merged(tree)
BY MergedDef, EndAfterType

\* Merging keeps what the intervals cover together ...
LEMMA MergedCovers ==
    ASSUME NEW tree \in SUBSET Intervals, NEW t \in Nat
    PROVE  Covers(Merged(tree), t) <=> Covers(tree, t)
<1>1. ASSUME NEW iv \in tree, iv[1] <= t, t < iv[2]
      PROVE  Covers(Merged(tree), t)
  <2> DEFINE B == {b \in BeginsOf(tree) : b <= t}
             A == {i[1] : i \in tree}
  <2>1. B \in SUBSET (0 .. t)
    BY IntervalType DEF BeginsOf
  <2>2. B # {}
    <3>1. A \in SUBSET Nat /\ A # {} /\ iv[1] \in A
      BY IntervalType
    <3>2. Min(A) \in A /\ \A y \in A : Min(A) <= y
      <4> HIDE DEF A
      <4> QED BY <3>1, MinOfNats
    <3>3. PICK i \in tree : i[1] = Min(A)
      BY <3>2
    <3>4. \A j \in tree : ~(j[1] < i[1])
      <4> SUFFICES ASSUME NEW j \in tree PROVE ~(j[1] < i[1])
        OBVIOUS
      <4>1. j[1] \in A /\ j[1] \in Nat /\ i[1] \in Nat
        BY IntervalType
      <4> HIDE DEF A
      <4> QED BY <4>1, <3>2, <3>3
    <3>5. i[1] \in BeginsOf(tree)
      BY <3>4 DEF BeginsOf
    <3>6. i[1] <= iv[1] /\ i[1] \in Nat /\ iv[1] \in Nat
      <4>1. i[1] \in Nat /\ iv[1] \in Nat
        BY IntervalType
      <4> HIDE DEF A
      <4> QED BY <4>1, <3>1, <3>2, <3>3
    <3> QED BY <3>5, <3>6, <1>1
  <2>3. Max(B) \in B /\ \A y \in B : y <= Max(B)
    <3> HIDE DEF B
    <3> QED BY <2>1, <2>2, MaxOfBounded
  <2>4. PICK b \in BeginsOf(tree) : b <= t /\ b = Max(B) /\ \A y \in BeginsOf(tree) : y <= t => y <= b
    BY <2>3
  <2> DEFINE e == EndAfter(tree, b)
  <2>5. b \in Nat /\ e \in EndsOf(tree) /\ e > b /\ e \in Nat
    BY EndAfterType, IntervalType
  <2>6. t < e
    <3> SUFFICES ASSUME e <= t PROVE FALSE
      BY <2>5
    <3>1. PICK i \in tree : i[2] = e /\ \A j \in tree : j[2] > e => j[1] > e
      BY <2>5 DEF EndsOf
    <3> HIDE DEF e
    <3> DEFINE L == {j[1] : j \in {k \in tree : k[1] > e}}
    <3>2. iv[1] > e /\ iv[1] \in Nat
      BY <1>1, <2>5, <3>1, IntervalType
    <3>3. L \in SUBSET Nat /\ iv[1] \in L
      BY <3>2, IntervalType
    <3>4. Min(L) \in L /\ \A y \in L : Min(L) <= y
      <4> HIDE DEF L
      <4> QED BY <3>3, MinOfNats
    <3>5. PICK m \in tree : m[1] > e /\ m[1] = Min(L)
      BY <3>4
    <3>6. ASSUME NEW j \in tree, j[1] < m[1] PROVE j[2] < m[1]
      <4>1. j[1] \in Nat /\ j[2] \in Nat /\ m[1] \in Nat
        BY IntervalType
      <4>2. ~(j[1] > e)
        <5>1. j[1] > e => j[1] \in L
          OBVIOUS
        <5> HIDE DEF L
        <5> QED BY <5>1, <4>1, <3>4, <3>5, <3>6
      <4>3. ~(j[2] > e)
        BY <4>2, <3>1
      <4> QED BY <4>1, <4>3, <3>5, <2>5
    <3>7. m[1] \in BeginsOf(tree)
      BY <3>6 DEF BeginsOf
    <3>8. m[1] <= iv[1] /\ m[1] \in Nat
      <4>1. m[1] \in Nat
        BY IntervalType
      <4> HIDE DEF L
      <4> QED BY <4>1, <3>3, <3>4, <3>5
    <3>9. m[1] <= b
      BY <3>7, <3>8, <3>2, <2>4, <1>1
    <3> QED BY <3>9, <3>8, <3>5, <2>5
  <2>7. <<b, e>> \in Merged(tree)
    BY MergedBegins
  <2> QED BY <2>4, <2>6, <2>7 DEF Covers
<1>2. ASSUME NEW b \in BeginsOf(tree), b <= t, t < EndAfter(tree, b)
      PROVE  Covers(tree, t)
  <2> SUFFICES ASSUME \A j \in tree : ~(j[1] <= t /\ t < j[2]) PROVE FALSE
    BY DEF Covers
  <2>1. PICK i \in tree : i[1] = b
    BY EndAfterType
  <2>2. \A j \in tree : j[1] <= t => j[2] <= t
    BY IntervalType
  <2>3. PICK e \in EndsOf(tree) : i[2] <= e /\ e <= t
    BY <1>2, <2>1, <2>2, LastEnd
  <2>4. e > b /\ e \in Nat /\ EndAfter(tree, b) \in Nat
    <3>1. e \in Nat /\ b \in Nat /\ EndAfter(tree, b) \in Nat
      BY EndsType, EndAfterType
    <3>2. i[2] > b /\ i[2] \in Nat
      BY <2>1, IntervalType
    <3> QED BY <3>1, <3>2, <2>3
  <2>5. EndAfter(tree, b) <= e
    BY <2>4, EndAfterType
  <2> QED BY <2>3, <2>4, <2>5, <1>2
<1>3. Covers(Merged(tree), t) => Covers(tree, t)
  BY <1>2, MergedBegins DEF Covers
<1>4. Covers(tree, t) => Covers(Merged(tree), t)
  BY <1>1 DEF Covers
<1> QED BY <1>3, <1>4

\* ... and leaves no two that overlap.
LEMMA MergedApart == ASSUME NEW tree \in SUBSET Intervals PROVE ApartIn(Merged(tree))
<1>1. ASSUME NEW b \in BeginsOf(tree), NEW c \in BeginsOf(tree), b < c
      PROVE  EndAfter(tree, b) <= c
  <2>1. PICK i \in tree : i[1] = b
    BY EndAfterType
  <2>2. PICK k \in tree : k[1] = c /\ \A j \in tree : j[1] < c => j[2] < c
    BY DEF BeginsOf
  <2>3. b \in Nat /\ c \in Nat /\ c - 1 \in Nat /\ b <= c - 1
    <3>1. b \in Nat /\ c \in Nat
      BY EndAfterType
    <3> QED BY <1>1, <3>1
  <2>4. \A j \in tree : j[1] <= c - 1 => j[2] <= c - 1
    BY <2>2, <2>3, IntervalType
  <2>5. i[1] <= c - 1 /\ i[2] <= c - 1
    BY <2>1, <2>3, <2>4
  <2>6. PICK e \in EndsOf(tree) : i[2] <= e /\ e <= c - 1
    BY <2>3, <2>4, <2>5, LastEnd
  <2>7. e > b /\ e \in Nat /\ EndAfter(tree, b) \in Nat
    <3>1. e \in Nat /\ b \in Nat /\ EndAfter(tree, b) \in Nat
      BY EndsType, EndAfterType
    <3>2. i[2] > b /\ i[2] \in Nat
      BY <2>1, IntervalType
    <3> QED BY <3>1, <3>2, <2>6
  <2>8. EndAfter(tree, b) <= e
    BY <2>7, EndAfterType
  <2> QED BY <2>3, <2>6, <2>7, <2>8
<1>2. SUFFICES ASSUME NEW i \in Merged(tree), NEW j \in Merged(tree), i # j
               PROVE  i[2] <= j[1] \/ j[2] <= i[1]
  BY DEF ApartIn
<1>3. /\ i[1] \in BeginsOf(tree) /\ i[2] = EndAfter(tree, i[1]) /\ i = <<i[1], i[2]>>
      /\ j[1] \in BeginsOf(tree) /\ j[2] = EndAfter(tree, j[1]) /\ j = <<j[1], j[2]>>
      /\ i[1] \in Nat /\ j[1] \in Nat
  BY MergedBegins, IntervalType
<1>4. i[1] < j[1] \/ j[1] < i[1]
  BY <1>2, <1>3
<1> QED BY <1>1, <1>3, <1>4

LEMMA MergedSome ==
    ASSUME NEW tree \in SUBSET Intervals, tree # {}
    PROVE  Merged(tree) # {}
<1>1. PICK iv \in tree : TRUE
  OBVIOUS
<1>2. iv[1] \in Nat /\ Covers(tree, iv[1])
  BY IntervalType DEF Covers
<1> QED BY <1>2, MergedCovers DEF Covers

LEMMA SlicedKeeps ==
    ASSUME NEW tree \in SUBSET Intervals, NEW t \in Nat
    PROVE  /\ Sliced(tree, t) \subseteq Intervals
           /\ \A iv \in Sliced(tree, t) : ~(iv[1] < t /\ t < iv[2])
           /\ \A iv \in Sliced(tree, t) : \E i \in tree : i[1] <= iv[1] /\ iv[2] <= i[2]
           /\ \A u \in Nat : Covers(Sliced(tree, t), u) <=> Covers(tree, u)
<1> DEFINE Across == {iv \in tree : iv[1] < t /\ t < iv[2]}
           L == {<<iv[1], t>> : iv \in Across}
           R == {<<t, iv[2]>> : iv \in Across}
<1>1. Sliced(tree, t) = (tree \ Across) \cup L \cup R
  BY DEF Sliced
<1>2. ASSUME NEW iv \in Across
      PROVE  /\ <<iv[1], t>> \in Intervals /\ <<t, iv[2]>> \in Intervals
             /\ iv \in tree /\ iv[1] <= t /\ t <= iv[2]
             /\ iv[1] \in Nat /\ iv[2] \in Nat
  <2>1. iv \in Intervals /\ iv[1] < t /\ t < iv[2]
    OBVIOUS
  <2>2. t \in Clock
    BY <2>1, IntervalType, ConstantsAssumption DEF Clock
  <2> QED BY <2>1, <2>2, IntervalType DEF Intervals
<1>3. Sliced(tree, t) \subseteq Intervals
  BY <1>1, <1>2
<1>4. ASSUME NEW iv \in Sliced(tree, t)
      PROVE  /\ ~(iv[1] < t /\ t < iv[2])
             /\ \E i \in tree : i[1] <= iv[1] /\ iv[2] <= i[2]
  <2>1. CASE iv \in tree \ Across
    BY <2>1, IntervalType
  <2>2. CASE iv \in L
    <3>1. PICK i \in Across : iv = <<i[1], t>>
      BY <2>2
    <3>2. iv[1] = i[1] /\ iv[2] = t
      BY <3>1
    <3>3. i \in tree /\ i[1] <= t /\ t <= i[2] /\ i[1] \in Nat /\ i[2] \in Nat
      BY <3>1, <1>2
    <3> QED BY <3>2, <3>3
  <2>3. CASE iv \in R
    <3>1. PICK i \in Across : iv = <<t, i[2]>>
      BY <2>3
    <3>2. iv[1] = t /\ iv[2] = i[2]
      BY <3>1
    <3>3. i \in tree /\ i[1] <= t /\ t <= i[2] /\ i[1] \in Nat /\ i[2] \in Nat
      BY <3>1, <1>2
    <3> QED BY <3>2, <3>3
  <2> QED BY <1>1, <2>1, <2>2, <2>3
<1>5. ASSUME NEW u \in Nat, Covers(tree, u) PROVE Covers(Sliced(tree, t), u)
  <2>1. PICK iv \in tree : iv[1] <= u /\ u < iv[2]
    BY <1>5 DEF Covers
  <2>2. CASE iv \notin Across
    BY <1>1, <2>1, <2>2 DEF Covers
  <2>3. CASE iv \in Across
    <3>1. <<iv[1], t>> \in Sliced(tree, t) /\ <<t, iv[2]>> \in Sliced(tree, t)
      BY <1>1, <2>3
    <3>2. u < t \/ t <= u
      OBVIOUS
    <3> QED BY <2>1, <3>1, <3>2 DEF Covers
  <2> QED BY <2>2, <2>3
<1>6. ASSUME NEW u \in Nat, Covers(Sliced(tree, t), u) PROVE Covers(tree, u)
  <2>1. PICK iv \in Sliced(tree, t) : iv[1] <= u /\ u < iv[2]
    BY <1>6 DEF Covers
  <2>2. PICK i \in tree : i[1] <= iv[1] /\ iv[2] <= i[2]
    BY <1>4
  <2>3. i[1] <= u /\ u < i[2]
    BY <1>3, <2>1, <2>2, IntervalType
  <2> QED BY <2>3 DEF Covers
<1> QED BY <1>3, <1>4, <1>5, <1>6

\* What is left of a tree between two times.
LEMMA CutCovers ==
    ASSUME NEW tree \in SUBSET Intervals, NEW from \in Nat, NEW to \in Nat
    PROVE  LET cut == Overlap(Sliced(Sliced(tree, from), to), from, to)
           IN  /\ cut \subseteq Intervals
               /\ \A t \in Nat : Covers(cut, t) <=> Covers(tree, t) /\ from <= t /\ t < to
<1> DEFINE A == Sliced(tree, from)
           B == Sliced(A, to)
           cut == Overlap(B, from, to)
<1>1. A \subseteq Intervals /\ \A iv \in A : ~(iv[1] < from /\ from < iv[2])
  BY SlicedKeeps
<1>2. \A u \in Nat : Covers(A, u) <=> Covers(tree, u)
  BY SlicedKeeps
<1> HIDE DEF A
<1>3. /\ B \subseteq Intervals
      /\ \A iv \in B : ~(iv[1] < to /\ to < iv[2])
      /\ \A iv \in B : \E i \in A : i[1] <= iv[1] /\ iv[2] <= i[2]
      /\ \A u \in Nat : Covers(B, u) <=> Covers(A, u)
  BY <1>1, SlicedKeeps
<1> HIDE DEF B
<1>4. cut = {iv \in B : iv[1] < to /\ from < iv[2]}
  BY DEF Overlap
<1>5. ASSUME NEW iv \in cut PROVE from <= iv[1] /\ iv[2] <= to
  <2>1. iv \in B /\ iv[1] < to /\ from < iv[2]
    BY <1>4
  <2>2. PICK i \in A : i[1] <= iv[1] /\ iv[2] <= i[2]
    BY <1>3, <2>1
  <2>3. /\ i[1] \in Nat /\ i[2] \in Nat /\ iv[1] \in Nat /\ iv[2] \in Nat
    BY <1>1, <1>3, <2>1, IntervalType
  <2>4. ~(i[1] < from)
    BY <1>1, <2>1, <2>2, <2>3
  <2>5. iv[2] <= to
    BY <1>3, <2>1, <2>3
  <2> QED BY <2>2, <2>3, <2>4, <2>5
<1> HIDE DEF cut
<1>6. ASSUME NEW t \in Nat
      PROVE  Covers(cut, t) <=> Covers(B, t) /\ from <= t /\ t < to
  <2>1. Covers(cut, t) => Covers(B, t) /\ from <= t /\ t < to
    <3> SUFFICES ASSUME NEW iv \in cut, iv[1] <= t, t < iv[2]
                 PROVE  Covers(B, t) /\ from <= t /\ t < to
      BY DEF Covers
    <3>1. iv \in B /\ iv[1] \in Nat /\ iv[2] \in Nat
      BY <1>3, <1>4, IntervalType
    <3> QED BY <3>1, <1>5 DEF Covers
  <2>2. Covers(B, t) /\ from <= t /\ t < to => Covers(cut, t)
    <3> SUFFICES ASSUME NEW iv \in B, iv[1] <= t, t < iv[2], from <= t, t < to
                 PROVE  Covers(cut, t)
      BY DEF Covers
    <3>1. iv[1] \in Nat /\ iv[2] \in Nat
      BY <1>3, IntervalType
    <3>2. iv \in cut
      BY <1>4, <3>1
    <3> QED BY <3>2 DEF Covers
  <2> QED BY <2>1, <2>2
<1>7. cut \subseteq Intervals
  BY <1>3, <1>4
<1>8. \A t \in Nat : Covers(cut, t) <=> Covers(tree, t) /\ from <= t /\ t < to
  BY <1>2, <1>3, <1>6
<1> QED BY <1>7, <1>8 DEF cut, A, B

\* ... and of one, where a missing time is no constraint.
LEMMA ConstrainedCovers ==
    ASSUME NEW tree \in SUBSET Intervals, tree # {},
           NEW start \in 0 .. EndOfTime, NEW end \in 0 .. EndOfTime
    PROVE  /\ Constrained(tree, start, end) \subseteq Intervals
           /\ \A t \in Nat : Covers(Constrained(tree, start, end), t)
                                 <=> Covers(tree, t) /\ Within(t, start, end)
<1> DEFINE from == IF start = None THEN Begin(tree) ELSE start
           to   == IF end = None THEN End(tree) ELSE end
<1>1. from \in Nat /\ to \in Nat
  BY BeginAndEnd, ConstantsAssumption DEF Clock
<1>2. Constrained(tree, start, end) = Overlap(Sliced(Sliced(tree, from), to), from, to)
  BY DEF Constrained
<1>3. ASSUME NEW t \in Nat, Covers(tree, t)
      PROVE  from <= t /\ t < to <=> Within(t, start, end)
  <2>1. PICK iv \in tree : iv[1] <= t /\ t < iv[2]
    BY <1>3 DEF Covers
  <2>2. Begin(tree) <= iv[1] /\ iv[2] <= End(tree)
    BY BeginAndEnd
  <2>3. iv[1] \in Nat /\ iv[2] \in Nat /\ Begin(tree) \in Nat /\ End(tree) \in Nat
    BY BeginAndEnd, IntervalType, ConstantsAssumption DEF Clock
  <2>4. Begin(tree) <= t /\ t < End(tree)
    BY <2>1, <2>2, <2>3
  <2>5. start \in Nat /\ end \in Nat
    BY ConstantsAssumption
  <2> QED BY <2>4, <2>5, <2>3 DEF Within, None
<1> HIDE DEF from, to
<1> QED BY <1>1, <1>2, <1>3, CutCovers

-----------------------------------------------------------------------------
(* Requests. *)

TakenRequest ==
    /\ db \in Database /\ IsFiniteSet(db.rows) /\ request \in Request
    /\ Accepts(request, Now) /\ epochs = Loaded(request, Now)

LEMMA NowType == Now \in Nat /\ Now >= 1 /\ EndOfTime \in Nat /\ Now < EndOfTime
BY ConstantsAssumption DEF Times

LEMMA RequestType ==
    ASSUME request \in Request
    PROVE  /\ request.service \in Services /\ request.method \in {"GET", "POST"}
           /\ request.query \in Arguments /\ request.lines \subseteq PostLine
           /\ request.level # "channel" \/ request.format \in {"xml", "text"} =>
                  request.service = "station"
           /\ request.box \in Box
BY DEF Request

LEMMA AbsorbedType ==
    ASSUME NEW S \in SUBSET Patterns
    PROVE  /\ Absorbed(S) \subseteq Patterns /\ Absorbed(S) # {}
           /\ Absorbed(Absorbed(S)) = Absorbed(S)
BY LikeAssumption DEF Absorbed

LEMMA FromArgsType ==
    ASSUME NEW q \in Arguments
    PROVE  FromArgs(q) \subseteq PostLine /\ FromArgs(q) # {}
<1>1. /\ q.nets \subseteq Patterns /\ q.stas \subseteq Patterns /\ q.chas \subseteq Patterns
      /\ q.start \in TimesOrNone /\ q.end \in TimesOrNone
  BY DEF Arguments
<1>2. /\ Absorbed(q.nets) \subseteq Patterns /\ Absorbed(q.nets) # {}
      /\ Absorbed(q.stas) \subseteq Patterns /\ Absorbed(q.stas) # {}
      /\ Absorbed(q.chas) \subseteq Patterns /\ Absorbed(q.chas) # {}
  BY <1>1, AbsorbedType
<1>3. \A n \in Absorbed(q.nets), s \in Absorbed(q.stas), c \in Absorbed(q.chas) :
         StreamEpoch(Stream(n, s, c), q.start, q.end) \in PostLine
  BY <1>1, <1>2 DEF StreamEpoch, Stream, PostLine
<1>4. FromArgs(q) # {}
  <2>1. PICK n \in Absorbed(q.nets), s \in Absorbed(q.stas), c \in Absorbed(q.chas) : TRUE
    BY <1>2
  <2>2. StreamEpoch(Stream(n, s, c), q.start, q.end) \in FromArgs(q)
    BY <2>1 DEF FromArgs
  <2> QED BY <2>2
<1>5. FromArgs(q) \subseteq PostLine
  BY <1>3 DEF FromArgs
<1> QED BY <1>4, <1>5

LEMMA EpochsType ==
    ASSUME request \in Request
    PROVE  Epochs(request) \subseteq PostLine
BY RequestType, FromArgsType DEF Epochs, FromPostfile

\* The times of a request that count so far are not changed.
LEMMA ResetKeeps ==
    ASSUME NEW se \in PostLine, NEW m, NEW keep \in BOOLEAN, NEW now \in Nat, now >= Now
    PROVE  /\ Reset(se, m, keep, now) \in PostLine
           /\ Reset(se, m, keep, now).stream = se.stream
           /\ Reset(se, m, keep, now).start = se.start
           /\ Reset(se, m, keep, now).end \in {se.end, None}
           /\ m # "GET" => Reset(se, m, keep, now) = se
           /\ \A t \in 1 .. Now - 1 :
                 Within(t, se.start, Reset(se, m, keep, now).end)
                     <=> Within(t, se.start, se.end)
<1>1. se.end \in TimesOrNone /\ se.start \in TimesOrNone
  BY DEF PostLine
<1>2. CASE ~(m = "GET" /\ se.end > now /\ ~keep)
  BY <1>2 DEF Reset
<1>3. CASE m = "GET" /\ se.end > now /\ ~keep
  <2> DEFINE r == [se EXCEPT !.end = None]
  <2>1. r = Reset(se, m, keep, now)
    BY <1>3 DEF Reset
  <2>2. r \in PostLine /\ r.stream = se.stream /\ r.start = se.start /\ r.end = None
    BY DEF PostLine, TimesOrNone
  <2>3. se.end \in Nat
    BY <1>1, NowType DEF TimesOrNone, Times, None
  <2>4. \A t \in 1 .. Now - 1 : t < se.end
    BY <1>3, <2>3, NowType
  <2> HIDE DEF r
  <2> QED BY <2>1, <2>2, <2>4, <1>3 DEF Within
<1> QED BY <1>2, <1>3

LEMMA LoadedType ==
    ASSUME TakenRequest
    PROVE  epochs \subseteq PostLine
<1> DEFINE keep == request.service = "wfcatalog"
<1>1. \A se \in Epochs(request) : Reset(se, request.method, keep, Now) \in PostLine
  <2>1. keep \in BOOLEAN /\ Now \in Nat /\ Now >= Now /\ Epochs(request) \subseteq PostLine
    BY EpochsType, NowType DEF TakenRequest
  <2> HIDE DEF keep
  <2> QED BY <2>1, ResetKeeps
<1> QED BY <1>1 DEF TakenRequest, Loaded

\* The request for the routing service names the same epochs.
LEMMA AskEpochs ==
    ASSUME TakenRequest
    PROVE  Epochs(Ask) = epochs /\ Ask.method = request.method
<1> DEFINE q == request.query
           keep == request.service = "wfcatalog"
<1>1. request \in Request /\ Accepts(request, Now) /\ epochs = Loaded(request, Now)
  BY DEF TakenRequest
<1>2. /\ Ask.method = request.method
      /\ Ask.query = IF request.method = "GET" THEN QueryParams(epochs) ELSE NoQuery
      /\ Ask.lines = IF request.method = "POST" THEN epochs ELSE {}
  BY DEF Ask, RoutingRequest
<1>3. CASE request.method = "POST"
  <2>1. epochs = Epochs(request)
    <3>1. \A se \in Epochs(request) : Reset(se, request.method, keep, Now) = se
      BY <1>3 DEF Reset
    <3> QED BY <3>1, <1>1 DEF Loaded
  <2>2. epochs = FromPostfile(request.lines)
    BY <2>1, <1>3 DEF Epochs
  <2>3. FromPostfile(epochs) = epochs
    BY <2>2 DEF FromPostfile
  <2> QED BY <1>2, <1>3, <2>3 DEF Epochs
<1>4. CASE request.method = "GET"
  <2> DEFINE N == Absorbed(q.nets)
             S == Absorbed(q.stas)
             C == Absorbed(q.chas)
             end == Reset(StreamEpoch(Stream("*", "*", "*"), q.start, q.end), "GET", keep, Now).end
             E == {StreamEpoch(Stream(n, s, c), q.start, end) : n \in N, s \in S, c \in C}
  <2>0. q \in Arguments
    BY <1>1, RequestType
  <2>1. /\ N # {} /\ Absorbed(N) = N
        /\ S # {} /\ Absorbed(S) = S
        /\ C # {} /\ Absorbed(C) = C
    BY <2>0, AbsorbedType DEF Arguments
  <2>2. \A st : Reset(StreamEpoch(st, q.start, q.end), "GET", keep, Now)
                    = StreamEpoch(st, q.start, end)
    BY DEF Reset, StreamEpoch
  <2>3. epochs = E
    <3>1. epochs = {Reset(se, "GET", keep, Now) : se \in FromArgs(q)}
      BY <1>1, <1>4 DEF Loaded, Epochs
    <3> HIDE DEF keep, end
    <3>2. FromArgs(q) = {StreamEpoch(Stream(n, s, c), q.start, q.end) :
                            n \in N, s \in S, c \in C}
      BY DEF FromArgs
    <3> HIDE DEF N, S, C
    <3>3. ASSUME NEW x \in epochs PROVE x \in E
      <4>1. PICK se \in FromArgs(q) : x = Reset(se, "GET", keep, Now)
        BY <3>1
      <4>2. PICK n \in N, s \in S, c \in C : se = StreamEpoch(Stream(n, s, c), q.start, q.end)
        BY <3>2, <4>1
      <4>3. x = StreamEpoch(Stream(n, s, c), q.start, end)
        BY <4>1, <4>2, <2>2
      <4> QED BY <4>3
    <3>4. ASSUME NEW n \in N, NEW s \in S, NEW c \in C
          PROVE  StreamEpoch(Stream(n, s, c), q.start, end) \in epochs
      <4>1. StreamEpoch(Stream(n, s, c), q.start, q.end) \in FromArgs(q)
        BY <3>2
      <4> QED BY <4>1, <3>1, <2>2
    <3> QED BY <3>3, <3>4
  <2> HIDE DEF N, S, C, end
  <2>4. ASSUME NEW x \in E
        PROVE  x.start = q.start /\ x.end = end
    BY DEF StreamEpoch
  <2>5. ASSUME NEW n \in N, NEW s \in S, NEW c \in C
        PROVE  \E x \in E : x.stream.net = n /\ x.stream.sta = s /\ x.stream.cha = c
    <3> DEFINE y == StreamEpoch(Stream(n, s, c), q.start, end)
    <3>1. y \in E
      OBVIOUS
    <3>2. y.stream.net = n /\ y.stream.sta = s /\ y.stream.cha = c
      BY DEF StreamEpoch, Stream
    <3> HIDE DEF E, y
    <3> QED BY <3>1, <3>2
  <2>6. \A x \in E : x.stream.net \in N /\ x.stream.sta \in S /\ x.stream.cha \in C
    BY DEF StreamEpoch, Stream
  <2> HIDE DEF E
  <2>7. /\ {x.stream.net : x \in E} = N
        /\ {x.stream.sta : x \in E} = S
        /\ {x.stream.cha : x \in E} = C
    BY <2>1, <2>5, <2>6
  <2>8. (CHOOSE x \in E : TRUE) \in E
    BY <2>1, <2>5
  <2> DEFINE p == QueryParams(E)
  <2>9. /\ p.nets = N /\ p.stas = S /\ p.chas = C
        /\ p.start = q.start /\ p.end = end
    BY <2>4, <2>7, <2>8 DEF QueryParams
  <2> HIDE DEF p
  <2>10. FromArgs(p) = E
    BY <2>1, <2>9 DEF FromArgs, E
  <2> QED BY <1>2, <1>4, <2>3, <2>10 DEF Epochs, p
<1> QED BY <1>1, <1>2, <1>3, <1>4, RequestType

\* StationLite takes what the federator has taken, at the same time or later,
\* if the sides of the box are in order.
LEMMA RoutingTakes ==
    ASSUME TakenRequest, Ordered(request.box), NEW d \in Nat
    PROVE  RoutingAccepts(Ask, Now + d)
<1> DEFINE keep == request.service = "wfcatalog"
<1>1. request \in Request /\ Accepts(request, Now) /\ epochs = Loaded(request, Now)
  BY DEF TakenRequest
<1>2. Epochs(Ask) = epochs /\ Ask.method = request.method
  BY AskEpochs
<1>3. /\ Ask.level = request.level /\ Ask.service = request.service
      /\ Ask.access = Access(request.service) /\ Ask.box = request.box
  BY DEF Ask, RoutingRequest
<1>4. epochs = {Reset(se, request.method, keep, Now) : se \in Epochs(request)}
  BY <1>1 DEF Loaded
<1> HIDE DEF keep
<1>5. SomeEpoch(Ask)
  BY <1>1, <1>2, <1>4 DEF SomeEpoch, Accepts
<1>6. ASSUME NEW x \in epochs PROVE ValidTimes(x, Ask.method, Now + d)
  <2>1. PICK se \in Epochs(request) : x = Reset(se, request.method, keep, Now)
    BY <1>4
  <2>2. ValidTimes(se, request.method, Now) /\ se \in PostLine
    BY <1>1, EpochsType DEF Accepts
  <2>3. keep \in BOOLEAN
    BY DEF keep
  <2>4. /\ x.start = se.start /\ x.end \in {se.end, None}
        /\ request.method # "GET" => x = se
    BY <2>1, <2>2, <2>3, ResetKeeps, NowType
  <2>5. se.start \in Nat /\ se.end \in Nat /\ Now \in Nat
    BY <2>2, NowType DEF PostLine, TimesOrNone, Times, None
  <2> QED BY <1>2, <2>2, <2>4, <2>5 DEF ValidTimes, None
<1>7. Ask.level # "channel" => Ask.service = "station"
  BY <1>1, <1>3, RequestType
<1>8. Ask.access # "any" => Ask.service = "dataselect"
  BY <1>3 DEF Access
<1> QED BY <1>2, <1>3, <1>5, <1>6, <1>7, <1>8 DEF RoutingAccepts

\* What names a stream, among the epochs of a request.
Naming(S, stream, t) ==
    \E se \in S : Within(t, se.start, se.end) /\ Names(se, stream, t)

\* The wildcard that absorbs other patterns names no less than these.
LEMMA AbsorbedNames ==
    ASSUME NEW q \in Arguments, NEW stream \in CodeStream, NEW t,
           NEW n, NEW s, NEW c,
           n \in (IF q.nets = {} THEN {"*"} ELSE q.nets),
           s \in (IF q.stas = {} THEN {"*"} ELSE q.stas),
           c \in (IF q.chas = {} THEN {"*"} ELSE q.chas),
           Names([stream |-> Stream(n, s, c), start |-> q.start, end |-> q.end], stream, t)
    PROVE  \E i \in Absorbed(q.nets), j \in Absorbed(q.stas), k \in Absorbed(q.chas) :
              Names(StreamEpoch(Stream(i, j, k), q.start, q.end), stream, t)
<1> DEFINE Of(p, S) == IF S = {} \/ "*" \in S THEN "*" ELSE p
           i == Of(n, q.nets)
           j == Of(s, q.stas)
           k == Of(c, q.chas)
           se == StreamEpoch(Stream(i, j, k), q.start, q.end)
           a == [stream |-> Stream(n, s, c), start |-> q.start, end |-> q.end]
<1>1. /\ q.nets \subseteq Patterns /\ q.stas \subseteq Patterns /\ q.chas \subseteq Patterns
      /\ stream.net \in Codes /\ stream.sta \in Codes /\ stream.cha \in Codes
  BY DEF Arguments, CodeStream
<1>2. i \in Absorbed(q.nets) /\ j \in Absorbed(q.stas) /\ k \in Absorbed(q.chas)
  BY <1>1 DEF Absorbed
<1>3. /\ n \in Patterns /\ s \in Patterns /\ c \in Patterns
  BY <1>1, LikeAssumption
<1>4. \A S : \A p \in Patterns : Like[p] \subseteq Like[Of(p, S)]
  BY LikeAssumption DEF Codes
<1>5. /\ se.stream.net = i /\ se.stream.sta = j /\ se.stream.cha = k
      /\ a.stream.net = n /\ a.stream.sta = s /\ a.stream.cha = c
  BY DEF StreamEpoch, Stream
<1>6. i \in {"*", n} /\ stream.net \in Like["*"]
  BY <1>1 DEF Codes
<1>7. \A v : /\ [stream EXCEPT !.net = v].sta = stream.sta
             /\ [stream EXCEPT !.net = v].cha = stream.cha
  BY DEF CodeStream
<1> HIDE DEF i, j, k, se, a
<1>8. CASE Matches(a.stream, stream)
  <2>1. Matches(se.stream, stream)
    BY <1>3, <1>4, <1>5, <1>8 DEF Matches, i, j, k
  <2> QED BY <1>2, <2>1 DEF Names, se
<1>9. CASE ~Matches(a.stream, stream)
  <2>1. PICK v \in db.vnets : /\ a.stream.net \notin {"*", "?", "??"}
                              /\ v.stream = stream /\ Within(t, v.start, v.end)
                              /\ Matches(a.stream, [stream EXCEPT !.net = v.vnet])
    BY <1>9 DEF Names, a
  <2>2. stream.sta \in Like[j] /\ stream.cha \in Like[k]
    BY <1>3, <1>4, <1>5, <1>7, <2>1 DEF Matches, j, k
  <2>3. CASE i = "*"
    <3>1. Matches(se.stream, stream)
      BY <1>5, <1>6, <2>2, <2>3 DEF Matches
    <3> QED BY <1>2, <3>1 DEF Names, se
  <2>4. CASE i = n
    <3>1. Matches(se.stream, [stream EXCEPT !.net = v.vnet])
      BY <1>5, <1>7, <2>1, <2>2, <2>4 DEF Matches
    <3>2. se.stream.net \notin {"*", "?", "??"}
      BY <1>5, <2>1, <2>4
    <3> QED BY <1>2, <2>1, <3>1, <3>2 DEF Names, se
  <2> QED BY <1>6, <2>3, <2>4
<1> QED BY <1>8, <1>9

\* The query asks for what the client does, as far as it lies in the past.
LEMMA QueryNames ==
    ASSUME TakenRequest, NEW stream \in CodeStream, NEW t \in 1 .. Now - 1, NEW d \in Nat
    PROVE  Naming(RoutingLoaded(Ask, Now + d), stream, t) <=> Naming(Asked, stream, t)
<1> DEFINE q == request.query
           keep == request.service = "wfcatalog"
           m == request.method
<1>1. request \in Request /\ Accepts(request, Now) /\ epochs = Loaded(request, Now)
  BY DEF TakenRequest
<1>2. Epochs(Ask) = epochs /\ Ask.method = m
  BY AskEpochs
<1>3. keep \in BOOLEAN /\ Now \in Nat /\ Now + d \in Nat /\ Now + d >= Now /\ Now >= Now
  BY NowType
<1>4. Epochs(request) \subseteq PostLine /\ epochs \subseteq PostLine
  BY <1>1, EpochsType, LoadedType
<1> HIDE DEF keep
<1>5. ASSUME NEW S \in SUBSET PostLine, NEW T, NEW b \in BOOLEAN, NEW now \in Nat, now >= Now,
             T = {Reset(se, m, b, now) : se \in S}
      PROVE  Naming(T, stream, t) <=> Naming(S, stream, t)
  <2>1. \A se \in S : /\ Reset(se, m, b, now) \in T
                      /\ Reset(se, m, b, now).stream = se.stream
                      /\ Reset(se, m, b, now).start = se.start
                      /\ Within(t, se.start, Reset(se, m, b, now).end)
                             <=> Within(t, se.start, se.end)
    BY <1>5, ResetKeeps
  <2>2. \A x \in T : \E se \in S : x = Reset(se, m, b, now)
    BY <1>5
  <2> QED BY <2>1, <2>2 DEF Naming, Names
<1>6. Naming(RoutingLoaded(Ask, Now + d), stream, t) <=> Naming(epochs, stream, t)
  <2> DEFINE T == RoutingLoaded(Ask, Now + d)
             now == Now + d
  <2>1. T = {Reset(se, m, FALSE, now) : se \in epochs}
    BY <1>2 DEF RoutingLoaded
  <2>2. now \in Nat /\ now >= Now
    BY <1>3
  <2> HIDE DEF T, m, now
  <2>3. Naming(T, stream, t) <=> Naming(epochs, stream, t)
    BY <1>4, <1>5, <2>1, <2>2
  <2> QED BY <2>3 DEF T, now
<1>7. Naming(epochs, stream, t) <=> Naming(Epochs(request), stream, t)
  <2> DEFINE S == Epochs(request)
  <2>1. epochs = {Reset(se, m, keep, Now) : se \in S}
    BY <1>1 DEF Loaded, keep
  <2>2. S \in SUBSET PostLine
    BY <1>4
  <2> HIDE DEF m, S
  <2>3. Naming(epochs, stream, t) <=> Naming(S, stream, t)
    BY <1>3, <1>5, <2>1, <2>2
  <2> QED BY <2>3 DEF S
<1>8. CASE m = "POST"
  <2>1. Epochs(request) = Asked
    <3>1. \A l \in request.lines : None \notin {l.start, l.end} <=> l.start # None /\ l.end # None
      OBVIOUS
    <3> QED BY <3>1, <1>8 DEF Epochs, FromPostfile, Asked
  <2> QED BY <1>6, <1>7, <2>1
<1>9. CASE m = "GET"
  <2> DEFINE OrAny(S) == IF S = {} THEN {"*"} ELSE S
  <2>0. q \in Arguments
    BY <1>1, RequestType
  <2>1. Asked = [stream : [net : OrAny(q.nets), sta : OrAny(q.stas), cha : OrAny(q.chas)],
                 start : {q.start}, end : {q.end}]
    BY <1>9 DEF Asked
  <2>2. Epochs(request) = {StreamEpoch(Stream(n, s, c), q.start, q.end) :
            n \in Absorbed(q.nets), s \in Absorbed(q.stas), c \in Absorbed(q.chas)}
    BY <1>9 DEF Epochs, FromArgs
  <2>3. Epochs(request) \subseteq Asked
    <3>1. \A S : Absorbed(S) \subseteq OrAny(S)
      BY DEF Absorbed
    <3> QED BY <2>1, <2>2, <3>1 DEF StreamEpoch, Stream
  <2>4. ASSUME NEW a \in Asked, Within(t, a.start, a.end), Names(a, stream, t)
        PROVE  Naming(Epochs(request), stream, t)
    <3> DEFINE n == a.stream.net
               s == a.stream.sta
               c == a.stream.cha
    <3>1. /\ n \in OrAny(q.nets) /\ s \in OrAny(q.stas) /\ c \in OrAny(q.chas)
          /\ a = [stream |-> Stream(n, s, c), start |-> q.start, end |-> q.end]
      BY <2>1 DEF Stream
    <3> HIDE DEF n, s, c
    <3>2. PICK i \in Absorbed(q.nets), j \in Absorbed(q.stas), k \in Absorbed(q.chas) :
             Names(StreamEpoch(Stream(i, j, k), q.start, q.end), stream, t)
      BY <2>0, <2>4, <3>1, AbsorbedNames
    <3> DEFINE se == StreamEpoch(Stream(i, j, k), q.start, q.end)
    <3>3. se \in Epochs(request)
      BY <2>2
    <3>4. Within(t, se.start, se.end)
      BY <2>4, <3>1 DEF StreamEpoch
    <3> HIDE DEF se
    <3>5. Names(se, stream, t)
      BY <3>2 DEF se
    <3> QED BY <3>3, <3>4, <3>5 DEF Naming
  <2>5. Naming(Epochs(request), stream, t) => Naming(Asked, stream, t)
    BY <2>3 DEF Naming
  <2>6. Naming(Asked, stream, t) => Naming(Epochs(request), stream, t)
    BY <2>4 DEF Naming
  <2> QED BY <1>6, <1>7, <2>5, <2>6
<1> QED BY <1>1, <1>8, <1>9, RequestType

-----------------------------------------------------------------------------
(* The query. *)

QueryEpoch == [stream : [net : Patterns, sta : Patterns, cha : Patterns],
               start : 0 .. EndOfTime, end : 0 .. EndOfTime]

LEMMA CodesMatch ==
    ASSUME NEW p \in CodeStream, NEW stream \in CodeStream
    PROVE  Matches(p, stream) <=> p = stream
<1>1. /\ p = [net |-> p.net, sta |-> p.sta, cha |-> p.cha]
      /\ stream = [net |-> stream.net, sta |-> stream.sta, cha |-> stream.cha]
      /\ p.net \in Codes /\ p.sta \in Codes /\ p.cha \in Codes
  BY DEF CodeStream
<1>2. /\ Like[p.net] = {p.net} /\ Like[p.sta] = {p.sta} /\ Like[p.cha] = {p.cha}
  BY <1>1, LikeAssumption
<1> QED BY <1>1, <1>2 DEF Matches

LEMMA VirtualEpochs ==
    ASSUME db \in Database, NEW se \in PostLine
    PROVE  /\ ResolveVnetwork(db, se) \subseteq QueryEpoch
           /\ \A stream \in CodeStream, t \in Times :
                 (\E x \in ResolveVnetwork(db, se) :
                     Within(t, x.start, x.end) /\ Matches(x.stream, stream))
                 <=> \E v \in db.vnets : /\ se.stream.net \notin {"*", "?", "??"}
                                         /\ v.stream = stream /\ Within(t, v.start, v.end)
                                         /\ Within(t, se.start, se.end)
                                         /\ Matches(se.stream, [stream EXCEPT !.net = v.vnet])
<1> DEFINE Vs == {w \in db.vnets :
                    /\ ResolvesVnets(se)
                    /\ Matches(se.stream, [w.stream EXCEPT !.net = w.vnet])
                    /\ InTime(w.start, w.end, se)}
           Tree(v) == {<<v.start, NoneAsMax(v.end)>>}
           Cut(v) == Constrained(Tree(v), se.start, se.end)
<1>1. ResolveVnetwork(db, se) = UNION {Each(v.stream, Cut(v)) : v \in Vs}
  BY DEF ResolveVnetwork
<1>2. db.vnets \subseteq VirtualEpoch
  BY DEF Database
<1>3. se.start \in 0 .. EndOfTime /\ se.end \in 0 .. EndOfTime /\ se.start \in Nat /\ se.end \in Nat
  BY ConstantsAssumption DEF PostLine, TimesOrNone, Times, None
<1>4. ASSUME NEW v \in db.vnets
      PROVE  /\ v.stream \in CodeStream /\ v.start \in Nat /\ v.end \in Nat
             /\ Cut(v) \subseteq Intervals
             /\ \A t \in Times : Covers(Cut(v), t) <=>
                   Within(t, v.start, v.end) /\ Within(t, se.start, se.end)
  <2>1. /\ v.stream \in CodeStream /\ v.start \in Times /\ v.end \in TimesOrNone
        /\ v.start < NoneAsMax(v.end)
    BY <1>2 DEF VirtualEpoch
  <2>2. v.start \in Nat /\ v.end \in Nat /\ v.end < EndOfTime /\ EndOfTime \in Nat
    BY <2>1, ConstantsAssumption DEF Times, TimesOrNone, None
  <2>3. <<v.start, NoneAsMax(v.end)>> \in Intervals
    BY <2>1, ConstantsAssumption DEF Times, TimesOrNone, None, NoneAsMax, Intervals, Clock
  <2>4. Tree(v) \subseteq Intervals /\ Tree(v) # {}
    BY <2>3
  <2>5. ASSUME NEW t \in Times
        PROVE  Covers(Tree(v), t) /\ Within(t, se.start, se.end) <=>
                  Within(t, v.start, v.end) /\ Within(t, se.start, se.end)
    <3>1. Covers(Tree(v), t) <=> v.start <= t /\ t < NoneAsMax(v.end)
      BY DEF Covers
    <3>2. CASE v.end # None
      BY <3>1, <3>2 DEF Within, NoneAsMax
    <3>3. CASE v.end = None
      <4>1. Covers(Tree(v), t) <=> v.start <= t /\ t < EndOfTime
        BY <3>1, <3>3 DEF NoneAsMax
      <4>2. t < EndOfTime
        BY ConstantsAssumption DEF Times
      <4> QED BY <4>1, <4>2, <3>3 DEF Within
    <3> QED BY <3>2, <3>3
  <2>6. Times \subseteq Nat
    BY DEF Times
  <2> HIDE DEF Tree
  <2> QED BY <1>3, <2>1, <2>2, <2>4, <2>5, <2>6, ConstrainedCovers
<1> HIDE DEF Cut
<1>5. ASSUME NEW x \in ResolveVnetwork(db, se)
      PROVE  \E v \in Vs : /\ x.stream = v.stream
                           /\ <<x.start, x.end>> \in Cut(v) /\ x \in QueryEpoch
  <2>1. PICK v \in Vs : x \in Each(v.stream, Cut(v))
    BY <1>1
  <2>2. PICK iv \in Cut(v) : x = StreamEpoch(v.stream, iv[1], iv[2])
    BY <2>1 DEF Each
  <2>3. iv \in Intervals /\ v.stream \in CodeStream
    BY <1>4
  <2>4. iv = <<iv[1], iv[2]>> /\ iv[1] \in 0 .. EndOfTime /\ iv[2] \in 0 .. EndOfTime
    BY <2>3, IntervalType, ConstantsAssumption
  <2>5. v.stream \in [net : Patterns, sta : Patterns, cha : Patterns]
    BY <2>3, LikeAssumption DEF CodeStream
  <2>6. x.stream = v.stream /\ x.start = iv[1] /\ x.end = iv[2] /\ x \in QueryEpoch
    BY <2>2, <2>4, <2>5 DEF StreamEpoch, QueryEpoch
  <2> HIDE DEF Vs
  <2> QED BY <2>4, <2>6
<1>6. ASSUME NEW v \in Vs, NEW iv \in Cut(v)
      PROVE  \E x \in ResolveVnetwork(db, se) :
                x.stream = v.stream /\ x.start = iv[1] /\ x.end = iv[2]
  <2> DEFINE x == StreamEpoch(v.stream, iv[1], iv[2])
  <2>1. x \in Each(v.stream, Cut(v))
    BY DEF Each
  <2>2. x \in ResolveVnetwork(db, se)
    BY <1>1, <2>1
  <2>3. x.stream = v.stream /\ x.start = iv[1] /\ x.end = iv[2]
    BY DEF StreamEpoch
  <2> QED BY <2>2, <2>3
<1>7. ASSUME NEW stream \in CodeStream, NEW t \in Times
      PROVE  (\E x \in ResolveVnetwork(db, se) :
                 Within(t, x.start, x.end) /\ Matches(x.stream, stream))
             <=> \E v \in db.vnets : /\ se.stream.net \notin {"*", "?", "??"}
                                     /\ v.stream = stream /\ Within(t, v.start, v.end)
                                     /\ Within(t, se.start, se.end)
                                     /\ Matches(se.stream, [stream EXCEPT !.net = v.vnet])
  <2>1. ASSUME NEW x \in ResolveVnetwork(db, se),
               Within(t, x.start, x.end), Matches(x.stream, stream)
        PROVE  \E v \in db.vnets : /\ se.stream.net \notin {"*", "?", "??"}
                                   /\ v.stream = stream /\ Within(t, v.start, v.end)
                                   /\ Within(t, se.start, se.end)
                                   /\ Matches(se.stream, [stream EXCEPT !.net = v.vnet])
    <3>1. PICK v \in Vs : /\ x.stream = v.stream
                          /\ <<x.start, x.end>> \in Cut(v) /\ x \in QueryEpoch
      BY <1>5
    <3>2. v \in db.vnets /\ ResolvesVnets(se)
          /\ Matches(se.stream, [v.stream EXCEPT !.net = v.vnet])
      OBVIOUS
    <3>3. v.stream = stream
      BY <1>4, <2>1, <3>1, <3>2, CodesMatch
    <3>4. <<x.start, x.end>> \in Intervals /\ t \in Nat
      BY <1>4, <3>1, <3>2 DEF Times
    <3>5. x.start <= t /\ t < x.end
      BY <2>1, <3>4 DEF Within, Intervals, Clock, None
    <3>6. Covers(Cut(v), t)
      BY <3>1, <3>5 DEF Covers
    <3>7. Within(t, v.start, v.end) /\ Within(t, se.start, se.end)
      BY <1>4, <3>2, <3>6
    <3> HIDE DEF Vs
    <3> QED BY <3>2, <3>3, <3>7 DEF ResolvesVnets
  <2>2. ASSUME NEW v \in db.vnets, se.stream.net \notin {"*", "?", "??"}, v.stream = stream,
               Within(t, v.start, v.end), Within(t, se.start, se.end),
               Matches(se.stream, [stream EXCEPT !.net = v.vnet])
        PROVE  \E x \in ResolveVnetwork(db, se) :
                  Within(t, x.start, x.end) /\ Matches(x.stream, stream)
    <3>1. InTime(v.start, v.end, se)
      BY <1>3, <1>4, <2>2 DEF Within, InTime, Times, None
    <3>2. v \in Vs
      BY <2>2, <3>1 DEF ResolvesVnets
    <3> HIDE DEF Vs
    <3>3. PICK iv \in Cut(v) : iv[1] <= t /\ t < iv[2]
      BY <1>4, <2>2 DEF Covers
    <3>4. PICK x \in ResolveVnetwork(db, se) :
             x.stream = v.stream /\ x.start = iv[1] /\ x.end = iv[2]
      BY <1>6, <3>2
    <3>5. Matches(x.stream, stream)
      BY <1>4, <2>2, <3>4, CodesMatch
    <3> QED BY <3>3, <3>4, <3>5 DEF Within
  <2> QED BY <2>1, <2>2
<1>8. ResolveVnetwork(db, se) \subseteq QueryEpoch
  BY <1>5
<1> HIDE DEF Vs
<1> QED BY <1>7, <1>8

\* The epochs that are looked for name what the client does.
LEMMA QueriedNames ==
    ASSUME TakenRequest, NEW d \in Nat
    PROVE  /\ Queried(db, Ask, Now + d) \subseteq QueryEpoch
           /\ \A stream \in CodeStream, t \in 1 .. Now - 1 :
                 (\E x \in Queried(db, Ask, Now + d) :
                     Within(t, x.start, x.end) /\ Matches(x.stream, stream))
                 <=> Naming(Asked, stream, t)
<1> DEFINE now == Now + d
           asked == RoutingLoaded(Ask, now)
<1>1. Queried(db, Ask, now) = asked \cup UNION {ResolveVnetwork(db, se) : se \in asked}
  BY DEF Queried
<1>2. asked \subseteq PostLine
  <2>1. epochs \subseteq PostLine /\ Epochs(Ask) = epochs
    BY LoadedType, AskEpochs
  <2>2. now \in Nat /\ now >= Now
    BY NowType
  <2> DEFINE m == Ask.method
  <2>3. \A se \in epochs : Reset(se, m, FALSE, now) \in PostLine
    <3> HIDE DEF m, now
    <3> QED BY <2>1, <2>2, ResetKeeps
  <2> QED BY <2>1, <2>3 DEF RoutingLoaded
<1>3. PostLine \subseteq QueryEpoch
  BY ConstantsAssumption DEF PostLine, QueryEpoch, TimesOrNone, Times, None
<1>4. db \in Database
  BY DEF TakenRequest
<1>5. \A stream \in CodeStream, t \in 1 .. Now - 1 :
         Naming(asked, stream, t) <=> Naming(Asked, stream, t)
  BY QueryNames
<1> HIDE DEF asked
<1>6. \A se \in asked : ResolveVnetwork(db, se) \subseteq QueryEpoch
  BY <1>2, <1>4, VirtualEpochs
<1>7. ASSUME NEW stream \in CodeStream, NEW t \in Times
      PROVE  (\E x \in Queried(db, Ask, now) :
                 Within(t, x.start, x.end) /\ Matches(x.stream, stream))
             <=> Naming(asked, stream, t)
  <2>1. ASSUME NEW se \in asked
        PROVE  (\E x \in ResolveVnetwork(db, se) :
                   Within(t, x.start, x.end) /\ Matches(x.stream, stream))
               <=> \E v \in db.vnets : /\ se.stream.net \notin {"*", "?", "??"}
                                       /\ v.stream = stream /\ Within(t, v.start, v.end)
                                       /\ Within(t, se.start, se.end)
                                       /\ Matches(se.stream, [stream EXCEPT !.net = v.vnet])
    BY <1>2, <1>4, VirtualEpochs
  <2> QED BY <1>1, <2>1 DEF Naming, Names
<1>8. \A t \in 1 .. Now - 1 : t \in Times
  BY NowType DEF Times
<1>9. Queried(db, Ask, now) \subseteq QueryEpoch
  BY <1>1, <1>3, <1>2, <1>6
<1>10. \A stream \in CodeStream, t \in 1 .. Now - 1 :
          (\E x \in Queried(db, Ask, now) :
              Within(t, x.start, x.end) /\ Matches(x.stream, stream))
          <=> Naming(Asked, stream, t)
  BY <1>5, <1>7, <1>8
<1> QED BY <1>9, <1>10

\* The times at which an epoch is asked for and the row serves it.
LEMMA RowTimes ==
    ASSUME NEW r \in Row, NEW x \in QueryEpoch
    PROVE  /\ LatestStart(r, x) \in Clock /\ EarliestEnd(r, x) \in Clock
           /\ \A t \in Times :
                 LatestStart(r, x) <= t /\ t < EarliestEnd(r, x) <=>
                     /\ Within(t, r.start, r.end) /\ Within(t, r.rstart, r.rend)
                     /\ Within(t, x.start, x.end)
<1>1. /\ r.start \in Times /\ r.rstart \in Times /\ r.end \in TimesOrNone /\ r.rend \in TimesOrNone
      /\ x.start \in 0 .. EndOfTime /\ x.end \in 0 .. EndOfTime /\ EndOfTime \in Nat
  BY ConstantsAssumption DEF Row, QueryEpoch
<1> DEFINE S == {r.start, r.rstart, x.start}
           G == {r.end, r.rend, x.end} \ {None}
<1>2. S \in SUBSET (0 .. EndOfTime) /\ S # {} /\ r.start \in S /\ r.start >= 1
  BY <1>1 DEF Times
<1>3. Max(S) \in S /\ \A y \in S : y <= Max(S)
  <2> HIDE DEF S
  <2> QED BY <1>1, <1>2, MaxOfBounded
<1>4. LatestStart(r, x) = Max(S)
  BY DEF LatestStart
<1>5. LatestStart(r, x) \in Clock
  <2>1. Max(S) \in 0 .. EndOfTime /\ r.start <= Max(S)
    <3> HIDE DEF S
    <3> QED BY <1>2, <1>3
  <2>2. r.start \in Nat /\ r.start >= 1
    BY <1>1 DEF Times
  <2> HIDE DEF S
  <2> QED BY <1>1, <1>4, <2>1, <2>2 DEF Clock
<1>6. \A t \in Times : LatestStart(r, x) <= t <=> r.start <= t /\ r.rstart <= t /\ x.start <= t
  BY <1>1, <1>3, <1>4 DEF Times
<1>7. G \in SUBSET Clock /\ G \in SUBSET Nat
  BY <1>1 DEF Times, TimesOrNone, None, Clock
<1>8. EarliestEnd(r, x) = IF G = {} THEN EndOfTime ELSE Min(G)
  BY DEF EarliestEnd
<1>9. CASE G = {}
  <2>1. EarliestEnd(r, x) = EndOfTime /\ r.end = None /\ r.rend = None /\ x.end = None
    BY <1>8, <1>9
  <2>2. EarliestEnd(r, x) \in Clock
    BY <2>1, <1>1, NowType DEF Clock
  <2>3. \A t \in Times : t < EndOfTime
    BY <1>1 DEF Times
  <2> QED BY <1>5, <1>6, <2>1, <2>2, <2>3 DEF Within
<1>10. CASE G # {}
  <2>1. Min(G) \in G /\ \A y \in G : Min(G) <= y
    <3> HIDE DEF G
    <3> QED BY <1>7, <1>10, MinOfNats
  <2>2. EarliestEnd(r, x) \in G /\ \A y \in G : EarliestEnd(r, x) <= y
    BY <1>8, <1>10, <2>1
  <2>3. EarliestEnd(r, x) \in Clock /\ EarliestEnd(r, x) \in Nat
    <3> HIDE DEF G
    <3> QED BY <1>7, <2>2
  <2>4. ASSUME NEW t \in Times
        PROVE  t < EarliestEnd(r, x) <=> \A y \in G : t < y
    <3>1. t \in Nat
      BY DEF Times
    <3> HIDE DEF G
    <3> QED BY <1>7, <2>2, <2>3, <3>1
  <2>5. \A t : (\A y \in G : t < y) <=> /\ r.end = None \/ t < r.end
                                        /\ r.rend = None \/ t < r.rend
                                        /\ x.end = None \/ t < x.end
    OBVIOUS
  <2> HIDE DEF G
  <2> QED BY <1>5, <1>6, <2>3, <2>4, <2>5 DEF Within
<1> QED BY <1>9, <1>10

\* Handlers whose trees hold intervals, at least one.
Handled(handler) == \A it \in handler : it.tree \subseteq Intervals /\ it.tree # {}

Holds(handler, s, t) == \E it \in handler : it.stream = s /\ Covers(it.tree, t)

LEMMA AddedHolds ==
    ASSUME NEW E, \A e \in E : e.start \in Clock /\ e.end \in Clock /\ e.start < e.end
    PROVE  /\ Handled(Added(E))
           /\ \A s, t : Holds(Added(E), s, t) <=>
                 \E e \in E : e.stream = s /\ e.start <= t /\ t < e.end
           /\ \A it \in Added(E) : \E e \in E : it.stream = e.stream
           /\ E # {} => Added(E) # {}
<1> DEFINE Tree(s) == {Epoch(se) : se \in {e \in E : e.stream = s}}
<1>1. Added(E) = {Item(s, Tree(s)) : s \in {se.stream : se \in E}}
  BY DEF Added
<1>2. \A e \in E : /\ Epoch(e) = <<e.start, e.end>> /\ Epoch(e) \in Intervals
                   /\ Epoch(e)[1] = e.start /\ Epoch(e)[2] = e.end
  BY DEF Epoch, NoneAsMax, Clock, None, Intervals
<1>3. \A s : Tree(s) \subseteq Intervals
  BY <1>2
<1>4. \A e \in E : Epoch(e) \in Tree(e.stream)
  OBVIOUS
<1>5. \A s : \A iv \in Tree(s) : \E e \in E : iv = Epoch(e) /\ e.stream = s
  OBVIOUS
<1> HIDE DEF Tree
<1>6. ASSUME NEW it \in Added(E)
      PROVE  \E e \in E : it.stream = e.stream /\ it.tree = Tree(e.stream)
  BY <1>1 DEF Item
<1>7. ASSUME NEW e \in E
      PROVE  \E it \in Added(E) : it.stream = e.stream /\ it.tree = Tree(e.stream)
  <2>1. Item(e.stream, Tree(e.stream)) \in Added(E)
    BY <1>1
  <2> QED BY <2>1 DEF Item
<1>8. Handled(Added(E))
  BY <1>3, <1>4, <1>6 DEF Handled
<1>9. ASSUME NEW s, NEW t
      PROVE  Holds(Added(E), s, t) <=> \E e \in E : e.stream = s /\ e.start <= t /\ t < e.end
  <2>1. ASSUME NEW it \in Added(E), it.stream = s, Covers(it.tree, t)
        PROVE  \E e \in E : e.stream = s /\ e.start <= t /\ t < e.end
    <3>1. Covers(Tree(s), t)
      BY <1>6, <2>1
    <3> QED BY <1>2, <1>5, <3>1 DEF Covers
  <2>2. ASSUME NEW e \in E, e.stream = s, e.start <= t, t < e.end
        PROVE  Holds(Added(E), s, t)
    <3>1. PICK it \in Added(E) : it.stream = s /\ it.tree = Tree(s)
      BY <1>7, <2>2
    <3>2. Covers(Tree(s), t)
      BY <1>2, <1>4, <2>2 DEF Covers
    <3> QED BY <3>1, <3>2 DEF Holds
  <2> QED BY <2>1, <2>2 DEF Holds
<1> QED BY <1>6, <1>7, <1>8, <1>9

Serves(R, u, s, t) == \E rho \in R : rho.url = u /\ Holds(rho.streams, s, t)

\* Routes to endpoints of the database, for streams of the database.
RouteSet(R) ==
    \A rho \in R :
        /\ rho = [url |-> rho.url, streams |-> rho.streams]
        /\ rho.streams # {} /\ Handled(rho.streams)
        /\ \E r \in db.rows : rho.url = r.url
        /\ \A it \in rho.streams : \E r \in db.rows : it.stream = Reduced(r.stream, request.level)

Offered(r) == /\ r.service = request.service
              /\ \E p \in r.positions : Inside(p)
              /\ request.service = "dataselect" => r.rs = "open"

InRow(r, t) == Within(t, r.start, r.end) /\ Within(t, r.rstart, r.rend)

\* The sides StationLite gives to a box that lacks them leave no position out.
LEMMA BoxFilter ==
    ASSUME request \in Request, NEW p \in Position
    PROVE  InBox(p, request.box) <=> Inside(p)
<1> DEFINE box == request.box
<1>1. box \in Box
  BY RequestType
<1>2. MaxDegree \in Nat
  BY ConstantsAssumption
<1>3. \A side \in Sides : box[side] \in Nat \/ box[side] = None
  BY <1>1, <1>2 DEF Box, Degrees
<1>4. /\ p.lat \in Nat /\ 1 <= p.lat /\ p.lat <= MaxDegree
      /\ p.lon \in Nat /\ 1 <= p.lon /\ p.lon <= MaxDegree
  BY <1>2 DEF Position, Degrees
<1> HIDE DEF box
<1>5. /\ SidesOf(box).minlat = IF box.minlat # None THEN box.minlat ELSE 1
      /\ SidesOf(box).minlon = IF box.minlon # None THEN box.minlon ELSE 1
      /\ SidesOf(box).maxlat = IF box.maxlat # None THEN box.maxlat ELSE MaxDegree
      /\ SidesOf(box).maxlon = IF box.maxlon # None THEN box.maxlon ELSE MaxDegree
  BY DEF SidesOf, Sides
<1>6. /\ box.minlat \in Nat \/ box.minlat = None
      /\ box.minlon \in Nat \/ box.minlon = None
      /\ box.maxlat \in Nat \/ box.maxlat = None
      /\ box.maxlon \in Nat \/ box.maxlon = None
  BY <1>3 DEF Sides
<1>7. InBox(p, box) <=>
         /\ box.minlat = None \/ box.minlat <= p.lat
         /\ box.maxlat = None \/ p.lat <= box.maxlat
         /\ box.minlon = None \/ box.minlon <= p.lon
         /\ box.maxlon = None \/ p.lon <= box.maxlon
  BY <1>2, <1>4, <1>5, <1>6 DEF InBox
<1> QED BY <1>7 DEF Inside, box

LEMMA FoundForEpoch ==
    ASSUME TakenRequest, NEW x \in QueryEpoch
    PROVE  /\ RouteSet(FindRoutes(db, x, Ask))
           /\ \A u, s : \A t \in Times :
                 Serves(FindRoutes(db, x, Ask), u, s, t) <=>
                    \E r \in db.rows : /\ r.url = u /\ Reduced(r.stream, request.level) = s
                                       /\ Offered(r) /\ InRow(r, t)
                                       /\ Within(t, x.start, x.end) /\ Matches(x.stream, r.stream)
<1> DEFINE Rows == {r \in Selected(db, x, Ask) : EarliestEnd(r, x) > LatestStart(r, x)}
           At(u) == {StreamEpoch(Reduced(r.stream, Ask.level), LatestStart(r, x), EarliestEnd(r, x)) :
                        r \in {y \in Rows : y.url = u}}
           R == FindRoutes(db, x, Ask)
<1>1. R = {[url |-> u, streams |-> Added(At(u))] : u \in {r.url : r \in Rows}}
  BY DEF FindRoutes
<1>2. /\ Ask.level = request.level /\ Ask.service = request.service
      /\ Ask.access = Access(request.service) /\ Ask.box = request.box
  BY DEF Ask, RoutingRequest
<1>3. db.rows \subseteq Row
  BY DEF TakenRequest, Database
<1>4. \A r : r \in Selected(db, x, Ask) <=>
           r \in db.rows /\ Matches(x.stream, r.stream) /\ Offered(r) /\ InTime(r.start, r.end, x)
  <2>1. ASSUME NEW r \in db.rows
        PROVE  (\E p \in r.positions : InBox(p, Ask.box)) <=> \E p \in r.positions : Inside(p)
    <3>1. r.positions \subseteq Position /\ request \in Request
      BY <1>3 DEF TakenRequest, Row
    <3> QED BY <1>2, <3>1, BoxFilter
  <2> QED BY <1>2, <2>1 DEF Selected, Offered, Access
<1>5. \A r \in Rows : /\ r \in db.rows /\ r \in Row
                      /\ LatestStart(r, x) \in Clock /\ EarliestEnd(r, x) \in Clock
                      /\ LatestStart(r, x) < EarliestEnd(r, x)
  <2> SUFFICES ASSUME NEW r \in Rows
               PROVE  /\ r \in db.rows /\ r \in Row
                      /\ LatestStart(r, x) \in Clock /\ EarliestEnd(r, x) \in Clock
                      /\ LatestStart(r, x) < EarliestEnd(r, x)
    OBVIOUS
  <2>1. r \in db.rows /\ r \in Row /\ EarliestEnd(r, x) > LatestStart(r, x)
    BY <1>3, <1>4
  <2>2. LatestStart(r, x) \in Clock /\ EarliestEnd(r, x) \in Clock
    BY <2>1, RowTimes
  <2> QED BY <2>1, <2>2 DEF Clock
<1>6. ASSUME NEW r \in db.rows, NEW t \in Times
      PROVE  (r \in Rows /\ LatestStart(r, x) <= t /\ t < EarliestEnd(r, x)) <=>
             /\ Offered(r) /\ InRow(r, t)
             /\ Within(t, x.start, x.end) /\ Matches(x.stream, r.stream)
  <2>1. r \in Row
    BY <1>3
  <2>2. LatestStart(r, x) <= t /\ t < EarliestEnd(r, x) <=>
           InRow(r, t) /\ Within(t, x.start, x.end)
    BY <2>1, RowTimes DEF InRow
  <2>3. /\ LatestStart(r, x) \in Nat /\ EarliestEnd(r, x) \in Nat /\ t \in Nat
    BY <2>1, RowTimes DEF Clock, Times
  <2>4. r.start \in Nat /\ r.end \in Nat /\ x.start \in Nat /\ x.end \in Nat
    BY <2>1, ConstantsAssumption DEF Row, QueryEpoch, Times, TimesOrNone, None
  <2>5. Within(t, r.start, r.end) /\ Within(t, x.start, x.end) => InTime(r.start, r.end, x)
    BY <2>3, <2>4 DEF Within, InTime, None
  <2>6. LatestStart(r, x) <= t /\ t < EarliestEnd(r, x) => EarliestEnd(r, x) > LatestStart(r, x)
    BY <2>3
  <2>7. r \in Rows <=> r \in Selected(db, x, Ask) /\ EarliestEnd(r, x) > LatestStart(r, x)
    OBVIOUS
  <2> HIDE DEF Rows
  <2> QED BY <1>4, <2>2, <2>5, <2>6, <2>7 DEF InRow
<1> HIDE DEF Rows
<1>7. ASSUME NEW u, NEW e \in At(u)
      PROVE  \E r \in Rows : /\ r.url = u /\ e.stream = Reduced(r.stream, request.level)
                             /\ e.start = LatestStart(r, x) /\ e.end = EarliestEnd(r, x)
  BY <1>2 DEF StreamEpoch
<1>8. ASSUME NEW r \in Rows
      PROVE  \E e \in At(r.url) : /\ e.stream = Reduced(r.stream, request.level)
                                  /\ e.start = LatestStart(r, x) /\ e.end = EarliestEnd(r, x)
  <2> DEFINE e == StreamEpoch(Reduced(r.stream, Ask.level), LatestStart(r, x), EarliestEnd(r, x))
  <2>1. e \in At(r.url)
    OBVIOUS
  <2>2. /\ e.stream = Reduced(r.stream, request.level)
        /\ e.start = LatestStart(r, x) /\ e.end = EarliestEnd(r, x)
    BY <1>2 DEF StreamEpoch
  <2> QED BY <2>1, <2>2
<1> HIDE DEF At
<1>9. \A u : \A e \in At(u) : e.start \in Clock /\ e.end \in Clock /\ e.start < e.end
  BY <1>5, <1>7
<1>10. ASSUME NEW u
       PROVE  /\ Handled(Added(At(u)))
              /\ \A s, t : Holds(Added(At(u)), s, t) <=>
                    \E e \in At(u) : e.stream = s /\ e.start <= t /\ t < e.end
              /\ \A it \in Added(At(u)) : \E e \in At(u) : it.stream = e.stream
              /\ At(u) # {} => Added(At(u)) # {}
  BY <1>9, AddedHolds
<1>11. RouteSet(R)
  <2> SUFFICES ASSUME NEW rho \in R
               PROVE  /\ rho = [url |-> rho.url, streams |-> rho.streams]
                      /\ rho.streams # {} /\ Handled(rho.streams)
                      /\ \E r \in db.rows : rho.url = r.url
                      /\ \A it \in rho.streams :
                            \E r \in db.rows : it.stream = Reduced(r.stream, request.level)
    BY DEF RouteSet
  <2>1. PICK r \in Rows : rho = [url |-> r.url, streams |-> Added(At(r.url))]
    BY <1>1
  <2>2. rho.url = r.url /\ rho.streams = Added(At(r.url)) /\ r \in db.rows
    BY <1>5, <2>1
  <2>3. At(r.url) # {}
    BY <1>8
  <2>4. \A it \in Added(At(r.url)) :
           \E y \in db.rows : it.stream = Reduced(y.stream, request.level)
    BY <1>5, <1>7, <1>10
  <2> QED BY <1>10, <2>1, <2>2, <2>3, <2>4
<1>12. ASSUME NEW u, NEW s, NEW t \in Times
       PROVE  Serves(R, u, s, t) <=>
                 \E r \in db.rows : /\ r.url = u /\ Reduced(r.stream, request.level) = s
                                    /\ Offered(r) /\ InRow(r, t)
                                    /\ Within(t, x.start, x.end) /\ Matches(x.stream, r.stream)
  <2>1. ASSUME Serves(R, u, s, t)
        PROVE  \E r \in Rows : /\ r.url = u /\ Reduced(r.stream, request.level) = s
                               /\ LatestStart(r, x) <= t /\ t < EarliestEnd(r, x)
    <3>1. PICK rho \in R : rho.url = u /\ Holds(rho.streams, s, t)
      BY <2>1 DEF Serves
    <3>2. rho.streams = Added(At(u))
      BY <1>1, <3>1
    <3>3. PICK e \in At(u) : e.stream = s /\ e.start <= t /\ t < e.end
      BY <1>10, <3>1, <3>2
    <3> QED BY <1>7, <3>3
  <2>2. ASSUME NEW r \in Rows, r.url = u, Reduced(r.stream, request.level) = s,
               LatestStart(r, x) <= t, t < EarliestEnd(r, x)
        PROVE  Serves(R, u, s, t)
    <3>1. \E e \in At(u) : e.stream = s /\ e.start <= t /\ t < e.end
      BY <1>8, <2>2
    <3>2. Holds(Added(At(u)), s, t)
      BY <1>10, <3>1
    <3>3. [url |-> u, streams |-> Added(At(u))] \in R
      BY <1>1, <2>2
    <3> QED BY <3>2, <3>3 DEF Serves
  <2> QED BY <1>5, <1>6, <2>1, <2>2
<1> HIDE DEF R
<1> QED BY <1>11, <1>12 DEF R

\* Cutting a handler to a time.
LEMMA ModifiedHolds ==
    ASSUME NEW handler, Handled(handler),
           NEW start \in 0 .. EndOfTime, NEW end \in 0 .. EndOfTime,
           \A it \in handler, t \in Nat : Covers(it.tree, t) => Within(t, start, end)
    PROVE  /\ Handled(Modified(handler, start, end))
           /\ \A s : \A t \in Nat : Holds(Modified(handler, start, end), s, t) <=> Holds(handler, s, t)
           /\ \A it \in Modified(handler, start, end) : \E i \in handler : it.stream = i.stream
           /\ handler # {} => Modified(handler, start, end) # {}
<1> DEFINE New(it) == Constrained(Merged(it.tree), start, end)
           M == Modified(handler, start, end)
<1>1. M = {Item(it.stream, New(it)) : it \in handler}
  <2> DEFINE I == MergedItems(handler)
  <2>1. I = {Item(it.stream, Merged(it.tree)) : it \in handler}
    BY DEF MergedItems
  <2>2. M = {Item(it.stream, Constrained(it.tree, start, end)) : it \in I}
    BY DEF Modified
  <2>3. \A it : /\ Item(it.stream, Merged(it.tree)).stream = it.stream
                /\ Item(it.stream, Merged(it.tree)).tree = Merged(it.tree)
    BY DEF Item
  <2> HIDE DEF M, I
  <2>4. ASSUME NEW m \in M PROVE m \in {Item(it.stream, New(it)) : it \in handler}
    BY <2>1, <2>2, <2>3
  <2>5. ASSUME NEW it \in handler PROVE Item(it.stream, New(it)) \in M
    <3>1. Item(it.stream, Merged(it.tree)) \in I
      BY <2>1
    <3> QED BY <2>2, <2>3, <3>1
  <2> QED BY <2>4, <2>5
<1>2. ASSUME NEW it \in handler
      PROVE  /\ New(it) \subseteq Intervals /\ New(it) # {}
             /\ \A t \in Nat : Covers(New(it), t) <=> Covers(it.tree, t)
  <2>1. it.tree \subseteq Intervals /\ it.tree # {}
    BY DEF Handled
  <2>2. Merged(it.tree) \subseteq Intervals /\ Merged(it.tree) # {}
    BY <2>1, MergedBegins, MergedSome
  <2>3. \A t \in Nat : Covers(Merged(it.tree), t) <=> Covers(it.tree, t)
    BY <2>1, MergedCovers
  <2>4. New(it) \subseteq Intervals
        /\ \A t \in Nat : Covers(New(it), t) <=> Covers(Merged(it.tree), t) /\ Within(t, start, end)
    BY <2>2, ConstrainedCovers
  <2>5. \A t \in Nat : Covers(New(it), t) <=> Covers(it.tree, t)
    BY <2>3, <2>4
  <2>6. PICK iv \in it.tree : TRUE
    BY <2>1
  <2>7. iv[1] \in Nat /\ Covers(it.tree, iv[1])
    BY <2>1, IntervalType DEF Covers
  <2>8. New(it) # {}
    BY <2>5, <2>7 DEF Covers
  <2> QED BY <2>4, <2>5, <2>8
<1> HIDE DEF New, M
<1>3. \A m \in M : \E it \in handler : m.stream = it.stream /\ m.tree = New(it)
  BY <1>1 DEF Item
<1>4. \A it \in handler : \E m \in M : m.stream = it.stream /\ m.tree = New(it)
  <2> SUFFICES ASSUME NEW it \in handler PROVE \E m \in M : m.stream = it.stream /\ m.tree = New(it)
    OBVIOUS
  <2>1. Item(it.stream, New(it)) \in M
    BY <1>1
  <2> QED BY <2>1 DEF Item
<1>5. Handled(M)
  BY <1>2, <1>3 DEF Handled
<1>6. \A s : \A t \in Nat : Holds(M, s, t) <=> Holds(handler, s, t)
  BY <1>2, <1>3, <1>4 DEF Holds
<1> QED BY <1>3, <1>4, <1>5, <1>6 DEF M

\* Cutting a route to the epoch it was found for takes nothing from it.
LEMMA CutForEpoch ==
    ASSUME TakenRequest, NEW x \in QueryEpoch
    PROVE  LET R == {[r EXCEPT !.streams = Modified(@, x.start, x.end)] : r \in FindRoutes(db, x, Ask)}
           IN  /\ RouteSet(R)
               /\ \A u, s : \A t \in Times : Serves(R, u, s, t) <=> Serves(FindRoutes(db, x, Ask), u, s, t)
<1> DEFINE F == FindRoutes(db, x, Ask)
           Cut(r) == [url |-> r.url, streams |-> Modified(r.streams, x.start, x.end)]
           R == {[r EXCEPT !.streams = Modified(@, x.start, x.end)] : r \in F}
<1>1. RouteSet(F)
  BY FoundForEpoch
<1>2. R = {Cut(r) : r \in F}
  <2>1. \A r \in F : [r EXCEPT !.streams = Modified(@, x.start, x.end)] = Cut(r)
    <3> SUFFICES ASSUME NEW r \in F
                 PROVE  [r EXCEPT !.streams = Modified(@, x.start, x.end)] = Cut(r)
      OBVIOUS
    <3>1. r = [url |-> r.url, streams |-> r.streams]
      BY <1>1 DEF RouteSet
    <3> QED BY <3>1
  <2> HIDE DEF F, Cut
  <2> QED BY <2>1
<1>3. ASSUME NEW r \in F
      PROVE  /\ Handled(r.streams)
             /\ \A it \in r.streams, t \in Nat : Covers(it.tree, t) => t \in Times /\ Within(t, x.start, x.end)
  <2>1. Handled(r.streams)
    BY <1>1 DEF RouteSet
  <2>2. ASSUME NEW it \in r.streams, NEW t \in Nat, Covers(it.tree, t)
        PROVE  t \in Times /\ Within(t, x.start, x.end)
    <3>1. it.tree \subseteq Intervals
      BY <2>1 DEF Handled
    <3>2. PICK iv \in it.tree : iv[1] <= t /\ t < iv[2]
      BY <2>2 DEF Covers
    <3>3. t \in Times
      BY <3>1, <3>2, IntervalType, ConstantsAssumption DEF Times
    <3>4. Serves(F, r.url, it.stream, t)
      BY <2>2 DEF Serves, Holds
    <3> QED BY <3>3, <3>4, FoundForEpoch
  <2> QED BY <2>1, <2>2
<1> HIDE DEF F, R
<1>4. x.start \in 0 .. EndOfTime /\ x.end \in 0 .. EndOfTime
  BY DEF QueryEpoch
<1>5. ASSUME NEW r \in F
      PROVE  /\ Handled(Cut(r).streams) /\ Cut(r).url = r.url
             /\ \A s : \A t \in Nat : Holds(Cut(r).streams, s, t) <=> Holds(r.streams, s, t)
             /\ \A it \in Cut(r).streams : \E i \in r.streams : it.stream = i.stream
             /\ r.streams # {} => Cut(r).streams # {}
  BY <1>3, <1>4, ModifiedHolds
<1>6. RouteSet(R)
  <2> SUFFICES ASSUME NEW rho \in R
               PROVE  /\ rho = [url |-> rho.url, streams |-> rho.streams]
                      /\ rho.streams # {} /\ Handled(rho.streams)
                      /\ \E r \in db.rows : rho.url = r.url
                      /\ \A it \in rho.streams : \E r \in db.rows : it.stream = Reduced(r.stream, request.level)
    BY DEF RouteSet
  <2>1. PICK r \in F : rho = Cut(r)
    BY <1>2
  <2>2. rho = [url |-> rho.url, streams |-> rho.streams]
    BY <2>1
  <2>3. /\ r.streams # {} /\ \E y \in db.rows : r.url = y.url
        /\ \A it \in r.streams : \E y \in db.rows : it.stream = Reduced(y.stream, request.level)
    BY <1>1 DEF RouteSet
  <2> HIDE DEF Cut
  <2> QED BY <1>5, <2>1, <2>2, <2>3
<1>7. \A u, s : \A t \in Times : Serves(R, u, s, t) <=> Serves(F, u, s, t)
  <2> SUFFICES ASSUME NEW u, NEW s, NEW t \in Times
               PROVE  Serves(R, u, s, t) <=> Serves(F, u, s, t)
    OBVIOUS
  <2>1. t \in Nat
    BY ConstantsAssumption DEF Times
  <2> HIDE DEF Cut
  <2>2. \A r \in F : Cut(r).url = r.url /\ (Holds(Cut(r).streams, s, t) <=> Holds(r.streams, s, t))
    BY <1>5, <2>1
  <2>3. Serves(R, u, s, t) <=> \E r \in F : Cut(r).url = u /\ Holds(Cut(r).streams, s, t)
    BY <1>2 DEF Serves
  <2> QED BY <2>2, <2>3 DEF Serves
<1> QED BY <1>6, <1>7 DEF R, F

\* The routing service serves the stream to those who want it at the time.
Served(u, s, t) ==
    \E r \in db.rows : /\ r.url = u /\ Reduced(r.stream, request.level) = s
                       /\ Offered(r) /\ InRow(r, t) /\ Naming(Asked, r.stream, t)

LEMMA CutFound ==
    ASSUME TakenRequest, NEW d \in Nat
    PROVE  /\ RouteSet(CutRoutes(db, Ask, Now + d))
           /\ \A u, s : \A t \in 1 .. Now - 1 :
                 Serves(CutRoutes(db, Ask, Now + d), u, s, t) <=> Served(u, s, t)
<1> DEFINE Q == Queried(db, Ask, Now + d)
           Cut(x) == {[r EXCEPT !.streams = Modified(@, x.start, x.end)] : r \in FindRoutes(db, x, Ask)}
           R == CutRoutes(db, Ask, Now + d)
<1>1. R = UNION {Cut(x) : x \in Q}
  BY DEF CutRoutes
<1>2. Q \subseteq QueryEpoch
  BY QueriedNames
<1>3. \A x \in Q : RouteSet(Cut(x)) /\ \A u, s : \A t \in Times :
                      Serves(Cut(x), u, s, t) <=> Serves(FindRoutes(db, x, Ask), u, s, t)
  BY <1>2, CutForEpoch
<1>4. \A stream \in CodeStream, t \in 1 .. Now - 1 :
         (\E x \in Q : Within(t, x.start, x.end) /\ Matches(x.stream, stream)) <=> Naming(Asked, stream, t)
  BY QueriedNames
<1>5. \A r \in db.rows : r.stream \in CodeStream
  BY DEF TakenRequest, Database, Row
<1> HIDE DEF Q, Cut, R
<1>6. RouteSet(R)
  BY <1>1, <1>3 DEF RouteSet
<1>7. ASSUME NEW u, NEW s, NEW t \in 1 .. Now - 1
      PROVE  Serves(R, u, s, t) <=> Served(u, s, t)
  <2>1. t \in Times
    BY NowType DEF Times
  <2>2. Serves(R, u, s, t) <=> \E x \in Q : Serves(Cut(x), u, s, t)
    BY <1>1 DEF Serves
  <2>3. \A x \in Q : Serves(Cut(x), u, s, t) <=>
           \E r \in db.rows : /\ r.url = u /\ Reduced(r.stream, request.level) = s
                              /\ Offered(r) /\ InRow(r, t)
                              /\ Within(t, x.start, x.end) /\ Matches(x.stream, r.stream)
    BY <1>2, <1>3, <2>1, FoundForEpoch
  <2> QED BY <1>4, <1>5, <2>2, <2>3 DEF Served
<1> QED BY <1>6, <1>7 DEF R

\* What is wanted is what is served by the endpoints within the budget.
LEMMA WantedServed ==
    ASSUME TakenRequest
    PROVE  /\ \A u, s, t : <<u, s, t>> \in Wanted <=>
                 t \in 1 .. Now - 1 /\ InBudget(u) /\ Served(u, s, t)
           /\ \A w \in Wanted : w = <<w[1], w[2], w[3]>>
<1> DEFINE In(r) == {x \in 1..(Now - 1) :
                  /\ Within(x, r.start, r.end) /\ Within(x, r.rstart, r.rend)
                  /\ \E a \in Asked : Within(x, a.start, a.end) /\ Names(a, r.stream, x)}
           Of(r) == {<<r.url, Reduced(r.stream, request.level), t>> : t \in In(r)}
           S == {y \in db.rows :
                  /\ InBudget(y.url) /\ y.service = request.service
                  /\ \E p \in y.positions : Inside(p)
                  /\ request.service = "dataselect" => y.rs = "open"}
<1>1. Wanted = UNION {Of(r) : r \in S}
  BY DEF Wanted
<1>2. \A r, t : t \in In(r) <=> t \in 1 .. Now - 1 /\ InRow(r, t) /\ Naming(Asked, r.stream, t)
  BY DEF InRow, Naming
<1>3. \A r : r \in S <=> r \in db.rows /\ InBudget(r.url) /\ Offered(r)
  BY DEF Offered
<1> HIDE DEF In, S
<1>4. \A r, u, s, t : <<u, s, t>> \in Of(r) <=>
         u = r.url /\ s = Reduced(r.stream, request.level) /\ t \in In(r)
  OBVIOUS
<1>5. \A r : \A w \in Of(r) : w = <<w[1], w[2], w[3]>>
  OBVIOUS
<1> HIDE DEF Of
<1>6. \A u, s, t : <<u, s, t>> \in Wanted <=>
         \E r \in S : u = r.url /\ s = Reduced(r.stream, request.level) /\ t \in In(r)
  <2> SUFFICES ASSUME NEW u, NEW s, NEW t
               PROVE  <<u, s, t>> \in Wanted <=>
                 \E r \in S : u = r.url /\ s = Reduced(r.stream, request.level) /\ t \in In(r)
    OBVIOUS
  <2>1. <<u, s, t>> \in Wanted <=> \E r \in S : <<u, s, t>> \in Of(r)
    BY <1>1
  <2>2. \A r : <<u, s, t>> \in Of(r) <=>
             u = r.url /\ s = Reduced(r.stream, request.level) /\ t \in In(r)
    BY <1>4
  <2> QED BY <2>1, <2>2
<1>7. ASSUME NEW u, NEW s, NEW t
      PROVE  <<u, s, t>> \in Wanted <=> t \in 1 .. Now - 1 /\ InBudget(u) /\ Served(u, s, t)
  BY <1>2, <1>3, <1>6 DEF Served
<1> QED BY <1>1, <1>5, <1>7

\* Handlers merge into one that holds what they hold, each stream once and
\* its intervals apart.
LEMMA MergedHandlersHold ==
    ASSUME NEW H, \A h \in H : Handled(h)
    PROVE  LET M == MergedHandlers(H)
           IN  /\ Handled(M)
               /\ \A it \in M : ApartIn(it.tree) /\ \E h \in H : \E i \in h : it.stream = i.stream
               /\ \A i, j \in M : i.stream = j.stream => i = j
               /\ \A s : \A t \in Nat : Holds(M, s, t) <=> \E h \in H : Holds(h, s, t)
               /\ (\E h \in H : h # {}) => M # {}
<1> DEFINE items == UNION H
           Tree(s) == UNION {it.tree : it \in {x \in items : x.stream = s}}
           I == {Item(s, Tree(s)) : s \in {it.stream : it \in items}}
           M == MergedHandlers(H)
<1>1. M = MergedItems(I)
  BY DEF MergedHandlers
<1>2. \A it \in items : it.tree \subseteq Intervals /\ it.tree # {}
  BY DEF Handled
<1>3. \A s : Tree(s) \subseteq Intervals
  BY <1>2
<1>4. \A s : \A t \in Nat : Covers(Tree(s), t) <=> \E it \in items : it.stream = s /\ Covers(it.tree, t)
  BY DEF Covers
<1>5. \A it \in items : Tree(it.stream) # {}
  BY <1>2
<1> HIDE DEF Tree
<1>6. M = {Item(s, Merged(Tree(s))) : s \in {it.stream : it \in items}}
  <2>1. MergedItems(I) = {Item(i.stream, Merged(i.tree)) : i \in I}
    BY DEF MergedItems
  <2>2. \A s : Item(s, Tree(s)).stream = s /\ Item(s, Tree(s)).tree = Tree(s)
    BY DEF Item
  <2> QED BY <1>1, <2>1, <2>2
<1> HIDE DEF I
<1>7. ASSUME NEW m \in M
      PROVE  \E it \in items : m.stream = it.stream /\ m = Item(it.stream, Merged(Tree(it.stream)))
                               /\ m.tree = Merged(Tree(it.stream))
  BY <1>6 DEF Item
<1>8. ASSUME NEW it \in items
      PROVE  \E m \in M : m.stream = it.stream /\ m.tree = Merged(Tree(it.stream))
  <2>1. Item(it.stream, Merged(Tree(it.stream))) \in M
    BY <1>6
  <2> QED BY <2>1 DEF Item
<1>9. \A it \in items : /\ Merged(Tree(it.stream)) \subseteq Intervals /\ Merged(Tree(it.stream)) # {}
                        /\ ApartIn(Merged(Tree(it.stream)))
  BY <1>3, <1>5, MergedBegins, MergedSome, MergedApart
<1>10. \A s : \A t \in Nat : Covers(Merged(Tree(s)), t) <=> Covers(Tree(s), t)
  BY <1>3, MergedCovers
<1> HIDE DEF M
<1>11. Handled(M) /\ \A m \in M : ApartIn(m.tree)
  BY <1>7, <1>9 DEF Handled
<1>12. \A i, j \in M : i.stream = j.stream => i = j
  BY <1>7
<1>13. ASSUME NEW s, NEW t \in Nat
       PROVE  Holds(M, s, t) <=> \E h \in H : Holds(h, s, t)
  <2>1. Holds(M, s, t) => \E it \in items : it.stream = s /\ Covers(it.tree, t)
    BY <1>4, <1>7, <1>10 DEF Holds
  <2>2. (\E it \in items : it.stream = s /\ Covers(it.tree, t)) => Holds(M, s, t)
    BY <1>4, <1>8, <1>10 DEF Holds
  <2>3. (\E it \in items : it.stream = s /\ Covers(it.tree, t)) <=> \E h \in H : Holds(h, s, t)
    BY DEF Holds
  <2> QED BY <2>1, <2>2, <2>3
<1>14. \A m \in M : \E h \in H : \E i \in h : m.stream = i.stream
  BY <1>7
<1>15. (\E h \in H : h # {}) => M # {}
  BY <1>8
<1> QED BY <1>11, <1>12, <1>13, <1>14, <1>15 DEF M

-----------------------------------------------------------------------------
(* The merged routes. *)

Reduces == request.level \in {"network", "station"}

\* Stream epochs that are whole, no two of a stream at a time.
Scheduled(E) ==
    /\ \A e \in E : /\ e = StreamEpoch(e.stream, e.start, e.end)
                    /\ e.start \in Clock /\ e.end \in Clock /\ e.start < e.end
    /\ \A e, f \in E : e.stream = f.stream /\ e # f => e.end <= f.start \/ f.end <= e.start

During(E, s, t) == \E e \in E : e.stream = s /\ e.start <= t /\ t < e.end

\* The stream epochs of a tree.
LEMMA EachEpochs ==
    ASSUME NEW s, NEW tree \in SUBSET Intervals, ApartIn(tree), tree # {}
    PROVE  /\ Scheduled(Each(s, tree)) /\ Each(s, tree) # {}
           /\ \A e \in Each(s, tree) : e.stream = s
           /\ \A t \in Nat : During(Each(s, tree), s, t) <=> Covers(tree, t)
<1>1. Each(s, tree) = {StreamEpoch(s, iv[1], iv[2]) : iv \in tree}
  BY DEF Each
<1>2. \A iv \in tree : /\ StreamEpoch(s, iv[1], iv[2]).start = iv[1]
                       /\ StreamEpoch(s, iv[1], iv[2]).end = iv[2]
                       /\ StreamEpoch(s, iv[1], iv[2]).stream = s
  BY DEF StreamEpoch
<1>3. \A iv \in tree : iv[1] \in Clock /\ iv[2] \in Clock /\ iv[1] < iv[2]
  BY IntervalType
<1>4. Each(s, tree) # {} /\ \A e \in Each(s, tree) : e.stream = s
  BY <1>1, <1>2
<1>5. Scheduled(Each(s, tree))
  <2>1. ASSUME NEW e \in Each(s, tree), NEW f \in Each(s, tree), e # f
        PROVE  e.end <= f.start \/ f.end <= e.start
    <3>1. PICK i \in tree : e = StreamEpoch(s, i[1], i[2])
      BY <1>1
    <3>2. PICK j \in tree : f = StreamEpoch(s, j[1], j[2])
      BY <1>1
    <3>3. i # j
      BY <2>1, <3>1, <3>2
    <3> QED BY <1>2, <3>1, <3>2, <3>3 DEF ApartIn
  <2>2. \A e \in Each(s, tree) :
            /\ e = StreamEpoch(e.stream, e.start, e.end)
            /\ e.start \in Clock /\ e.end \in Clock /\ e.start < e.end
    BY <1>1, <1>2, <1>3
  <2> QED BY <2>1, <2>2 DEF Scheduled
<1>6. \A t \in Nat : During(Each(s, tree), s, t) <=> Covers(tree, t)
  BY <1>1, <1>2 DEF During, Covers
<1> QED BY <1>4, <1>5, <1>6

LEMMA HullEpoch ==
    ASSUME NEW s, NEW tree \in SUBSET Intervals, tree # {}
    PROVE  /\ Scheduled({Hull(s, tree)}) /\ Hull(s, tree).stream = s
           /\ Covers(tree, Hull(s, tree).start) /\ Covers(tree, Hull(s, tree).end - 1)
           /\ \A t \in Nat : Covers(tree, t) => During({Hull(s, tree)}, s, t)
<1> DEFINE h == Hull(s, tree)
<1>1. h = StreamEpoch(s, Begin(tree), End(tree)) /\ h.stream = s /\ h.start = Begin(tree) /\ h.end = End(tree)
  BY DEF Hull, StreamEpoch
<1>2. /\ Begin(tree) \in Clock /\ End(tree) \in Clock
      /\ \A iv \in tree : Begin(tree) <= iv[1] /\ iv[2] <= End(tree)
  BY BeginAndEnd
<1>3. PICK iv \in tree : iv[1] = Begin(tree)
  BY BeginAndEnd
<1>4. \A i \in tree : i[1] \in Nat /\ i[2] \in Nat /\ i[1] < i[2]
  BY IntervalType
<1>5. Begin(tree) \in Nat /\ End(tree) \in Nat
  BY <1>2, ConstantsAssumption DEF Clock
<1>6. h.start < h.end
  BY <1>1, <1>2, <1>3, <1>4, <1>5
<1>7. Covers(tree, h.start)
  BY <1>1, <1>3, <1>4, <1>5 DEF Covers
<1>10. PICK iw \in tree : iw[2] = End(tree)
  BY BeginAndEnd
<1>11. Covers(tree, h.end - 1)
  <2>1. iw[1] <= h.end - 1 /\ h.end - 1 < iw[2]
    BY <1>1, <1>4, <1>5, <1>10
  <2> QED BY <2>1 DEF Covers
<1> HIDE DEF h
<1>8. Scheduled({h})
  BY <1>1, <1>2, <1>6 DEF Scheduled
<1>9. ASSUME NEW t \in Nat, Covers(tree, t)
      PROVE  During({h}, s, t)
  <2>1. PICK i \in tree : i[1] <= t /\ t < i[2]
    BY <1>9 DEF Covers
  <2>2. h.start <= t /\ t < h.end
    BY <1>1, <1>2, <1>4, <1>5, <2>1
  <2> QED BY <1>1, <2>2 DEF During
<1> QED BY <1>1, <1>7, <1>8, <1>9, <1>11 DEF h

\* The stream epochs of a handler, by level.
EpochsOf(it) == IF Reduces THEN {Hull(it.stream, it.tree)} ELSE Each(it.stream, it.tree)

LEMMA HandlerEpochs ==
    ASSUME NEW M, M # {}, Handled(M), \A it \in M : ApartIn(it.tree),
           \A i, j \in M : i.stream = j.stream => i = j
    PROVE  LET E == UNION {EpochsOf(it) : it \in M}
           IN  /\ Scheduled(E) /\ E # {}
               /\ \A e \in E : \E it \in M :
                     e.stream = it.stream /\ Covers(it.tree, e.start) /\ Covers(it.tree, e.end - 1)
               /\ \A s : \A t \in Nat : Holds(M, s, t) => During(E, s, t)
               /\ ~Reduces => \A s : \A t \in Nat : During(E, s, t) => Holds(M, s, t)
<1> DEFINE E == UNION {EpochsOf(it) : it \in M}
<1>1. ASSUME NEW it \in M
      PROVE  /\ Scheduled(EpochsOf(it)) /\ EpochsOf(it) # {}
             /\ \A e \in EpochsOf(it) : /\ e.stream = it.stream
                                       /\ Covers(it.tree, e.start) /\ Covers(it.tree, e.end - 1)
             /\ \A t \in Nat : Covers(it.tree, t) => During(EpochsOf(it), it.stream, t)
             /\ ~Reduces => \A t \in Nat : During(EpochsOf(it), it.stream, t) => Covers(it.tree, t)
  <2>1. it.tree \subseteq Intervals /\ it.tree # {} /\ ApartIn(it.tree)
    BY DEF Handled
  <2>2. CASE Reduces
    <3> DEFINE h == Hull(it.stream, it.tree)
    <3>1. EpochsOf(it) = {h}
      BY <2>2 DEF EpochsOf
    <3>2. /\ Scheduled({h}) /\ h.stream = it.stream
          /\ Covers(it.tree, h.start) /\ Covers(it.tree, h.end - 1)
          /\ \A t \in Nat : Covers(it.tree, t) => During({h}, it.stream, t)
      BY <2>1, HullEpoch
    <3> HIDE DEF h
    <3> QED BY <2>2, <3>1, <3>2
  <2>3. CASE ~Reduces
    <3> DEFINE F == Each(it.stream, it.tree)
    <3>1. EpochsOf(it) = F
      BY <2>3 DEF EpochsOf
    <3>2. /\ Scheduled(F) /\ F # {} /\ \A e \in F : e.stream = it.stream
          /\ \A t \in Nat : During(F, it.stream, t) <=> Covers(it.tree, t)
      BY <2>1, EachEpochs
    <3> HIDE DEF F
    <3>3. ASSUME NEW e \in F PROVE Covers(it.tree, e.start) /\ Covers(it.tree, e.end - 1)
      <4>1. e.start \in Nat /\ e.end \in Nat /\ e.end - 1 \in Nat /\ e.start < e.end
        BY <3>2, ConstantsAssumption DEF Scheduled, Clock
      <4>2. During(F, it.stream, e.start) /\ During(F, it.stream, e.end - 1)
        BY <3>2, <4>1 DEF During
      <4> QED BY <3>2, <4>1, <4>2
    <3> QED BY <3>1, <3>2, <3>3
  <2> QED BY <2>2, <2>3
<1>2. \A e \in E : \E it \in M : e \in EpochsOf(it)
  OBVIOUS
<1>3. \A it \in M : EpochsOf(it) \subseteq E
  OBVIOUS
<1> HIDE DEF E
<1>4. E # {}
  BY <1>1, <1>3
<1>5. \A e \in E : \E it \in M :
          e.stream = it.stream /\ Covers(it.tree, e.start) /\ Covers(it.tree, e.end - 1)
  BY <1>1, <1>2
<1>6. ASSUME NEW s, NEW t \in Nat, Holds(M, s, t)
      PROVE  During(E, s, t)
  BY <1>1, <1>3, <1>6 DEF Holds, During
<1>7. ASSUME ~Reduces, NEW s, NEW t \in Nat, During(E, s, t)
      PROVE  Holds(M, s, t)
  <2>1. PICK e \in E : e.stream = s /\ e.start <= t /\ t < e.end
    BY <1>7 DEF During
  <2>2. PICK it \in M : e \in EpochsOf(it)
    BY <1>2
  <2>3. it.stream = s /\ During(EpochsOf(it), s, t)
    BY <1>1, <2>1, <2>2 DEF During
  <2> QED BY <1>1, <1>7, <2>3 DEF Holds
<1>8. Scheduled(E)
  <2>1. \A e \in E : /\ e = StreamEpoch(e.stream, e.start, e.end)
                     /\ e.start \in Clock /\ e.end \in Clock /\ e.start < e.end
    BY <1>1, <1>2 DEF Scheduled
  <2>2. ASSUME NEW e \in E, NEW f \in E, e.stream = f.stream, e # f
        PROVE  e.end <= f.start \/ f.end <= e.start
    <3>1. PICK i \in M : e \in EpochsOf(i)
      BY <1>2
    <3>2. PICK j \in M : f \in EpochsOf(j)
      BY <1>2
    <3>3. i = j
      BY <1>1, <2>2, <3>1, <3>2
    <3>4. Scheduled(EpochsOf(i))
      BY <1>1
    <3> QED BY <2>2, <3>1, <3>2, <3>3, <3>4 DEF Scheduled
  <2> QED BY <2>1, <2>2 DEF Scheduled
<1> QED BY <1>4, <1>5, <1>6, <1>7, <1>8 DEF E

\* There are no more than finitely many stream epochs of streams of rows.
RowEpochs ==
    {StreamEpoch(Reduced(x[1].stream, request.level), x[2], x[3]) : x \in db.rows \X Clock \X Clock}

LEMMA RowEpochsFinite ==
    ASSUME TakenRequest
    PROVE  IsFiniteSet(RowEpochs)
<1> DEFINE P == db.rows \X (Clock \X Clock)
           F(x) == StreamEpoch(Reduced(x[1].stream, request.level), x[2][1], x[2][2])
<1>1. IsFiniteSet(Clock)
  BY FS_Interval, ConstantsAssumption DEF Clock
<1>2. IsFiniteSet(Clock \X Clock)
  BY <1>1, FS_Product
<1>3. IsFiniteSet(P)
  BY <1>2, FS_Product DEF TakenRequest
<1>4. IsFiniteSet({F(x) : x \in P})
  <2> DEFINE f == [x \in P |-> F(x)]
  <2> HIDE DEF P, F
  <2>1. DOMAIN f = P /\ f = [x \in DOMAIN f |-> f[x]]
    OBVIOUS
  <2>2. IsFiniteSet({f[x] : x \in DOMAIN f})
    <3> HIDE DEF f
    <3> QED BY <1>3, <2>1, ImageFinite
  <2> QED BY <2>2
<1>5. RowEpochs \subseteq {F(x) : x \in P}
  <2> SUFFICES ASSUME NEW x \in db.rows \X Clock \X Clock
               PROVE  StreamEpoch(Reduced(x[1].stream, request.level), x[2], x[3]) \in {F(y) : y \in P}
    BY DEF RowEpochs
  <2>1. <<x[1], <<x[2], x[3]>>>> \in P
    OBVIOUS
  <2>2. F(<<x[1], <<x[2], x[3]>>>>) = StreamEpoch(Reduced(x[1].stream, request.level), x[2], x[3])
    OBVIOUS
  <2> HIDE DEF P, F
  <2> QED BY <2>1, <2>2
<1> HIDE DEF P, F
<1> QED BY <1>4, <1>5, FS_Subset

\* Routes to distinct endpoints, finitely many.
RoutesTo(R) ==
    /\ IsFiniteSet(R)
    /\ \A m \in R : /\ m = Route(m.url, m.streams)
                    /\ Scheduled(m.streams) /\ m.streams # {} /\ IsFiniteSet(m.streams)
    /\ \A m, n \in R : m.url = n.url => m = n

LEMMA MergedRoutesHold ==
    ASSUME TakenRequest, NEW cut, RouteSet(cut)
    PROVE  LET R == MergedRoutes(cut, Ask.level)
           IN  /\ RoutesTo(R)
               /\ cut # {} => R # {}
               /\ \A u, s : \A t \in Nat :
                     Serves(cut, u, s, t) => \E m \in R : m.url = u /\ During(m.streams, s, t)
               /\ \A m \in R : \A e \in m.streams :
                     /\ Serves(cut, m.url, e.stream, e.start)
                     /\ Serves(cut, m.url, e.stream, e.end - 1)
               /\ ~Reduces => \A m \in R : \A s : \A t \in Nat :
                     During(m.streams, s, t) => Serves(cut, m.url, s, t)
<1> DEFINE R == MergedRoutes(cut, Ask.level)
           U == {r.url : r \in cut}
           H(u) == {r.streams : r \in {x \in cut : x.url = u}}
           M(u) == MergedHandlers(H(u))
           E(u) == UNION {EpochsOf(it) : it \in M(u)}
           m(u) == [url |-> u, streams |-> E(u)]
<1>1. R = {m(u) : u \in U}
  <2>1. Ask.level = request.level
    BY DEF Ask, RoutingRequest
  <2> DEFINE F(it) == IF Ask.level \in {"network", "station"}
                      THEN {Hull(it.stream, it.tree)} ELSE Each(it.stream, it.tree)
  <2>2. \A it : F(it) = EpochsOf(it)
    BY <2>1 DEF EpochsOf, Reduces
  <2>3. R = {[url |-> u, streams |-> UNION {F(it) : it \in M(u)}] : u \in U}
    BY DEF MergedRoutes
  <2> HIDE DEF F, U, M, R
  <2>4. \A u : UNION {F(it) : it \in M(u)} = E(u)
    BY <2>2
  <2> HIDE DEF E
  <2> QED BY <2>3, <2>4
<1>2. ASSUME NEW u \in U
      PROVE  /\ \A h \in H(u) : Handled(h) /\ h # {}
             /\ H(u) # {}
             /\ \A h \in H(u) : \A it \in h : \E r \in db.rows : it.stream = Reduced(r.stream, request.level)
             /\ \E r \in db.rows : u = r.url
  BY DEF RouteSet
<1>3. \A u, s, t : (\E h \in H(u) : Holds(h, s, t)) <=> Serves(cut, u, s, t)
  BY DEF Serves
<1> HIDE DEF H, U
<1>4. ASSUME NEW u \in U
      PROVE  /\ Scheduled(E(u)) /\ E(u) # {}
             /\ \A e \in E(u) : /\ Serves(cut, u, e.stream, e.start)
                                /\ Serves(cut, u, e.stream, e.end - 1)
                                /\ \E r \in db.rows : e.stream = Reduced(r.stream, request.level)
             /\ \A s : \A t \in Nat : Serves(cut, u, s, t) => During(E(u), s, t)
             /\ ~Reduces => \A s : \A t \in Nat : During(E(u), s, t) => Serves(cut, u, s, t)
  <2>1. /\ Handled(M(u)) /\ M(u) # {}
        /\ \A it \in M(u) : ApartIn(it.tree) /\ \E h \in H(u) : \E i \in h : it.stream = i.stream
        /\ \A i, j \in M(u) : i.stream = j.stream => i = j
        /\ \A s : \A t \in Nat : Holds(M(u), s, t) <=> Serves(cut, u, s, t)
    BY <1>2, <1>3, MergedHandlersHold
  <2> HIDE DEF M
  <2>2. /\ Scheduled(E(u)) /\ E(u) # {}
        /\ \A e \in E(u) : \E it \in M(u) :
              e.stream = it.stream /\ Covers(it.tree, e.start) /\ Covers(it.tree, e.end - 1)
        /\ \A s : \A t \in Nat : Holds(M(u), s, t) => During(E(u), s, t)
        /\ ~Reduces => \A s : \A t \in Nat : During(E(u), s, t) => Holds(M(u), s, t)
    BY <2>1, HandlerEpochs
  <2> HIDE DEF E
  <2>3. ASSUME NEW e \in E(u)
        PROVE  /\ Serves(cut, u, e.stream, e.start) /\ Serves(cut, u, e.stream, e.end - 1)
               /\ \E r \in db.rows : e.stream = Reduced(r.stream, request.level)
    <3>1. PICK it \in M(u) : /\ e.stream = it.stream
                             /\ Covers(it.tree, e.start) /\ Covers(it.tree, e.end - 1)
      BY <2>2
    <3>2. e.start \in Nat /\ e.end - 1 \in Nat
      BY <2>2, ConstantsAssumption DEF Scheduled, Clock
    <3>3. Holds(M(u), e.stream, e.start) /\ Holds(M(u), e.stream, e.end - 1)
      BY <3>1 DEF Holds
    <3> QED BY <1>2, <2>1, <3>1, <3>2, <3>3
  <2> QED BY <2>1, <2>2, <2>3
<1> HIDE DEF E
<1>5. \A u : m(u).url = u /\ m(u).streams = E(u) /\ m(u) = Route(u, E(u))
  BY DEF Route
<1> HIDE DEF m
<1>6. ASSUME NEW u \in U PROVE IsFiniteSet(E(u))
  <2>1. E(u) \subseteq RowEpochs
    <3> SUFFICES ASSUME NEW e \in E(u) PROVE e \in RowEpochs
      OBVIOUS
    <3>1. PICK r \in db.rows : e.stream = Reduced(r.stream, request.level)
      BY <1>4
    <3>2. e = StreamEpoch(e.stream, e.start, e.end) /\ e.start \in Clock /\ e.end \in Clock
      BY <1>4 DEF Scheduled
    <3>3. <<r, e.start, e.end>> \in db.rows \X Clock \X Clock
      BY <3>2
    <3> QED BY <3>1, <3>2, <3>3 DEF RowEpochs
  <2> QED BY <2>1, RowEpochsFinite, FS_Subset
<1>7. IsFiniteSet(R)
  <2>1. IsFiniteSet({r.url : r \in db.rows})
    <3> DEFINE f == [r \in db.rows |-> r.url]
    <3>1. DOMAIN f = db.rows /\ f = [x \in DOMAIN f |-> f[x]]
      OBVIOUS
    <3>2. IsFiniteSet({f[x] : x \in DOMAIN f})
      <4> HIDE DEF f
      <4> QED BY <3>1, ImageFinite DEF TakenRequest
    <3> QED BY <3>2
  <2>2. U \subseteq {r.url : r \in db.rows}
    BY <1>2
  <2>3. IsFiniteSet(U)
    BY <2>1, <2>2, FS_Subset
  <2> DEFINE f == [u \in U |-> m(u)]
  <2>4. DOMAIN f = U /\ f = [x \in DOMAIN f |-> f[x]]
    OBVIOUS
  <2>5. IsFiniteSet({f[x] : x \in DOMAIN f})
    <3> HIDE DEF f
    <3> QED BY <2>3, <2>4, ImageFinite
  <2> HIDE DEF R
  <2> QED BY <1>1, <2>5
<1> HIDE DEF R
<1>8. RoutesTo(R)
  <2>1. \A x \in R : \E u \in U : x = m(u)
    BY <1>1
  <2>2. ASSUME NEW x \in R
        PROVE  /\ x = Route(x.url, x.streams)
               /\ Scheduled(x.streams) /\ x.streams # {} /\ IsFiniteSet(x.streams)
    BY <1>4, <1>5, <1>6, <2>1
  <2>3. \A x, y \in R : x.url = y.url => x = y
    BY <1>5, <2>1
  <2> QED BY <1>7, <2>2, <2>3 DEF RoutesTo
<1>9. cut # {} => R # {}
  BY <1>1 DEF U
<1>10. \A u, s, t : Serves(cut, u, s, t) => u \in U
  BY DEF Serves, U
<1>11. ASSUME NEW u, NEW s, NEW t \in Nat, Serves(cut, u, s, t)
       PROVE  \E x \in R : x.url = u /\ During(x.streams, s, t)
  <2>1. u \in U
    BY <1>10, <1>11
  <2>2. m(u) \in R
    BY <1>1, <2>1
  <2> QED BY <1>4, <1>5, <1>11, <2>1, <2>2
<1>12. ASSUME NEW x \in R
       PROVE  /\ \A e \in x.streams : /\ Serves(cut, x.url, e.stream, e.start)
                                       /\ Serves(cut, x.url, e.stream, e.end - 1)
              /\ ~Reduces => \A s : \A t \in Nat : During(x.streams, s, t) => Serves(cut, x.url, s, t)
  <2>1. PICK u \in U : x = m(u)
    BY <1>1
  <2> QED BY <1>4, <1>5, <2>1
<1> QED BY <1>8, <1>9, <1>11, <1>12 DEF R


\* The answer of StationLite to the request.
Answer == MergedRoutes(found, Ask.level)

FoundFor(d) == found = CutRoutes(db, Ask, Now + d)

LEMMA AnswerServes ==
    ASSUME TakenRequest, NEW d \in Nat, FoundFor(d)
    PROVE  /\ RoutesTo(Answer)
           /\ found # {} => Answer # {}
           /\ \A u, s : \A t \in 1 .. Now - 1 :
                 Served(u, s, t) => \E m \in Answer : m.url = u /\ During(m.streams, s, t)
           /\ \A m \in Answer : \A e \in m.streams :
                 e.start < Now => Served(m.url, e.stream, e.start)
           /\ ~Reduces => \A m \in Answer : \A s : \A t \in 1 .. Now - 1 :
                 During(m.streams, s, t) => Served(m.url, s, t)
<1>1. RouteSet(found) /\ \A u, s : \A t \in 1 .. Now - 1 : Serves(found, u, s, t) <=> Served(u, s, t)
  BY CutFound DEF FoundFor
<1>2. /\ RoutesTo(Answer)
      /\ found # {} => Answer # {}
      /\ \A u, s : \A t \in Nat :
            Serves(found, u, s, t) => \E m \in Answer : m.url = u /\ During(m.streams, s, t)
      /\ \A m \in Answer : \A e \in m.streams : Serves(found, m.url, e.stream, e.start)
      /\ ~Reduces => \A m \in Answer : \A s : \A t \in Nat :
            During(m.streams, s, t) => Serves(found, m.url, s, t)
  BY <1>1, MergedRoutesHold DEF Answer
<1>3. \A t \in 1 .. Now - 1 : t \in Nat
  BY NowType
<1>4. ASSUME NEW m \in Answer, NEW e \in m.streams, e.start < Now
      PROVE  Served(m.url, e.stream, e.start)
  <2>1. e.start \in 1 .. Now - 1
    BY <1>2, <1>4, NowType DEF RoutesTo, Scheduled, Clock
  <2> QED BY <1>1, <1>2, <2>1
<1> QED BY <1>1, <1>2, <1>3, <1>4

\* A POST request asks for no stream until the end of time.
LEMMA PostEnds ==
    ASSUME TakenRequest, NEW d \in Nat, FoundFor(d), request.method = "POST",
           NEW m \in Answer, NEW e \in m.streams
    PROVE  e.end # EndOfTime
<1> SUFFICES ASSUME e.end = EndOfTime PROVE FALSE
  OBVIOUS
<1> DEFINE t == EndOfTime - 1
           Q == Queried(db, Ask, Now + d)
           Cut(x) == {[r EXCEPT !.streams = Modified(@, x.start, x.end)] : r \in FindRoutes(db, x, Ask)}
<1>1. t \in Times /\ t \in Nat
  BY NowType DEF Times
<1>2. Serves(found, m.url, e.stream, t)
  BY CutFound, MergedRoutesHold DEF FoundFor, Answer
<1>3. Q \subseteq QueryEpoch /\ found = UNION {Cut(x) : x \in Q}
  BY QueriedNames DEF FoundFor, CutRoutes
<1>4. PICK x \in Q : Serves(Cut(x), m.url, e.stream, t)
  BY <1>2, <1>3 DEF Serves
<1>5. Serves(FindRoutes(db, x, Ask), m.url, e.stream, t)
  BY <1>1, <1>3, <1>4, CutForEpoch
<1>6. PICK r \in db.rows : Within(t, x.start, x.end) /\ Matches(x.stream, r.stream)
  BY <1>1, <1>3, <1>5, FoundForEpoch
<1>7. r.stream \in CodeStream
  BY DEF TakenRequest, Database, Row
<1>8. PICK se \in RoutingLoaded(Ask, Now + d) : x = se \/ x \in ResolveVnetwork(db, se)
  BY DEF Queried
<1>9. se \in PostLine /\ se.end # None
  <2>1. PICK se0 \in Epochs(Ask) : se = Reset(se0, Ask.method, FALSE, Now + d)
    BY <1>8 DEF RoutingLoaded
  <2>2. se0 \in epochs /\ Ask.method = "POST"
    BY <2>1, AskEpochs
  <2>3. se = se0
    BY <2>1, <2>2 DEF Reset
  <2>4. PICK se1 \in Epochs(request) : se0 = Reset(se1, request.method, request.service = "wfcatalog", Now)
    BY <2>2 DEF TakenRequest, Loaded
  <2>5. se0 = se1
    BY <2>4 DEF Reset
  <2>6. se1.end # None
    BY <2>4 DEF Epochs, FromPostfile
  <2> QED BY <2>2, <2>3, <2>5, <2>6, LoadedType
<1>10. ~Within(t, se.start, se.end)
  BY <1>9, NowType DEF Within, PostLine, TimesOrNone, Times
<1>11. x # se
  BY <1>6, <1>10
<1>12. Within(t, se.start, se.end)
  BY <1>1, <1>6, <1>7, <1>8, <1>9, <1>11, VirtualEpochs DEF TakenRequest
<1> QED BY <1>10, <1>12


-----------------------------------------------------------------------------
(* Sequences.  A sequence lists a set if it holds its elements, each once. *)

Lists(s, S) ==
    /\ s \in Seq(S)
    /\ \A i, j \in DOMAIN s : s[i] = s[j] => i = j
    /\ \A x \in S : \E i \in DOMAIN s : x = s[i]

LEMMA SeqFacts ==
    ASSUME NEW S, NEW s \in Seq(S)
    PROVE  Len(s) \in Nat /\ DOMAIN s = 1 .. Len(s) /\ \A i \in 1 .. Len(s) : s[i] \in S
BY LenProperties, ElementOfSeq

LEMMA ListFacts ==
    ASSUME NEW s, NEW S, Lists(s, S)
    PROVE  /\ Len(s) \in Nat /\ DOMAIN s = 1 .. Len(s) /\ s \in Seq(S)
           /\ \A i \in DOMAIN s : s[i] \in S
           /\ \A i, j \in DOMAIN s : s[i] = s[j] => i = j
           /\ \A x \in S : \E i \in DOMAIN s : x = s[i]
           /\ S = ToSet(s)
           /\ s = <<>> <=> S = {}
<1>1. /\ s \in Seq(S) /\ \A i, j \in DOMAIN s : s[i] = s[j] => i = j
      /\ \A x \in S : \E i \in DOMAIN s : x = s[i]
  BY DEF Lists
<1>2. Len(s) \in Nat /\ DOMAIN s = 1 .. Len(s) /\ \A i \in DOMAIN s : s[i] \in S
  BY <1>1, SeqFacts
<1>3. S = ToSet(s)
  BY <1>1, <1>2 DEF ToSet
<1>4. s = <<>> <=> S = {}
  <2>1. ASSUME s = <<>> PROVE S = {}
    BY <1>1, <2>1
  <2>2. ASSUME S = {} PROVE s = <<>>
    BY <1>1, <1>2, <2>2, EmptySeq
  <2> QED BY <2>1, <2>2
<1> QED BY <1>1, <1>2, <1>3, <1>4

LEMMA SetToSeqLists ==
    ASSUME NEW S, IsFiniteSet(S)
    PROVE  Lists(SetToSeq(S), S) /\ Len(SetToSeq(S)) = Cardinality(S)
<1> DEFINE n == Cardinality(S)
           f == SetToSeq(S)
<1>1. n \in Nat /\ ExistsBijection(1 .. n, S)
  BY FS_CardinalityType
<1>2. PICK g \in [1 .. n -> S] : IsInjective(g)
  BY <1>1 DEF ExistsBijection, Bijection, Injection
<1>3. f \in [1 .. n -> S] /\ IsInjective(f)
  BY <1>2 DEF SetToSeq
<1>4. f \in Injection(1 .. n, S)
  BY <1>3 DEF Injection
<1>5. f \in Surjection(1 .. n, S)
  <2>1. IsFiniteSet(1 .. n) /\ Cardinality(1 .. n) = n
    BY <1>1, FS_Interval
  <2> HIDE DEF f
  <2> QED BY <1>4, <2>1, FS_Injection
<1>6. f \in Seq(S) /\ Len(f) = n /\ DOMAIN f = 1 .. n
  <2> HIDE DEF f
  <2>1. f \in Seq(S)
    BY <1>1, <1>3
  <2>2. DOMAIN f = 1 .. n
    BY <1>3
  <2> QED BY <1>1, <2>1, <2>2, LenProperties
<1>7. \A x \in S : \E i \in DOMAIN f : x = f[i]
  BY <1>5, <1>6 DEF Surjection
<1>8. \A i, j \in DOMAIN f : f[i] = f[j] => i = j
  BY <1>3 DEF IsInjective
<1> HIDE DEF f
<1>9. Lists(f, S) /\ Len(f) = n
  BY <1>6, <1>7, <1>8 DEF Lists
<1> QED BY <1>9 DEF f, n


LEMMA PickedLists ==
    ASSUME NEW s, NEW S, Lists(s, S), NEW places \in SUBSET DOMAIN s
    PROVE  Lists(Picked(s, places), {s[i] : i \in places})
<1> DEFINE p == SetToSeq(places)
           q == Picked(s, places)
           T == {s[i] : i \in places}
<1>1. Len(s) \in Nat /\ DOMAIN s = 1 .. Len(s) /\ \A i, j \in DOMAIN s : s[i] = s[j] => i = j
  BY ListFacts
<1>2. IsFiniteSet(places)
  <2>1. IsFiniteSet(1 .. Len(s))
    BY <1>1, FS_Interval
  <2> QED BY <1>1, <2>1, FS_Subset
<1>3. Lists(p, places)
  BY <1>2, SetToSeqLists
<1>4. q = [i \in DOMAIN p |-> s[p[i]]]
  BY DEF Picked
<1> HIDE DEF p, q
<1>5. /\ Len(p) \in Nat /\ DOMAIN p = 1 .. Len(p)
      /\ \A i \in DOMAIN p : p[i] \in places
      /\ \A i, j \in DOMAIN p : p[i] = p[j] => i = j
      /\ \A x \in places : \E i \in DOMAIN p : x = p[i]
  BY <1>3, ListFacts
<1>6. q \in [1 .. Len(p) -> T]
  BY <1>4, <1>5
<1>7. q \in Seq(T)
  BY <1>5, <1>6
<1>8. ASSUME NEW i \in DOMAIN q, NEW j \in DOMAIN q, q[i] = q[j]
      PROVE  i = j
  <2>1. i \in DOMAIN p /\ j \in DOMAIN p /\ q[i] = s[p[i]] /\ q[j] = s[p[j]]
    BY <1>4
  <2>2. p[i] = p[j]
    BY <1>1, <1>5, <1>8, <2>1
  <2> QED BY <1>5, <2>1, <2>2
<1>9. \A x \in T : \E i \in DOMAIN q : x = q[i]
  BY <1>4, <1>5
<1> HIDE DEF T
<1>10. Lists(q, T)
  BY <1>7, <1>8, <1>9 DEF Lists
<1> QED BY <1>10 DEF q, T

LEMMA ConcatLists ==
    ASSUME NEW a, NEW b, NEW S, NEW T, Lists(a, S), Lists(b, T), S \cap T = {}
    PROVE  Lists(a \o b, S \cup T)
<1> DEFINE c == a \o b
<1>1. /\ a \in Seq(S) /\ Len(a) \in Nat /\ DOMAIN a = 1 .. Len(a) /\ \A i \in DOMAIN a : a[i] \in S
      /\ \A i, j \in DOMAIN a : a[i] = a[j] => i = j
      /\ \A x \in S : \E i \in DOMAIN a : x = a[i]
  BY ListFacts
<1>2. /\ b \in Seq(T) /\ Len(b) \in Nat /\ DOMAIN b = 1 .. Len(b) /\ \A i \in DOMAIN b : b[i] \in T
      /\ \A i, j \in DOMAIN b : b[i] = b[j] => i = j
      /\ \A x \in T : \E i \in DOMAIN b : x = b[i]
  BY ListFacts
<1>3. a \in Seq(S \cup T) /\ b \in Seq(S \cup T)
  BY <1>1, <1>2
<1>4. c \in Seq(S \cup T) /\ Len(c) = Len(a) + Len(b) /\ DOMAIN c = 1 .. Len(a) + Len(b)
  BY <1>1, <1>2, <1>3, ConcatProperties, SeqFacts
<1>5. /\ \A i \in 1 .. Len(a) : c[i] = a[i]
      /\ \A i \in Len(a) + 1 .. Len(a) + Len(b) : c[i] = b[i - Len(a)]
  BY <1>1, <1>2, <1>3, ConcatProperties
<1> HIDE DEF c
<1>8. ASSUME NEW i \in DOMAIN c, i \notin 1 .. Len(a)
      PROVE  /\ i \in Nat /\ i - Len(a) \in DOMAIN b /\ c[i] = b[i - Len(a)]
  <2>1. i \in Len(a) + 1 .. Len(a) + Len(b) /\ i \in Nat /\ i - Len(a) \in 1 .. Len(b)
    BY <1>1, <1>2, <1>4, <1>8
  <2> QED BY <1>2, <1>5, <2>1
<1>6. ASSUME NEW i \in DOMAIN c, NEW j \in DOMAIN c, c[i] = c[j]
      PROVE  i = j
  <2>1. CASE i \in 1 .. Len(a) /\ j \in 1 .. Len(a)
    BY <1>1, <1>5, <1>6, <2>1
  <2>2. CASE i \notin 1 .. Len(a) /\ j \notin 1 .. Len(a)
    <3>1. /\ i - Len(a) \in DOMAIN b /\ j - Len(a) \in DOMAIN b
          /\ c[i] = b[i - Len(a)] /\ c[j] = b[j - Len(a)] /\ i \in Nat /\ j \in Nat
      BY <1>8, <2>2
    <3>2. i - Len(a) = j - Len(a)
      BY <1>2, <1>6, <3>1
    <3> QED BY <1>1, <3>1, <3>2
  <2>3. CASE i \in 1 .. Len(a) /\ j \notin 1 .. Len(a)
    <3>1. c[i] \in S
      BY <1>1, <1>5, <2>3
    <3>2. j - Len(a) \in DOMAIN b /\ c[j] = b[j - Len(a)]
      BY <1>8, <2>3
    <3> QED BY <1>2, <1>6, <3>1, <3>2
  <2>4. CASE i \notin 1 .. Len(a) /\ j \in 1 .. Len(a)
    <3>1. c[j] \in S
      BY <1>1, <1>5, <2>4
    <3>2. i - Len(a) \in DOMAIN b /\ c[i] = b[i - Len(a)]
      BY <1>8, <2>4
    <3> QED BY <1>2, <1>6, <3>1, <3>2
  <2> QED BY <2>1, <2>2, <2>3, <2>4
<1>7. ASSUME NEW x \in S \cup T
      PROVE  \E i \in DOMAIN c : x = c[i]
  <2>1. CASE x \in S
    <3>1. PICK i \in DOMAIN a : x = a[i]
      BY <1>1, <2>1
    <3> QED BY <1>1, <1>2, <1>4, <1>5, <3>1
  <2>2. CASE x \in T
    <3>1. PICK i \in DOMAIN b : x = b[i]
      BY <1>2, <2>2
    <3>2. i + Len(a) \in DOMAIN c /\ i + Len(a) \in Len(a) + 1 .. Len(a) + Len(b)
          /\ (i + Len(a)) - Len(a) = i
      BY <1>1, <1>2, <1>4
    <3>3. c[i + Len(a)] = b[i]
      BY <1>5, <3>2
    <3> QED BY <3>1, <3>2, <3>3
  <2> QED BY <2>1, <2>2
<1> QED BY <1>4, <1>6, <1>7 DEF Lists, c

\* Functions defined by a step from each number to the next exist.
StepByStep(f, n, b, step) == f[0] = b /\ \A k \in 1 .. n : f[k] = step[k][f[k - 1]]

LEMMA Recursion ==
    ASSUME NEW n \in Nat, NEW V, NEW b \in V, NEW step \in [1 .. n -> [V -> V]]
    PROVE  \E f \in [0 .. n -> V] : StepByStep(f, n, b, step)
<1> DEFINE Up(m) == \E f \in [0 .. m -> V] : f[0] = b /\ \A k \in 1 .. m : f[k] = step[k][f[k - 1]]
           P == {m \in 0 .. n : Up(m)}
<1>1. 0 \in P
  <2> DEFINE f == [i \in 0 .. 0 |-> b]
  <2>1. f \in [0 .. 0 -> V] /\ f[0] = b
    OBVIOUS
  <2>2. \A k \in 1 .. 0 : f[k] = step[k][f[k - 1]]
    OBVIOUS
  <2> HIDE DEF f
  <2>3. Up(0)
    BY <2>1, <2>2
  <2> QED BY <2>3
<1>2. ASSUME NEW m \in 1 .. n, m - 1 \in P
      PROVE  m \in P
  <2>1. PICK f \in [0 .. m - 1 -> V] : f[0] = b /\ \A k \in 1 .. m - 1 : f[k] = step[k][f[k - 1]]
    BY <1>2
  <2>2. f[m - 1] \in V
    OBVIOUS
  <2> DEFINE g == [i \in 0 .. m |-> IF i = m THEN step[m][f[m - 1]] ELSE f[i]]
  <2>3. step[m][f[m - 1]] \in V
    BY <2>2
  <2>4. g \in [0 .. m -> V]
    BY <2>3
  <2>5. \A i \in 0 .. m - 1 : g[i] = f[i]
    OBVIOUS
  <2>6. g[m] = step[m][g[m - 1]]
    <3>1. g[m - 1] = f[m - 1] /\ g[m] = step[m][f[m - 1]]
      OBVIOUS
    <3> QED BY <3>1
  <2> HIDE DEF g
  <2>7. g[0] = b /\ \A k \in 1 .. m : g[k] = step[k][g[k - 1]]
    <3>1. 0 \in 0 .. m - 1
      OBVIOUS
    <3>2. \A k \in 1 .. m - 1 : g[k] = step[k][g[k - 1]]
      BY <2>1, <2>5
    <3> QED BY <2>1, <2>5, <2>6, <3>1, <3>2
  <2>8. Up(m)
    BY <2>4, <2>7
  <2>9. m \in 0 .. n
    OBVIOUS
  <2> HIDE DEF Up
  <2> QED BY <2>8, <2>9
<1> HIDE DEF P
<1>3. \A m \in 0 .. n : m \in P
  BY <1>1, <1>2, Induction
<1>4. n \in P
  BY <1>3
<1> QED BY <1>4 DEF P, StepByStep


LEMMA FlattenLists ==
    ASSUME NEW V, NEW ss \in Seq(V), NEW F,
           \A i \in 1 .. Len(ss) : Lists(ss[i], F[i]),
           \A i, j \in 1 .. Len(ss) : i # j => F[i] \cap F[j] = {}
    PROVE  Lists(FlattenSeq(ss), UNION {F[i] : i \in 1 .. Len(ss)})
<1> DEFINE n == Len(ss)
           U(k) == UNION {F[i] : i \in 1 .. k}
<1>1. n \in Nat
  BY SeqFacts
<1>2. CASE n = 0
  <2>1. ss = <<>>
    BY <1>2, EmptySeq
  <2>2. FlattenSeq(ss) = <<>>
    BY <1>2, <2>1 DEF FlattenSeq
  <2>3. U(n) = {}
    BY <1>2
  <2>4. <<>> \in Seq({}) /\ DOMAIN <<>> = {}
    BY EmptySeq
  <2>5. Lists(<<>>, {})
    BY <2>4 DEF Lists
  <2> QED BY <2>2, <2>3, <2>5
<1>3. CASE n # 0
  <2> DEFINE S == U(n)
             step == [k \in 1 .. n |-> [x \in Seq(S) |-> x \o ss[k]]]
             Eq(g) == g = [i \in 1 .. n |-> IF i = 1 THEN ss[i] ELSE g[i - 1] \o ss[i]]
             G == CHOOSE g : Eq(g)
  <2>1. FlattenSeq(ss) = G[n]
    BY <1>3 DEF FlattenSeq
  <2>2. \A i \in 1 .. n : ss[i] \in Seq(S)
    <3> SUFFICES ASSUME NEW i \in 1 .. n PROVE ss[i] \in Seq(S)
      OBVIOUS
    <3>1. F[i] \subseteq S
      OBVIOUS
    <3> HIDE DEF S
    <3> QED BY <3>1, ListFacts, SeqMonotonic
  <2> HIDE DEF S, G
  <2>3. PICK f \in [0 .. n -> Seq(S)] : f[0] = <<>> /\ \A k \in 1 .. n : f[k] = step[k][f[k - 1]]
    <3>1. step \in [1 .. n -> [Seq(S) -> Seq(S)]]
      <4>1. \A k \in 1 .. n : \A x \in Seq(S) : x \o ss[k] \in Seq(S)
        BY <2>2, ConcatProperties
      <4> QED BY <4>1
    <3>2. <<>> \in Seq(S)
      OBVIOUS
    <3> DEFINE W == Seq(S)
               b == <<>>
    <3>3. \E f \in [0 .. n -> W] : StepByStep(f, n, b, step)
      <4>1. n \in Nat /\ b \in W /\ step \in [1 .. n -> [W -> W]]
        BY <1>1, <3>1, <3>2
      <4> HIDE DEF step, n, W, b
      <4> QED BY <4>1, Recursion
    <3> HIDE DEF step
    <3> QED BY <3>3 DEF StepByStep
  <2>4. \A k \in 1 .. n : f[k] = f[k - 1] \o ss[k]
    <3> SUFFICES ASSUME NEW k \in 1 .. n PROVE f[k] = f[k - 1] \o ss[k]
      OBVIOUS
    <3>1. f[k - 1] \in Seq(S)
      BY <1>1
    <3> QED BY <2>3, <3>1
  <2>5. \E g : Eq(g)
    <3> DEFINE w == [i \in 1 .. n |-> f[i]]
    <3>1. f[1] = ss[1]
      <4>1. 1 \in 1 .. n
        BY <1>1, <1>3
      <4>2. f[1] = f[1 - 1] \o ss[1] /\ 1 - 1 = 0
        BY <2>4, <4>1
      <4>3. f[1] = <<>> \o ss[1]
        BY <2>3, <4>2
      <4> QED BY <2>2, <4>1, <4>3, ConcatEmptySeq
    <3>2. \A i \in 1 .. n : w[i] = IF i = 1 THEN ss[i] ELSE w[i - 1] \o ss[i]
      <4> SUFFICES ASSUME NEW i \in 1 .. n
                   PROVE  w[i] = IF i = 1 THEN ss[i] ELSE w[i - 1] \o ss[i]
        OBVIOUS
      <4>1. CASE i = 1
        BY <3>1, <4>1
      <4>2. CASE i # 1
        <5>1. i - 1 \in 1 .. n
          BY <1>1, <4>2
        <5> QED BY <2>4, <4>2, <5>1
      <4> QED BY <4>1, <4>2
    <3>3. Eq(w)
      BY <3>2
    <3> QED BY <3>3
  <2>6. Eq(G)
    BY <2>5 DEF G
  <2>7. G[1] = ss[1] /\ \A k \in 2 .. n : G[k] = G[k - 1] \o ss[k]
    <3>1. 1 \in 1 .. n /\ \A k \in 2 .. n : k \in 1 .. n /\ k # 1
      BY <1>1, <1>3
    <3> QED BY <2>6, <3>1
  <2> DEFINE P == {k \in 0 .. n : k = 0 \/ Lists(G[k], U(k))}
  <2>8. ASSUME NEW k \in 1 .. n, k - 1 \in P
        PROVE  k \in P
    <3>1. CASE k = 1
      <4>1. U(1) = F[1]
        OBVIOUS
      <4> HIDE DEF U
      <4> QED BY <2>7, <3>1, <4>1
    <3>2. CASE k # 1
      <4>1. Lists(G[k - 1], U(k - 1)) /\ Lists(ss[k], F[k])
        BY <1>1, <2>8, <3>2
      <4>2. U(k - 1) \cap F[k] = {}
        BY <1>1
      <4>3. U(k) = U(k - 1) \cup F[k]
        <5>1. 1 .. k = (1 .. k - 1) \cup {k}
          BY <1>1
        <5> QED BY <5>1
      <4>4. G[k] = G[k - 1] \o ss[k]
        <5>1. k \in 2 .. n
          BY <1>1, <3>2
        <5> QED BY <2>7, <5>1
      <4> HIDE DEF U
      <4>5. Lists(G[k - 1] \o ss[k], U(k - 1) \cup F[k])
        BY <4>1, <4>2, ConcatLists
      <4>6. Lists(G[k], U(k))
        BY <4>3, <4>4, <4>5
      <4>7. k \in 0 .. n
        BY <1>1
      <4> QED BY <4>6, <4>7
    <3> QED BY <3>1, <3>2
  <2>9. 0 \in P
    BY <1>1
  <2> HIDE DEF P
  <2>10. \A k \in 0 .. n : k \in P
    BY <1>1, <2>8, <2>9, Induction
  <2>11. n \in P
    BY <1>1, <2>10
  <2>12. Lists(G[n], U(n))
    BY <1>3, <2>11 DEF P
  <2> QED BY <2>1, <2>12
<1> QED BY <1>2, <1>3


-----------------------------------------------------------------------------
(* The text of the answer. *)

Rs == SetToSeq(Answer)

EpochLines(m) == SetToSeq({EpochLine(se) : se \in m.streams})

LineSet ==
    {UrlLine(m.url) : m \in Answer} \cup {Blank}
        \cup UNION {{EpochLine(se) : se \in m.streams} : m \in Answer}

\* An epoch as the strategy reads it.
Read(se) == EpochLine(se).epoch

LEMMA ReadBack ==
    ASSUME TakenRequest, NEW d \in Nat, FoundFor(d), NEW m \in Answer, NEW se \in m.streams
    PROVE  /\ FromLine(EpochLine(se)) = Read(se)
           /\ Read(se) = StreamEpoch(se.stream, se.start, Read(se).end)
           /\ Read(se).stream = se.stream /\ Read(se).start = se.start
           /\ NoneAsMax(Read(se).end) = se.end
           /\ Read(se).end = None <=> se.end = EndOfTime
           /\ Read(se).end = None \/ Read(se).end = se.end
<1>1. /\ se = StreamEpoch(se.stream, se.start, se.end)
      /\ se.end \in Clock
  BY AnswerServes DEF RoutesTo, Scheduled
<1>2. se = [stream |-> se.stream, start |-> se.start, end |-> se.end]
  BY <1>1 DEF StreamEpoch
<1>3. request.method = "POST" => se.end # EndOfTime
  BY PostEnds
<1> DEFINE e == IF se.end = EndOfTime THEN [se EXCEPT !.end = None] ELSE se
<1>4. /\ e = [stream |-> se.stream, start |-> se.start,
              end |-> IF se.end = EndOfTime THEN None ELSE se.end]
  BY <1>2
<1>5. EpochLine(se).epoch = e
  BY DEF EpochLine
<1>6. se.end # None /\ EndOfTime # None
  BY <1>1, NowType DEF Clock, None
<1> HIDE DEF e
<1>7. FromLine(EpochLine(se)) = [e EXCEPT !.end = e.end]
  BY <1>3, <1>4, <1>5, <1>6 DEF FromLine
<1>8. Read(se) = [stream |-> se.stream, start |-> se.start,
                  end |-> IF se.end = EndOfTime THEN None ELSE se.end]
  BY <1>4, <1>5 DEF Read
<1>9. FromLine(EpochLine(se)) = Read(se)
  BY <1>4, <1>7, <1>8
<1> QED BY <1>6, <1>8, <1>9 DEF StreamEpoch, NoneAsMax

LEMMA EpochLinesList ==
    ASSUME TakenRequest, NEW d \in Nat, FoundFor(d), NEW m \in Answer
    PROVE  /\ Lists(EpochLines(m), {EpochLine(se) : se \in m.streams})
           /\ EpochLines(m) # <<>>
           /\ \A se, sf \in m.streams : EpochLine(se) = EpochLine(sf) => se = sf
           /\ \A se, sf \in m.streams : Read(se) = Read(sf) => se = sf
<1>1. IsFiniteSet(m.streams) /\ m.streams # {} /\ Scheduled(m.streams)
  BY AnswerServes DEF RoutesTo
<1> DEFINE f == [se \in m.streams |-> EpochLine(se)]
           S == {EpochLine(se) : se \in m.streams}
<1>2. DOMAIN f = m.streams /\ f = [x \in DOMAIN f |-> f[x]]
  OBVIOUS
<1>3. {f[x] : x \in DOMAIN f} = S
  OBVIOUS
<1> HIDE DEF f
<1>4. IsFiniteSet(S)
  <2>1. IsFiniteSet({f[x] : x \in DOMAIN f})
    BY <1>1, <1>2, ImageFinite
  <2> QED BY <1>3, <2>1
<1>5. S # {}
  BY <1>1
<1>6. Lists(EpochLines(m), S)
  <2>1. EpochLines(m) = SetToSeq(S)
    BY DEF EpochLines
  <2> HIDE DEF S
  <2> QED BY <1>4, <2>1, SetToSeqLists
<1>7. EpochLines(m) # <<>>
  <2> HIDE DEF S
  <2> QED BY <1>5, <1>6, ListFacts
<1>8. ASSUME NEW se \in m.streams, NEW sf \in m.streams, Read(se) = Read(sf)
      PROVE  se = sf
  <2>1. se = StreamEpoch(se.stream, se.start, se.end) /\ sf = StreamEpoch(sf.stream, sf.start, sf.end)
    BY <1>1 DEF Scheduled
  <2>2. se.stream = sf.stream /\ se.start = sf.start /\ se.end = sf.end
    BY <1>8, ReadBack
  <2> QED BY <2>1, <2>2
<1>9. \A se, sf \in m.streams : EpochLine(se) = EpochLine(sf) => Read(se) = Read(sf)
  BY DEF Read
<1> QED BY <1>6, <1>7, <1>8, <1>9

LEMMA RsList ==
    ASSUME TakenRequest, NEW d \in Nat, FoundFor(d), found # {}
    PROVE  /\ Lists(Rs, Answer)
           /\ Len(Rs) \in Nat /\ Len(Rs) >= 1 /\ DOMAIN Rs = 1 .. Len(Rs)
           /\ \A k \in 1 .. Len(Rs) : Rs[k] \in Answer
           /\ \A m \in Answer : \E k \in 1 .. Len(Rs) : m = Rs[k]
           /\ \A i, j \in 1 .. Len(Rs) : Rs[i].url = Rs[j].url => i = j
           /\ \A k \in 1 .. Len(Rs) : /\ Block(Rs[k]) = <<UrlLine(Rs[k].url)>> \o EpochLines(Rs[k])
                                      /\ Block(Rs[k]) \in Seq(LineSet)
                                      /\ EpochLines(Rs[k]) \in Seq(LineSet)
                                      /\ UrlLine(Rs[k].url) \in LineSet
           /\ Blank \in LineSet
<1>1. IsFiniteSet(Answer) /\ Answer # {} /\ \A m, n \in Answer : m.url = n.url => m = n
  BY AnswerServes DEF RoutesTo
<1>2. Lists(Rs, Answer)
  BY <1>1, SetToSeqLists DEF Rs
<1>3. /\ Len(Rs) \in Nat /\ DOMAIN Rs = 1 .. Len(Rs) /\ Rs # <<>> /\ Rs \in Seq(Answer)
      /\ \A k \in 1 .. Len(Rs) : Rs[k] \in Answer
      /\ \A m \in Answer : \E k \in 1 .. Len(Rs) : m = Rs[k]
      /\ \A i, j \in 1 .. Len(Rs) : Rs[i] = Rs[j] => i = j
  BY <1>1, <1>2, ListFacts
<1>4. Len(Rs) # 0
  BY <1>3, EmptySeq
<1>5. \A i, j \in 1 .. Len(Rs) : Rs[i].url = Rs[j].url => i = j
  BY <1>1, <1>3
<1>6. ASSUME NEW k \in 1 .. Len(Rs)
      PROVE  /\ Block(Rs[k]) = <<UrlLine(Rs[k].url)>> \o EpochLines(Rs[k])
             /\ Block(Rs[k]) \in Seq(LineSet)
             /\ EpochLines(Rs[k]) \in Seq(LineSet)
             /\ UrlLine(Rs[k].url) \in LineSet
  <2> DEFINE S == {EpochLine(se) : se \in Rs[k].streams}
  <2>1. S \subseteq LineSet /\ UrlLine(Rs[k].url) \in LineSet
    BY <1>3 DEF LineSet
  <2>2. Lists(EpochLines(Rs[k]), S)
    BY <1>3, EpochLinesList
  <2> HIDE DEF S
  <2>3. EpochLines(Rs[k]) \in Seq(LineSet)
    BY <2>1, <2>2, ListFacts, SeqMonotonic
  <2>4. Block(Rs[k]) = <<UrlLine(Rs[k].url)>> \o EpochLines(Rs[k])
    BY DEF Block, EpochLines
  <2>5. <<UrlLine(Rs[k].url)>> \in Seq(LineSet)
    BY <2>1
  <2>6. Block(Rs[k]) \in Seq(LineSet)
    BY <2>3, <2>4, <2>5, ConcatProperties
  <2> QED BY <2>1, <2>3, <2>4, <2>6
<1>7. Blank \in LineSet
  BY DEF LineSet
<1> QED BY <1>2, <1>3, <1>4, <1>5, <1>6, <1>7


\* What follows each block.
RestFrom(X, rs, L) ==
    /\ X \in [0 .. Len(rs) -> Seq(L)]
    /\ X[Len(rs)] = <<>>
    /\ \A k \in 0 .. Len(rs) - 1 : X[k] = <<Blank>> \o (Block(rs[k + 1]) \o X[k + 1])

RestOf(rs, L) == CHOOSE X : RestFrom(X, rs, L)

Rest == RestOf(Rs, LineSet)

LEMMA RestIs ==
    ASSUME TakenRequest, NEW d \in Nat, FoundFor(d), found # {}
    PROVE  RestFrom(Rest, Rs, LineSet)
<1> DEFINE n == Len(Rs)
           W == Seq(LineSet)
           step == [k \in 1 .. n |-> [x \in W |-> <<Blank>> \o (Block(Rs[n - k + 1]) \o x)]]
           b == <<>>
<1>1. n \in Nat /\ n >= 1 /\ \A k \in 1 .. n : Block(Rs[k]) \in W
  BY RsList
<1>2. <<Blank>> \in W
  BY RsList
<1>3. \A k \in 1 .. n : n - k + 1 \in 1 .. n
  BY <1>1
<1>4. step \in [1 .. n -> [W -> W]]
  <2> SUFFICES ASSUME NEW k \in 1 .. n, NEW x \in W
               PROVE  <<Blank>> \o (Block(Rs[n - k + 1]) \o x) \in W
    OBVIOUS
  <2>1. Block(Rs[n - k + 1]) \in W
    BY <1>1, <1>3
  <2>2. Block(Rs[n - k + 1]) \o x \in W
    BY <2>1, ConcatProperties
  <2> QED BY <1>2, <2>2, ConcatProperties
<1>5. b \in W
  OBVIOUS
<1>6. \A k \in 1 .. n : \A x \in W : step[k][x] = <<Blank>> \o (Block(Rs[n - k + 1]) \o x)
  OBVIOUS
<1> HIDE DEF step, b, W, n
<1>7. PICK f \in [0 .. n -> W] : StepByStep(f, n, b, step)
  BY <1>1, <1>4, <1>5, Recursion
<1> DEFINE X == [k \in 0 .. n |-> f[n - k]]
<1>8. X \in [0 .. n -> W]
  <2>1. \A k \in 0 .. n : n - k \in 0 .. n
    BY <1>1
  <2> QED BY <2>1
<1>9. X[n] = <<>>
  <2>1. n \in 0 .. n /\ n - n = 0
    BY <1>1
  <2>2. f[0] = b
    BY <1>7 DEF StepByStep
  <2> QED BY <2>1, <2>2 DEF b
<1>10. ASSUME NEW k \in 0 .. n - 1
       PROVE  X[k] = <<Blank>> \o (Block(Rs[k + 1]) \o X[k + 1])
  <2>1. /\ n - k \in 1 .. n /\ k \in 0 .. n /\ k + 1 \in 0 .. n
        /\ (n - k) - 1 = n - (k + 1) /\ n - (n - k) + 1 = k + 1
    BY <1>1
  <2>2. f[n - k] = step[n - k][f[(n - k) - 1]]
    BY <1>7, <2>1 DEF StepByStep
  <2>3. X[k] = f[n - k] /\ X[k + 1] = f[n - (k + 1)]
    BY <2>1
  <2>4. X[k + 1] \in W
    BY <1>8, <2>1
  <2> HIDE DEF X
  <2>5. f[n - k] = step[n - k][X[k + 1]]
    BY <2>1, <2>2, <2>3
  <2>6. step[n - k][X[k + 1]] = <<Blank>> \o (Block(Rs[n - (n - k) + 1]) \o X[k + 1])
    BY <1>6, <2>1, <2>4
  <2> QED BY <2>1, <2>3, <2>5, <2>6
<1> HIDE DEF X
<1>11. RestFrom(X, Rs, LineSet)
  BY <1>8, <1>9, <1>10 DEF RestFrom, n, W
<1> QED BY <1>11 DEF Rest, RestOf

LEMMA LinesRest ==
    ASSUME TakenRequest, NEW d \in Nat, FoundFor(d), found # {}
    PROVE  Lines(Rs) = Block(Rs[1]) \o Rest[1]
<1> DEFINE n == Len(Rs)
           W == Seq(LineSet)
           Eq(g) == g = [k \in 1 .. n |-> IF k = 1 THEN Block(Rs[1]) ELSE Append(g[k - 1], Blank) \o Block(Rs[k])]
           Text == CHOOSE g : Eq(g)
           step == [k \in 1 .. n |-> [x \in W |-> IF k = 1 THEN Block(Rs[1]) ELSE Append(x, Blank) \o Block(Rs[k])]]
           b == <<>>
<1>1. n \in Nat /\ n >= 1 /\ (\A k \in 1 .. n : Block(Rs[k]) \in W) /\ Blank \in LineSet
  BY RsList
<1>2. RestFrom(Rest, Rs, LineSet)
  BY RestIs
<1>3. Lines(Rs) = Text[n]
  BY DEF Lines
<1>4. ASSUME NEW x \in W, NEW k \in 1 .. n
      PROVE  Append(x, Blank) \o Block(Rs[k]) \in W
  <2>1. Append(x, Blank) \in W
    BY <1>1
  <2> QED BY <1>1, <2>1, ConcatProperties
<1>5. 1 \in 1 .. n
  BY <1>1
<1>6. step \in [1 .. n -> [W -> W]]
  BY <1>1, <1>4, <1>5
<1>7. b \in W
  OBVIOUS
<1>8. \A k \in 1 .. n : \A x \in W :
         step[k][x] = IF k = 1 THEN Block(Rs[1]) ELSE Append(x, Blank) \o Block(Rs[k])
  OBVIOUS
<1> HIDE DEF step, b, W, n
<1>9. PICK f \in [0 .. n -> W] : StepByStep(f, n, b, step)
  BY <1>1, <1>6, <1>7, Recursion
<1>10. \A k \in 1 .. n : f[k] \in W /\ k - 1 \in 0 .. n
                         /\ f[k] = IF k = 1 THEN Block(Rs[1]) ELSE Append(f[k - 1], Blank) \o Block(Rs[k])
  <2> SUFFICES ASSUME NEW k \in 1 .. n
               PROVE  f[k] \in W /\ k - 1 \in 0 .. n
                      /\ f[k] = IF k = 1 THEN Block(Rs[1]) ELSE Append(f[k - 1], Blank) \o Block(Rs[k])
    OBVIOUS
  <2>1. k \in 0 .. n /\ k - 1 \in 0 .. n
    BY <1>1
  <2>2. f[k] = step[k][f[k - 1]]
    BY <1>9 DEF StepByStep
  <2>3. f[k - 1] \in W /\ f[k] \in W
    BY <2>1
  <2> QED BY <1>8, <2>1, <2>2, <2>3
<1>11. Eq(Text)
  <2> DEFINE w == [k \in 1 .. n |-> f[k]]
  <2>1. \A k \in 1 .. n : w[k] = IF k = 1 THEN Block(Rs[1]) ELSE Append(w[k - 1], Blank) \o Block(Rs[k])
    <3> SUFFICES ASSUME NEW k \in 1 .. n
                 PROVE  w[k] = IF k = 1 THEN Block(Rs[1]) ELSE Append(w[k - 1], Blank) \o Block(Rs[k])
      OBVIOUS
    <3>1. CASE k = 1
      BY <1>10, <3>1
    <3>2. CASE k # 1
      <4>1. k - 1 \in 1 .. n
        BY <1>1, <3>2
      <4> QED BY <1>10, <3>2, <4>1
    <3> QED BY <3>1, <3>2
  <2>2. Eq(w)
    BY <2>1
  <2> QED BY <2>2
<1> HIDE DEF Text
<1>12. Text[1] = Block(Rs[1]) /\ \A k \in 2 .. n : Text[k] = Append(Text[k - 1], Blank) \o Block(Rs[k])
  <2>1. \A k \in 2 .. n : k \in 1 .. n /\ k # 1
    BY <1>1
  <2> QED BY <1>5, <1>11, <2>1
<1> DEFINE P == {k \in 0 .. n : k = 0 \/ (Text[k] \in W /\ Text[k] \o Rest[k] = Text[1] \o Rest[1])}
<1>13. ASSUME NEW k \in 1 .. n, k - 1 \in P
       PROVE  k \in P
  <2>1. CASE k = 1
    <3>1. Text[1] \in W /\ 1 \in 0 .. n
      BY <1>1, <1>5, <1>12
    <3> QED BY <2>1, <3>1
  <2>2. CASE k # 1
    <3>1. k \in 2 .. n /\ k - 1 # 0 /\ k - 1 \in 1 .. n /\ k - 1 \in 0 .. n - 1 /\ (k - 1) + 1 = k /\ k \in 0 .. n
      BY <1>1, <2>2
    <3>2. Text[k - 1] \in W /\ Text[k - 1] \o Rest[k - 1] = Text[1] \o Rest[1]
      BY <1>13, <3>1
    <3>3. Rest[k - 1] = <<Blank>> \o (Block(Rs[k]) \o Rest[k])
      <4>1. Rest[k - 1] = <<Blank>> \o (Block(Rs[(k - 1) + 1]) \o Rest[(k - 1) + 1])
        BY <1>2, <3>1 DEF RestFrom, n
      <4> QED BY <3>1, <4>1
    <3>4. Text[k] = Append(Text[k - 1], Blank) \o Block(Rs[k])
      BY <1>12, <3>1
    <3>5. Rest[k] \in W /\ Block(Rs[k]) \in W /\ <<Blank>> \in W
      <4>1. Rest[k] \in W
        BY <1>2, <3>1 DEF RestFrom, n, W
      <4>2. <<Blank>> \in W
        BY <1>1 DEF W
      <4> QED BY <1>1, <4>1, <4>2
    <3>6. Text[k] \in W
      BY <1>4, <3>2, <3>4
    <3>7. Text[k] \o Rest[k] = Text[k - 1] \o Rest[k - 1]
      <4>1. Append(Text[k - 1], Blank) = Text[k - 1] \o <<Blank>>
        BY <1>1, <3>2, AppendIsConcat DEF W
      <4>2. ((Text[k - 1] \o <<Blank>>) \o Block(Rs[k])) \o Rest[k]
               = Text[k - 1] \o (<<Blank>> \o (Block(Rs[k]) \o Rest[k]))
        <5> DEFINE t == Text[k - 1]
                   bl == <<Blank>>
                   bk == Block(Rs[k])
                   re == Rest[k]
        <5>1. t \in Seq(LineSet) /\ bl \in Seq(LineSet) /\ bk \in Seq(LineSet) /\ re \in Seq(LineSet)
          BY <3>2, <3>5 DEF W
        <5> HIDE DEF t, bl, bk, re
        <5> DEFINE tb == t \o bl
                   br == bk \o re
        <5>2. tb \in Seq(LineSet) /\ br \in Seq(LineSet)
          BY <5>1, ConcatProperties
        <5>3. (t \o bl) \o br = t \o (bl \o br)
          <6> HIDE DEF br
          <6> QED BY <5>1, <5>2, ConcatAssociative, SMTT(30)
        <5> HIDE DEF tb
        <5>4. (tb \o bk) \o re = tb \o (bk \o re)
          BY <5>1, <5>2, ConcatAssociative, SMTT(30)
        <5> QED BY <5>3, <5>4 DEF t, bl, bk, re, tb, br
      <4> QED BY <3>3, <3>4, <4>1, <4>2
    <3> QED BY <3>1, <3>2, <3>6, <3>7
  <2> QED BY <2>1, <2>2
<1>14. 0 \in P
  BY <1>1
<1>15. n \in P
  <2>1. n \in 0 .. n
    BY <1>1
  <2> HIDE DEF P
  <2> QED BY <1>1, <1>13, <1>14, <2>1, Induction
<1>16. Text[n] \in W /\ Text[n] \o Rest[n] = Text[1] \o Rest[1] /\ Rest[n] = <<>>
  <2>1. n # 0
    BY <1>1
  <2>2. Rest[n] = <<>>
    BY <1>2 DEF RestFrom, n
  <2> QED BY <1>15, <2>1, <2>2
<1>17. Text[n] \o Rest[n] = Text[n]
  BY <1>16, ConcatEmptySeq DEF W
<1> QED BY <1>3, <1>12, <1>16, <1>17


LEMMA ConsFacts ==
    ASSUME NEW V, NEW x \in V, NEW z \in Seq(V)
    PROVE  /\ <<x>> \o z \in Seq(V) /\ <<x>> \o z # <<>>
           /\ Head(<<x>> \o z) = x /\ Tail(<<x>> \o z) = z
<1> DEFINE o == <<x>>
           l == o \o z
<1>1. o \in Seq(V) /\ Len(o) = 1 /\ o[1] = x
  OBVIOUS
<1>2. Len(z) \in Nat /\ DOMAIN z = 1 .. Len(z)
  BY SeqFacts
<1> HIDE DEF o
<1>3. /\ l \in Seq(V) /\ Len(l) = 1 + Len(z)
      /\ \A i \in 1 .. 1 + Len(z) : l[i] = IF i <= 1 THEN o[i] ELSE z[i - 1]
  <2>1. /\ l \in Seq(V) /\ Len(l) = Len(o) + Len(z)
        /\ \A i \in 1 .. Len(o) + Len(z) : l[i] = IF i <= Len(o) THEN o[i] ELSE z[i - Len(o)]
    BY <1>1, ConcatProperties
  <2> HIDE DEF l
  <2> QED BY <1>1, <2>1
<1> HIDE DEF l
<1>4. l # <<>>
  BY <1>2, <1>3, EmptySeq
<1>5. l[1] = x
  BY <1>1, <1>2, <1>3
<1>6. Head(l) = x
  BY <1>3, <1>4, <1>5
<1>7. /\ Tail(l) \in Seq(V) /\ Len(Tail(l)) = Len(z)
      /\ \A i \in 1 .. Len(Tail(l)) : Tail(l)[i] = l[i + 1]
  BY <1>2, <1>3, <1>4, HeadTailProperties
<1>8. \A i \in 1 .. Len(z) : Tail(l)[i] = z[i]
  <2> SUFFICES ASSUME NEW i \in 1 .. Len(z) PROVE Tail(l)[i] = z[i]
    OBVIOUS
  <2>1. i + 1 \in 1 .. 1 + Len(z) /\ ~(i + 1 <= 1) /\ (i + 1) - 1 = i
    BY <1>2
  <2>2. l[i + 1] = z[i]
    BY <1>3, <2>1
  <2> QED BY <1>7, <2>2
<1>9. Tail(l) = z
  BY <1>7, <1>8, SeqEqual
<1> QED BY <1>3, <1>4, <1>6, <1>9 DEF l, o

\* The rest of a sequence from a place.
From(s, j) == SubSeq(s, j, Len(s))

LEMMA FromFacts ==
    ASSUME NEW V, NEW s \in Seq(V), NEW j \in 1 .. Len(s) + 1
    PROVE  /\ From(s, j) \in Seq(V)
           /\ From(s, 1) = s
           /\ j = Len(s) + 1 => From(s, j) = <<>>
           /\ j # Len(s) + 1 => From(s, j) = <<s[j]>> \o From(s, j + 1)
<1>1. Len(s) \in Nat /\ \A i \in 1 .. Len(s) : s[i] \in V
  BY SeqFacts
<1>2. From(s, j) \in Seq(V)
  <2>1. j \in Int /\ Len(s) \in Int /\ \A i \in j .. Len(s) : s[i] \in V
    BY <1>1
  <2> QED BY <2>1, SubSeqProperties DEF From
<1>3. From(s, 1) = s
  BY SubSeqFull DEF From
<1>4. ASSUME j = Len(s) + 1 PROVE From(s, j) = <<>>
  <2>1. j \in Int /\ Len(s) \in Int /\ Len(s) < j
    BY <1>1, <1>4
  <2> QED BY <2>1, SubSeqEmpty DEF From
<1>5. ASSUME j # Len(s) + 1 PROVE From(s, j) = <<s[j]>> \o From(s, j + 1)
  <2>1. j \in 1 .. Len(s) /\ Len(s) \in j .. Len(s)
    BY <1>1, <1>5
  <2> QED BY <2>1, SubSeqRecursiveFirst DEF From
<1> QED BY <1>2, <1>3, <1>4, <1>5

LEMMA LineKinds ==
    /\ \A u : UrlLine(u) # NoLine /\ UrlLine(u).url = u /\ ~IsEmpty(UrlLine(u))
    /\ IsEmpty(Blank) /\ IsEmpty(Eof) /\ Blank # Eof
    /\ \A se : ~IsEmpty(EpochLine(se)) /\ EpochLine(se) # Eof
BY DEF UrlLine, NoLine, Blank, Eof, EpochLine, IsEmpty


\* The first line of the text from the start of a block, and of the text from
\* one of its epochs, or from its end.
LEMMA BlockText ==
    ASSUME TakenRequest, NEW d \in Nat, FoundFor(d), found # {}, NEW k \in 1 .. Len(Rs)
    PROVE  LET text == Block(Rs[k]) \o Rest[k]
               B == EpochLines(Rs[k])
           IN  /\ text # <<>> /\ Head(text) = UrlLine(Rs[k].url)
               /\ Tail(text) = From(B, 1) \o Rest[k]
<1> DEFINE B == EpochLines(Rs[k])
           u == UrlLine(Rs[k].url)
           z == B \o Rest[k]
           text == Block(Rs[k]) \o Rest[k]
<1>1. Block(Rs[k]) = <<u>> \o B /\ B \in Seq(LineSet) /\ u \in LineSet /\ Len(Rs) \in Nat
  BY RsList
<1>2. Rest[k] \in Seq(LineSet)
  <2>1. RestFrom(Rest, Rs, LineSet) /\ k \in 0 .. Len(Rs)
    BY <1>1, RestIs
  <2> QED BY <2>1 DEF RestFrom
<1>3. <<u>> \in Seq(LineSet) /\ z \in Seq(LineSet)
  BY <1>1, <1>2, ConcatProperties
<1>4. (<<u>> \o B) \o Rest[k] = <<u>> \o z
  <2> DEFINE o == <<u>>
             r == Rest[k]
  <2>1. o \in Seq(LineSet) /\ B \in Seq(LineSet) /\ r \in Seq(LineSet)
    BY <1>1, <1>2, <1>3
  <2> HIDE DEF o, B, r
  <2>2. (o \o B) \o r = o \o (B \o r)
    BY <2>1, ConcatAssociative, SMTT(30)
  <2> QED BY <2>2 DEF o, r
<1>5. From(B, 1) = B
  <2>1. 1 \in 1 .. Len(B) + 1
    BY <1>1, SeqFacts
  <2> HIDE DEF B
  <2> QED BY <1>1, <2>1, FromFacts
<1>6. text = <<u>> \o z
  BY <1>1, <1>4
<1>7. Tail(text) = B \o Rest[k]
  <2>1. Tail(<<u>> \o z) = z
    <3> HIDE DEF u, z
    <3> QED BY <1>1, <1>3, ConsFacts
  <2> HIDE DEF text
  <2> QED BY <1>6, <2>1
<1>8. text # <<>> /\ Head(text) = u
  <2> HIDE DEF u, z, text
  <2> QED BY <1>1, <1>3, <1>6, ConsFacts
<1> QED BY <1>5, <1>7, <1>8

LEMMA EpochText ==
    ASSUME TakenRequest, NEW d \in Nat, FoundFor(d), found # {}, NEW k \in 1 .. Len(Rs),
           NEW j \in 1 .. Len(EpochLines(Rs[k]))
    PROVE  LET B == EpochLines(Rs[k])
               text == From(B, j) \o Rest[k]
           IN  /\ text # <<>> /\ Head(text) = B[j]
               /\ Tail(text) = From(B, j + 1) \o Rest[k]
<1> DEFINE B == EpochLines(Rs[k])
           text == From(B, j) \o Rest[k]
           z == From(B, j + 1) \o Rest[k]
           o == <<B[j]>>
           f == From(B, j + 1)
           r == Rest[k]
<1>1. B \in Seq(LineSet) /\ Len(Rs) \in Nat
  BY RsList
<1>2. r \in Seq(LineSet)
  <2>1. RestFrom(Rest, Rs, LineSet) /\ k \in 0 .. Len(Rs)
    BY <1>1, RestIs
  <2> QED BY <2>1 DEF RestFrom
<1>3. Len(B) \in Nat /\ B[j] \in LineSet /\ j \in 1 .. Len(B) + 1 /\ j # Len(B) + 1 /\ j + 1 \in 1 .. Len(B) + 1
  BY <1>1, SeqFacts
<1>4. From(B, j) = o \o f /\ f \in Seq(LineSet)
  <2> HIDE DEF B
  <2> QED BY <1>1, <1>3, FromFacts
<1>5. o \in Seq(LineSet)
  BY <1>3
<1>6. f \o r \in Seq(LineSet)
  <2> HIDE DEF f, r
  <2> QED BY <1>2, <1>4, ConcatProperties
<1>7. (o \o f) \o r = o \o (f \o r)
  <2> HIDE DEF o, f, r
  <2> QED BY <1>2, <1>4, <1>5, ConcatAssociative, SMTT(30)
<1>8. text = o \o (f \o r)
  BY <1>4, <1>7
<1> DEFINE l == f \o r
           x == B[j]
<1>9. l \in Seq(LineSet) /\ x \in LineSet /\ text = <<x>> \o l
  BY <1>3, <1>6, <1>8
<1>10. text # <<>> /\ Head(text) = x /\ Tail(text) = l
  <2> HIDE DEF l, x, text
  <2> QED BY <1>9, ConsFacts
<1> QED BY <1>10

LEMMA EndText ==
    ASSUME TakenRequest, NEW d \in Nat, FoundFor(d), found # {}, NEW k \in 1 .. Len(Rs)
    PROVE  LET B == EpochLines(Rs[k])
               text == From(B, Len(B) + 1) \o Rest[k]
           IN  /\ k = Len(Rs) => text = <<>>
               /\ k # Len(Rs) => /\ k + 1 \in 1 .. Len(Rs)
                                 /\ text # <<>> /\ Head(text) = Blank
                                 /\ Tail(text) = Block(Rs[k + 1]) \o Rest[k + 1]
<1> DEFINE B == EpochLines(Rs[k])
           r == Rest[k]
           text == From(B, Len(B) + 1) \o r
<1>1. B \in Seq(LineSet) /\ Len(Rs) \in Nat /\ Blank \in LineSet
  BY RsList
<1>2. RestFrom(Rest, Rs, LineSet)
  BY RestIs
<1>3. r \in Seq(LineSet)
  BY <1>1, <1>2 DEF RestFrom
<1>4. From(B, Len(B) + 1) = <<>>
  <2>1. Len(B) \in Nat
    BY <1>1, SeqFacts
  <2>2. Len(B) + 1 \in 1 .. Len(B) + 1
    BY <2>1
  <2> HIDE DEF B
  <2> QED BY <1>1, <2>2, FromFacts
<1>5. text = r
  <2>1. <<>> \o r = r
    <3> HIDE DEF r
    <3> QED BY <1>3, ConcatEmptySeq
  <2> HIDE DEF r
  <2> QED BY <1>4, <2>1
<1>6. ASSUME k = Len(Rs) PROVE text = <<>>
  BY <1>2, <1>5, <1>6 DEF RestFrom
<1>7. ASSUME k # Len(Rs)
      PROVE  /\ k + 1 \in 1 .. Len(Rs)
             /\ text # <<>> /\ Head(text) = Blank
             /\ Tail(text) = Block(Rs[k + 1]) \o Rest[k + 1]
  <2>1. k + 1 \in 1 .. Len(Rs) /\ k \in 0 .. Len(Rs) - 1 /\ k + 1 \in 0 .. Len(Rs)
    BY <1>1, <1>7
  <2> DEFINE z == Block(Rs[k + 1]) \o Rest[k + 1]
  <2>2. r = <<Blank>> \o z
    BY <1>2, <2>1 DEF RestFrom
  <2>3. z \in Seq(LineSet)
    <3>1. Block(Rs[k + 1]) \in Seq(LineSet) /\ Rest[k + 1] \in Seq(LineSet)
      BY <1>2, <2>1, RsList DEF RestFrom
    <3> QED BY <3>1, ConcatProperties
  <2>4. <<Blank>> \o z # <<>> /\ Head(<<Blank>> \o z) = Blank /\ Tail(<<Blank>> \o z) = z
    <3> HIDE DEF z
    <3> QED BY <1>1, <2>3, ConsFacts
  <2> HIDE DEF z, r, text
  <2>5. text = <<Blank>> \o z
    BY <1>5, <2>2
  <2> QED BY <2>1, <2>4, <2>5 DEF z
<1> HIDE DEF text
<1> QED BY <1>6, <1>7 DEF text


-----------------------------------------------------------------------------
(* The parser. *)

\* The table holds the first k routes.
TableHas(tab, rs, k) ==
    /\ DOMAIN tab = {rs[i].url : i \in 1 .. k}
    /\ \A i \in 1 .. k : Lists(tab[rs[i].url], {Read(se) : se \in rs[i].streams})

BeforeBlock(rs, rest, k, ls, ul, bl) ==
    ul = NoLine /\ bl = <<>> /\ ls = Block(rs[k]) \o rest[k]

\* Before the j-th epoch of a block, or its end.
InBlock(rs, rest, k, j, ls, ul, bl) ==
    LET B == EpochLines(rs[k])
    IN  /\ ul = UrlLine(rs[k].url)
        /\ ls = From(B, j) \o rest[k]
        /\ bl \in Seq({Read(se) : se \in rs[k].streams}) /\ Len(bl) = j - 1
        /\ \A i \in 1 .. j - 1 : bl[i] = B[i].epoch

ParsedTo(rs, rest, ls, ul, bl, tab) ==
    \E k \in 1 .. Len(rs) :
        /\ TableHas(tab, rs, k - 1)
        /\ \/ BeforeBlock(rs, rest, k, ls, ul, bl)
           \/ \E j \in 1 .. Len(EpochLines(rs[k])) + 1 : InBlock(rs, rest, k, j, ls, ul, bl)

LEMMA EpochLinesFacts ==
    ASSUME TakenRequest, NEW d \in Nat, FoundFor(d), found # {}, NEW k \in 1 .. Len(Rs)
    PROVE  LET B == EpochLines(Rs[k])
           IN  /\ Len(B) \in Nat /\ Len(B) >= 1 /\ DOMAIN B = 1 .. Len(B)
               /\ \A j \in 1 .. Len(B) : \E se \in Rs[k].streams : B[j] = EpochLine(se)
               /\ \A se \in Rs[k].streams : \E j \in 1 .. Len(B) : B[j] = EpochLine(se)
               /\ \A i, j \in 1 .. Len(B) : B[i] = B[j] => i = j
               /\ \A se, sf \in Rs[k].streams : Read(se) = Read(sf) => se = sf
<1> DEFINE m == Rs[k]
           B == EpochLines(m)
           S == {EpochLine(se) : se \in m.streams}
<1>1. m \in Answer
  BY RsList
<1>2. /\ Lists(B, S) /\ B # <<>>
      /\ \A se, sf \in m.streams : Read(se) = Read(sf) => se = sf
  BY <1>1, EpochLinesList
<1>3. \A x \in S : \E se \in m.streams : x = EpochLine(se)
  OBVIOUS
<1>4. \A se \in m.streams : EpochLine(se) \in S
  OBVIOUS
<1> HIDE DEF S, B
<1>5. /\ Len(B) \in Nat /\ DOMAIN B = 1 .. Len(B) /\ B \in Seq(S)
      /\ \A i \in 1 .. Len(B) : B[i] \in S
      /\ \A i, j \in 1 .. Len(B) : B[i] = B[j] => i = j
      /\ \A x \in S : \E i \in 1 .. Len(B) : x = B[i]
  BY <1>2, ListFacts
<1>6. Len(B) # 0
  BY <1>2, <1>5, EmptySeq
<1>7. \A j \in 1 .. Len(B) : \E se \in m.streams : B[j] = EpochLine(se)
  BY <1>3, <1>5
<1>8. \A se \in m.streams : \E j \in 1 .. Len(B) : B[j] = EpochLine(se)
  BY <1>4, <1>5
<1> QED BY <1>2, <1>5, <1>6, <1>7, <1>8 DEF B

\* The URL of the next block is read.
LEMMA UrlRead ==
    ASSUME TakenRequest, NEW d \in Nat, FoundFor(d), found # {},
           urlline = NoLine, ParsedTo(Rs, Rest, lines, urlline, block, table)
    PROVE  lines # <<>> /\ ~IsEmpty(Line) /\ ParsedTo(Rs, Rest, Tail(lines), Line, block, table)
<1>1. PICK k \in 1 .. Len(Rs) :
        /\ TableHas(table, Rs, k - 1)
        /\ \/ BeforeBlock(Rs, Rest, k, lines, urlline, block)
           \/ \E j \in 1 .. Len(EpochLines(Rs[k])) + 1 : InBlock(Rs, Rest, k, j, lines, urlline, block)
  BY DEF ParsedTo
<1>2. block = <<>> /\ lines = Block(Rs[k]) \o Rest[k]
  BY <1>1, LineKinds DEF BeforeBlock, InBlock
<1>3. /\ lines # <<>> /\ Head(lines) = UrlLine(Rs[k].url)
      /\ Tail(lines) = From(EpochLines(Rs[k]), 1) \o Rest[k]
  BY <1>2, BlockText
<1>4. Line = UrlLine(Rs[k].url)
  BY <1>3 DEF Line
<1>5. 1 \in 1 .. Len(EpochLines(Rs[k])) + 1
  BY EpochLinesFacts
<1>6. block \in Seq({Read(se) : se \in Rs[k].streams}) /\ Len(block) = 1 - 1
      /\ \A i \in 1 .. 1 - 1 : block[i] = EpochLines(Rs[k])[i].epoch
  BY <1>2
<1>7. InBlock(Rs, Rest, k, 1, Tail(lines), Line, block)
  BY <1>3, <1>4, <1>6 DEF InBlock
<1>8. ParsedTo(Rs, Rest, Tail(lines), Line, block, table)
  BY <1>1, <1>5, <1>7 DEF ParsedTo
<1> QED BY <1>3, <1>4, <1>8, LineKinds

\* Within a block the line is the next epoch, or the block has been read.
LEMMA WhereInBlock ==
    ASSUME TakenRequest, NEW d \in Nat, FoundFor(d), found # {},
           urlline # NoLine, ParsedTo(Rs, Rest, lines, urlline, block, table)
    PROVE  \E k \in 1 .. Len(Rs) : \E j \in 1 .. Len(EpochLines(Rs[k])) + 1 :
              /\ TableHas(table, Rs, k - 1) /\ InBlock(Rs, Rest, k, j, lines, urlline, block)
              /\ IsEmpty(Line) <=> j = Len(EpochLines(Rs[k])) + 1
              /\ j \in 1 .. Len(EpochLines(Rs[k])) =>
                    /\ lines # <<>> /\ Line = EpochLines(Rs[k])[j]
                    /\ Tail(lines) = From(EpochLines(Rs[k]), j + 1) \o Rest[k]
              /\ j = Len(EpochLines(Rs[k])) + 1 =>
                    /\ Line = Eof <=> k = Len(Rs)
                    /\ k # Len(Rs) => /\ k + 1 \in 1 .. Len(Rs) /\ lines # <<>>
                                      /\ Tail(lines) = Block(Rs[k + 1]) \o Rest[k + 1]
<1>1. PICK k \in 1 .. Len(Rs) :
        /\ TableHas(table, Rs, k - 1)
        /\ \/ BeforeBlock(Rs, Rest, k, lines, urlline, block)
           \/ \E j \in 1 .. Len(EpochLines(Rs[k])) + 1 : InBlock(Rs, Rest, k, j, lines, urlline, block)
  BY DEF ParsedTo
<1> DEFINE B == EpochLines(Rs[k])
<1>2. PICK j \in 1 .. Len(B) + 1 : InBlock(Rs, Rest, k, j, lines, urlline, block)
  BY <1>1 DEF BeforeBlock
<1>3. lines = From(B, j) \o Rest[k]
  BY <1>2 DEF InBlock
<1>4. Len(B) \in Nat /\ \A i \in 1 .. Len(B) : \E se \in Rs[k].streams : B[i] = EpochLine(se)
  BY EpochLinesFacts
<1>5. ASSUME j \in 1 .. Len(B)
      PROVE  /\ lines # <<>> /\ Line = B[j] /\ ~IsEmpty(Line)
             /\ Tail(lines) = From(B, j + 1) \o Rest[k]
  <2>1. lines # <<>> /\ Head(lines) = B[j] /\ Tail(lines) = From(B, j + 1) \o Rest[k]
    BY <1>3, <1>5, EpochText
  <2>2. Line = B[j]
    BY <2>1 DEF Line
  <2> QED BY <1>4, <1>5, <2>1, <2>2, LineKinds
<1>6. ASSUME j = Len(B) + 1
      PROVE  /\ IsEmpty(Line) /\ (Line = Eof <=> k = Len(Rs))
             /\ k # Len(Rs) => /\ k + 1 \in 1 .. Len(Rs) /\ lines # <<>>
                               /\ Tail(lines) = Block(Rs[k + 1]) \o Rest[k + 1]
  <2>1. /\ k = Len(Rs) => lines = <<>>
        /\ k # Len(Rs) => /\ k + 1 \in 1 .. Len(Rs)
                          /\ lines # <<>> /\ Head(lines) = Blank
                          /\ Tail(lines) = Block(Rs[k + 1]) \o Rest[k + 1]
    BY <1>3, <1>6, EndText
  <2>2. k = Len(Rs) => Line = Eof
    BY <2>1 DEF Line
  <2>3. k # Len(Rs) => Line = Blank
    BY <2>1 DEF Line
  <2> QED BY <2>1, <2>2, <2>3, LineKinds
<1>7. j \in 1 .. Len(B) \/ j = Len(B) + 1
  BY <1>4
<1>8. ~(j \in 1 .. Len(B) /\ j = Len(B) + 1)
  BY <1>4
<1> QED BY <1>1, <1>2, <1>5, <1>6, <1>7, <1>8


LEMMA EpochRead ==
    ASSUME TakenRequest, NEW d \in Nat, FoundFor(d), found # {},
           urlline # NoLine, ParsedTo(Rs, Rest, lines, urlline, block, table), ~IsEmpty(Line)
    PROVE  /\ lines # <<>>
           /\ ParsedTo(Rs, Rest, Tail(lines), urlline, Append(block, FromLine(Line)), table)
<1>0. PICK k \in 1 .. Len(Rs) : \E j \in 1 .. Len(EpochLines(Rs[k])) + 1 :
        /\ TableHas(table, Rs, k - 1) /\ InBlock(Rs, Rest, k, j, lines, urlline, block)
        /\ j # Len(EpochLines(Rs[k])) + 1
        /\ j \in 1 .. Len(EpochLines(Rs[k])) =>
              /\ lines # <<>> /\ Line = EpochLines(Rs[k])[j]
              /\ Tail(lines) = From(EpochLines(Rs[k]), j + 1) \o Rest[k]
  BY WhereInBlock
<1>1. PICK j \in 1 .. Len(EpochLines(Rs[k])) :
        /\ TableHas(table, Rs, k - 1) /\ InBlock(Rs, Rest, k, j, lines, urlline, block)
        /\ lines # <<>> /\ Line = EpochLines(Rs[k])[j]
        /\ Tail(lines) = From(EpochLines(Rs[k]), j + 1) \o Rest[k]
  <2>1. PICK j \in 1 .. Len(EpochLines(Rs[k])) + 1 :
          /\ TableHas(table, Rs, k - 1) /\ InBlock(Rs, Rest, k, j, lines, urlline, block)
          /\ j # Len(EpochLines(Rs[k])) + 1
          /\ j \in 1 .. Len(EpochLines(Rs[k])) =>
                /\ lines # <<>> /\ Line = EpochLines(Rs[k])[j]
                /\ Tail(lines) = From(EpochLines(Rs[k]), j + 1) \o Rest[k]
    BY <1>0
  <2>2. Len(EpochLines(Rs[k])) \in Nat
    BY EpochLinesFacts
  <2>3. j \in 1 .. Len(EpochLines(Rs[k]))
    BY <2>1, <2>2
  <2> QED BY <2>1, <2>3
<1> DEFINE B == EpochLines(Rs[k])
           S == {Read(se) : se \in Rs[k].streams}
           x == FromLine(Line)
<1>2. /\ Len(B) \in Nat /\ \A i \in 1 .. Len(B) : \E se \in Rs[k].streams : B[i] = EpochLine(se)
  BY EpochLinesFacts
<1>3. PICK se \in Rs[k].streams : B[j] = EpochLine(se)
  BY <1>2
<1>4. x = Read(se) /\ x = B[j].epoch
  <2>1. Rs[k] \in Answer
    BY RsList
  <2> QED BY <1>1, <1>3, <2>1, ReadBack DEF Read
<1>5. x \in S
  BY <1>4
<1>6. /\ urlline = UrlLine(Rs[k].url) /\ block \in Seq(S) /\ Len(block) = j - 1
      /\ \A i \in 1 .. j - 1 : block[i] = B[i].epoch
  BY <1>1 DEF InBlock
<1> DEFINE new == Append(block, x)
<1> HIDE DEF S, x
<1>7. /\ new \in Seq(S) /\ Len(new) = (j - 1) + 1 /\ new[(j - 1) + 1] = x
      /\ \A i \in 1 .. j - 1 : new[i] = block[i]
  <2>1. /\ new \in Seq(S) /\ Len(new) = Len(block) + 1
        /\ \A i \in 1 .. Len(block) : new[i] = block[i]
        /\ new[Len(block) + 1] = x
    BY <1>5, <1>6, AppendProperties
  <2> HIDE DEF new
  <2> QED BY <1>6, <2>1
<1> HIDE DEF new
<1>8. Len(new) = (j + 1) - 1 /\ \A i \in 1 .. (j + 1) - 1 : new[i] = B[i].epoch
  <2>1. j \in Nat /\ (j - 1) + 1 = j /\ (j + 1) - 1 = j
    BY <1>2
  <2>2. \A i \in 1 .. j : i = j \/ i \in 1 .. j - 1
    BY <2>1
  <2>3. \A i \in 1 .. j - 1 : new[i] = B[i].epoch
    BY <1>6, <1>7
  <2>4. new[j] = B[j].epoch /\ Len(new) = j
    BY <1>4, <1>7, <2>1
  <2> HIDE DEF B
  <2> QED BY <2>1, <2>2, <2>3, <2>4
<1>9. j + 1 \in 1 .. Len(B) + 1
  BY <1>2
<1>10. InBlock(Rs, Rest, k, j + 1, Tail(lines), urlline, new)
  BY <1>1, <1>6, <1>7, <1>8 DEF InBlock, S
<1>11. ParsedTo(Rs, Rest, Tail(lines), urlline, new, table)
  BY <1>1, <1>9, <1>10 DEF ParsedTo
<1> QED BY <1>1, <1>11 DEF new, x

LEMMA BlockEnds ==
    ASSUME TakenRequest, NEW d \in Nat, FoundFor(d), found # {},
           urlline # NoLine, ParsedTo(Rs, Rest, lines, urlline, block, table), IsEmpty(Line)
    PROVE  LET tab == [u \in DOMAIN table \cup {urlline.url} |->
                          IF u = urlline.url THEN block ELSE table[u]]
           IN  /\ block # <<>>
               /\ Line = Eof => TableHas(tab, Rs, Len(Rs))
               /\ Line # Eof => lines # <<>> /\ ParsedTo(Rs, Rest, Tail(lines), NoLine, <<>>, tab)
<1> DEFINE tab == [u \in DOMAIN table \cup {urlline.url} |->
                      IF u = urlline.url THEN block ELSE table[u]]
<1>1. PICK k \in 1 .. Len(Rs) :
        /\ TableHas(table, Rs, k - 1)
        /\ InBlock(Rs, Rest, k, Len(EpochLines(Rs[k])) + 1, lines, urlline, block)
        /\ Line = Eof <=> k = Len(Rs)
        /\ k # Len(Rs) => /\ k + 1 \in 1 .. Len(Rs) /\ lines # <<>>
                          /\ Tail(lines) = Block(Rs[k + 1]) \o Rest[k + 1]
  BY WhereInBlock
<1> DEFINE B == EpochLines(Rs[k])
           S == {Read(se) : se \in Rs[k].streams}
<1>2. /\ Len(B) \in Nat /\ Len(B) >= 1
      /\ \A i \in 1 .. Len(B) : \E se \in Rs[k].streams : B[i] = EpochLine(se)
      /\ \A se \in Rs[k].streams : \E i \in 1 .. Len(B) : B[i] = EpochLine(se)
      /\ \A i, j \in 1 .. Len(B) : B[i] = B[j] => i = j
      /\ \A se, sf \in Rs[k].streams : Read(se) = Read(sf) => se = sf
  BY EpochLinesFacts
<1>3. /\ urlline = UrlLine(Rs[k].url) /\ block \in Seq(S) /\ Len(block) = Len(B)
      /\ \A i \in 1 .. Len(B) : block[i] = B[i].epoch
  <2>1. (Len(B) + 1) - 1 = Len(B)
    BY <1>2
  <2> QED BY <1>1, <2>1 DEF InBlock
<1>4. Lists(block, S)
  <2>1. DOMAIN block = 1 .. Len(B)
    <3> HIDE DEF S
    <3> QED BY <1>3, SeqFacts
  <2>2. ASSUME NEW i \in 1 .. Len(B), NEW j \in 1 .. Len(B), block[i] = block[j]
        PROVE  i = j
    <3>1. PICK se \in Rs[k].streams : B[i] = EpochLine(se)
      BY <1>2
    <3>2. PICK sf \in Rs[k].streams : B[j] = EpochLine(sf)
      BY <1>2
    <3>3. Read(se) = Read(sf)
      BY <1>3, <2>2, <3>1, <3>2 DEF Read
    <3> QED BY <1>2, <3>1, <3>2, <3>3
  <2>3. \A x \in S : \E i \in 1 .. Len(B) : x = block[i]
    <3> SUFFICES ASSUME NEW se \in Rs[k].streams PROVE \E i \in 1 .. Len(B) : Read(se) = block[i]
      OBVIOUS
    <3>1. PICK i \in 1 .. Len(B) : B[i] = EpochLine(se)
      BY <1>2
    <3> QED BY <1>3, <3>1 DEF Read
  <2> QED BY <1>3, <2>1, <2>2, <2>3 DEF Lists
<1>5. block # <<>>
  BY <1>2, <1>3
<1>6. /\ Len(Rs) \in Nat
      /\ \A i, j \in 1 .. Len(Rs) : Rs[i].url = Rs[j].url => i = j
  BY RsList
<1>7. k \in Nat /\ k >= 1 /\ k <= Len(Rs) /\ 1 .. k = (1 .. k - 1) \cup {k} /\ k \notin 1 .. k - 1
      /\ 1 .. k - 1 \subseteq 1 .. Len(Rs)
  BY <1>6
<1>8. TableHas(tab, Rs, k)
  <2>1. urlline.url = Rs[k].url
    BY <1>3, LineKinds
  <2>2. /\ DOMAIN table = {Rs[i].url : i \in 1 .. k - 1}
        /\ \A i \in 1 .. k - 1 : Lists(table[Rs[i].url], {Read(se) : se \in Rs[i].streams})
    BY <1>1 DEF TableHas
  <2>3. DOMAIN tab = {Rs[i].url : i \in 1 .. k}
    BY <1>7, <2>1, <2>2
  <2>4. tab[Rs[k].url] = block
    BY <2>1
  <2>5. \A i \in 1 .. k - 1 : tab[Rs[i].url] = table[Rs[i].url]
    BY <1>6, <1>7, <2>1, <2>2
  <2> HIDE DEF tab
  <2>6. ASSUME NEW i \in 1 .. k
        PROVE  Lists(tab[Rs[i].url], {Read(se) : se \in Rs[i].streams})
    <3>1. CASE i = k
      BY <1>4, <2>4, <3>1
    <3>2. CASE i # k
      BY <1>7, <2>2, <2>5, <3>2
    <3> QED BY <3>1, <3>2
  <2> QED BY <2>3, <2>6 DEF TableHas
<1> HIDE DEF tab
<1>9. ASSUME k # Len(Rs)
      PROVE  lines # <<>> /\ ParsedTo(Rs, Rest, Tail(lines), NoLine, <<>>, tab)
  <2>1. BeforeBlock(Rs, Rest, k + 1, Tail(lines), NoLine, <<>>)
    BY <1>1, <1>9 DEF BeforeBlock
  <2>2. k + 1 \in 1 .. Len(Rs) /\ (k + 1) - 1 = k
    BY <1>6, <1>7, <1>9
  <2>3. TableHas(tab, Rs, (k + 1) - 1)
    BY <1>8, <2>2
  <2> QED BY <1>1, <1>9, <2>1, <2>2, <2>3 DEF ParsedTo
<1> QED BY <1>1, <1>5, <1>8, <1>9 DEF tab


-----------------------------------------------------------------------------
(* Routes in sequences. *)

IsSeq(s) == s \in Seq(ToSet(s))

LEMMA IsSeqFacts ==
    /\ \A s : IsSeq(s) => Len(s) \in Nat /\ DOMAIN s = 1 .. Len(s)
    /\ \A S : \A s \in Seq(S) : IsSeq(s)
<1>1. ASSUME NEW s, IsSeq(s)
      PROVE  Len(s) \in Nat /\ DOMAIN s = 1 .. Len(s)
  BY <1>1, SeqFacts DEF IsSeq
<1>2. ASSUME NEW S, NEW s \in Seq(S)
      PROVE  IsSeq(s)
  <2>1. Len(s) \in Nat /\ DOMAIN s = 1 .. Len(s) /\ s \in [1 .. Len(s) -> S]
    BY LenProperties
  <2>2. s \in [1 .. Len(s) -> ToSet(s)]
    BY <2>1 DEF ToSet
  <2> QED BY <2>1, <2>2 DEF IsSeq
<1> QED BY <1>1, <1>2

\* The route to an endpoint of one of its stream epochs.
Piece(q, j, k) == Route(q[j].url, <<q[j].streams[k]>>)

\* The routes of q together ask for P, for each once.
Packs(q, P) ==
    /\ IsSeq(q) /\ \A j \in DOMAIN q : IsSeq(q[j].streams)
    /\ \A j \in DOMAIN q : \A k \in DOMAIN q[j].streams : Piece(q, j, k) \in P
    /\ \A r \in P : \E j \in DOMAIN q : \E k \in DOMAIN q[j].streams : r = Piece(q, j, k)
    /\ \A j, jj \in DOMAIN q : \A k \in DOMAIN q[j].streams : \A kk \in DOMAIN q[jj].streams :
          Piece(q, j, k) = Piece(q, jj, kk) => j = jj /\ k = kk

Singles(P) == \A r \in P : r = Route(r.url, <<r.streams[1]>>)

LEMMA RouteFacts ==
    /\ \A u, s : Route(u, s).url = u /\ Route(u, s).streams = s
    /\ \A u, v, e, f : Route(u, <<e>>) = Route(v, <<f>>) => u = v /\ e = f
    /\ \A e : DOMAIN <<e>> = {1} /\ <<e>>[1] = e /\ IsSeq(<<e>>) /\ Len(<<e>>) = 1
<1>1. \A u, s : Route(u, s).url = u /\ Route(u, s).streams = s
  BY DEF Route
<1>2. ASSUME NEW e PROVE DOMAIN <<e>> = {1} /\ <<e>>[1] = e /\ <<e>> \in Seq({e}) /\ Len(<<e>>) = 1
  OBVIOUS
<1>3. \A e : IsSeq(<<e>>)
  BY <1>2, IsSeqFacts
<1>4. ASSUME NEW u, NEW v, NEW e, NEW f, Route(u, <<e>>) = Route(v, <<f>>)
      PROVE  u = v /\ e = f
  <2>1. u = v /\ <<e>> = <<f>>
    BY <1>1, <1>4
  <2> QED BY <1>2, <2>1
<1> QED BY <1>1, <1>2, <1>3, <1>4

LEMMA PacksSingles ==
    ASSUME NEW q, NEW P, Packs(q, P)
    PROVE  Singles(P)
<1> SUFFICES ASSUME NEW r \in P PROVE r = Route(r.url, <<r.streams[1]>>)
  BY DEF Singles
<1>1. PICK j \in DOMAIN q : \E k \in DOMAIN q[j].streams : r = Piece(q, j, k)
  BY DEF Packs
<1>2. PICK k \in DOMAIN q[j].streams : r = Piece(q, j, k)
  BY <1>1
<1> DEFINE e == q[j].streams[k]
<1>3. r = Route(q[j].url, <<e>>)
  BY <1>2 DEF Piece
<1>4. r.url = q[j].url /\ r.streams = <<e>> /\ <<e>>[1] = e
  BY <1>3, RouteFacts
<1> QED BY <1>3, <1>4

LEMMA SinglesPack ==
    ASSUME NEW q, NEW P, Lists(q, P), Singles(P)
    PROVE  Packs(q, P)
<1>1. /\ q \in Seq(P) /\ DOMAIN q = 1 .. Len(q)
      /\ \A i \in DOMAIN q : q[i] \in P
      /\ \A i, j \in DOMAIN q : q[i] = q[j] => i = j
      /\ \A x \in P : \E i \in DOMAIN q : x = q[i]
  BY ListFacts
<1>2. \A j \in DOMAIN q : q[j].streams = <<q[j].streams[1]>> /\ q[j] = Route(q[j].url, <<q[j].streams[1]>>)
  <2> SUFFICES ASSUME NEW j \in DOMAIN q
               PROVE  q[j].streams = <<q[j].streams[1]>> /\ q[j] = Route(q[j].url, <<q[j].streams[1]>>)
    OBVIOUS
  <2>1. q[j] = Route(q[j].url, <<q[j].streams[1]>>)
    BY <1>1 DEF Singles
  <2>2. Route(q[j].url, <<q[j].streams[1]>>).streams = <<q[j].streams[1]>>
    BY RouteFacts
  <2> QED BY <2>1, <2>2
<1>3. \A j \in DOMAIN q : IsSeq(q[j].streams) /\ DOMAIN q[j].streams = {1}
  <2> SUFFICES ASSUME NEW j \in DOMAIN q PROVE IsSeq(q[j].streams) /\ DOMAIN q[j].streams = {1}
    OBVIOUS
  <2>1. q[j].streams = <<q[j].streams[1]>>
    BY <1>2
  <2>2. IsSeq(<<q[j].streams[1]>>) /\ DOMAIN <<q[j].streams[1]>> = {1}
    BY RouteFacts
  <2> QED BY <2>1, <2>2
<1>4. \A j \in DOMAIN q : \A k \in DOMAIN q[j].streams : k = 1 /\ Piece(q, j, k) = q[j]
  BY <1>2, <1>3 DEF Piece
<1>5. IsSeq(q)
  BY <1>1, IsSeqFacts
<1>6. \A r \in P : \E j \in DOMAIN q : \E k \in DOMAIN q[j].streams : r = Piece(q, j, k)
  <2> SUFFICES ASSUME NEW r \in P
               PROVE  \E j \in DOMAIN q : \E k \in DOMAIN q[j].streams : r = Piece(q, j, k)
    OBVIOUS
  <2>1. PICK j \in DOMAIN q : r = q[j]
    BY <1>1
  <2>2. 1 \in DOMAIN q[j].streams
    BY <1>3
  <2> QED BY <1>4, <2>1, <2>2
<1>7. \A j \in DOMAIN q : \A k \in DOMAIN q[j].streams : Piece(q, j, k) \in P
  BY <1>1, <1>4
<1>8. \A j, jj \in DOMAIN q : \A k \in DOMAIN q[j].streams : \A kk \in DOMAIN q[jj].streams :
          Piece(q, j, k) = Piece(q, jj, kk) => j = jj /\ k = kk
  BY <1>1, <1>4
<1> QED BY <1>3, <1>5, <1>6, <1>7, <1>8 DEF Packs

LEMMA DemuxedLists ==
    ASSUME NEW q, NEW P, Packs(q, P)
    PROVE  Lists(Demuxed(q), P)
<1> DEFINE seq(i) == [k \in DOMAIN q[i].streams |-> Route(q[i].url, <<q[i].streams[k]>>)]
           ss == [i \in DOMAIN q |-> seq(i)]
           set(i) == {Piece(q, i, k) : k \in DOMAIN q[i].streams}
           F == [i \in DOMAIN q |-> set(i)]
<1>1. /\ Len(q) \in Nat /\ DOMAIN q = 1 .. Len(q)
      /\ \A j \in DOMAIN q : IsSeq(q[j].streams)
      /\ \A j \in DOMAIN q : \A k \in DOMAIN q[j].streams : Piece(q, j, k) \in P
      /\ \A r \in P : \E j \in DOMAIN q : \E k \in DOMAIN q[j].streams : r = Piece(q, j, k)
      /\ \A j, jj \in DOMAIN q : \A k \in DOMAIN q[j].streams : \A kk \in DOMAIN q[jj].streams :
            Piece(q, j, k) = Piece(q, jj, kk) => j = jj /\ k = kk
  BY IsSeqFacts DEF Packs
<1>2. ASSUME NEW i \in DOMAIN q
      PROVE  Lists(seq(i), set(i))
  <2>1. Len(q[i].streams) \in Nat /\ DOMAIN q[i].streams = 1 .. Len(q[i].streams)
    BY <1>1, IsSeqFacts
  <2>2. \A k \in DOMAIN q[i].streams : seq(i)[k] = Piece(q, i, k)
    BY DEF Piece
  <2>3. DOMAIN seq(i) = DOMAIN q[i].streams
    OBVIOUS
  <2>4. seq(i) \in Seq(set(i))
    <3>1. seq(i) \in [1 .. Len(q[i].streams) -> set(i)]
      BY <2>1, <2>2
    <3> HIDE DEF seq, set
    <3> QED BY <2>1, <3>1
  <2>5. \A x \in set(i) : \E k \in DOMAIN seq(i) : x = seq(i)[k]
    BY <2>2, <2>3
  <2> HIDE DEF seq, set
  <2>6. \A k, kk \in DOMAIN seq(i) : seq(i)[k] = seq(i)[kk] => k = kk
    BY <1>1, <2>2, <2>3
  <2> QED BY <2>4, <2>5, <2>6 DEF Lists
<1>3. ASSUME NEW i \in DOMAIN q, NEW j \in DOMAIN q, i # j
      PROVE  set(i) \cap set(j) = {}
  BY <1>1, <1>3
<1>4. UNION {set(i) : i \in DOMAIN q} = P
  BY <1>1
<1> HIDE DEF set, seq
<1>5. ss \in [1 .. Len(q) -> {seq(i) : i \in DOMAIN q}]
  BY <1>1
<1>6. ss \in Seq({seq(i) : i \in DOMAIN q}) /\ DOMAIN ss = 1 .. Len(q)
  <2> HIDE DEF ss
  <2> QED BY <1>1, <1>5
<1>7. Len(ss) = Len(q)
  <2> HIDE DEF ss
  <2> QED BY <1>1, <1>6, LenProperties
<1>8. \A i \in 1 .. Len(q) : ss[i] = seq(i) /\ F[i] = set(i)
  BY <1>1
<1> HIDE DEF ss, F
<1>9. Lists(FlattenSeq(ss), UNION {F[i] : i \in 1 .. Len(q)})
  <2>1. \A i \in 1 .. Len(ss) : Lists(ss[i], F[i])
    BY <1>1, <1>2, <1>7, <1>8
  <2>2. \A i, j \in 1 .. Len(ss) : i # j => F[i] \cap F[j] = {}
    BY <1>1, <1>3, <1>7, <1>8
  <2>3. Lists(FlattenSeq(ss), UNION {F[i] : i \in 1 .. Len(ss)})
    BY <1>6, <2>1, <2>2, FlattenLists
  <2> QED BY <1>7, <2>3
<1>10. UNION {F[i] : i \in 1 .. Len(q)} = P
  BY <1>1, <1>4, <1>8
<1>11. Demuxed(q) = FlattenSeq(ss)
  BY DEF Demuxed, ss, seq
<1> QED BY <1>9, <1>10, <1>11


LEMMA ListFinite ==
    ASSUME NEW s, NEW S, Lists(s, S)
    PROVE  IsFiniteSet(S)
<1>1. Len(s) \in Nat /\ DOMAIN s = 1 .. Len(s) /\ s \in Seq(S) /\ S = ToSet(s)
  BY ListFacts
<1>2. IsFiniteSet(DOMAIN s)
  BY <1>1, FS_Interval
<1>3. s = [i \in DOMAIN s |-> s[i]]
  <2>1. s \in [1 .. Len(s) -> S]
    BY <1>1, LenProperties
  <2> QED BY <1>1, <2>1
<1>4. IsFiniteSet({s[i] : i \in DOMAIN s})
  BY <1>2, <1>3, ImageFinite
<1> QED BY <1>1, <1>4 DEF ToSet

\* _mux_routes asks of an endpoint what the routes to it ask.
LEMMA MuxedPacks ==
    ASSUME NEW g, NEW P, Lists(g, P), Singles(P)
    PROVE  /\ Packs(Muxed(g), P)
           /\ Len(Muxed(g)) \in Nat /\ DOMAIN Muxed(g) = 1 .. Len(Muxed(g))
           /\ \A i \in DOMAIN Muxed(g) : DOMAIN Muxed(g)[i].streams # {}
           /\ P # {} => Len(Muxed(g)) >= 1
<1> DEFINE Of(u) == Picked(g, {i \in DOMAIN g : g[i].url = u})
           PU(u) == {r \in P : r.url = u}
           str(u) == [i \in DOMAIN Of(u) |-> Of(u)[i].streams[1]]
           M(u) == Route(u, str(u))
           Us == {r.url : r \in ToSet(g)}
           MS == {M(u) : u \in Us}
           m == Muxed(g)
<1>1. /\ ToSet(g) = P /\ \A i \in DOMAIN g : g[i] \in P
      /\ \A x \in P : \E i \in DOMAIN g : x = g[i]
  BY ListFacts
<1>2. m = SetToSeq(MS)
  BY DEF Muxed
<1>3. ASSUME NEW u
      PROVE  Lists(Of(u), PU(u))
  <2> DEFINE places == {i \in DOMAIN g : g[i].url = u}
  <2>1. Lists(Picked(g, places), {g[i] : i \in places})
    BY PickedLists
  <2>2. {g[i] : i \in places} = PU(u)
    BY <1>1
  <2> QED BY <2>1, <2>2
<1> HIDE DEF Of
<1>4. ASSUME NEW u
      PROVE  /\ Len(Of(u)) \in Nat /\ DOMAIN Of(u) = 1 .. Len(Of(u))
             /\ \A k \in DOMAIN Of(u) : Of(u)[k] \in P /\ Of(u)[k].url = u
             /\ \A k, kk \in DOMAIN Of(u) : Of(u)[k] = Of(u)[kk] => k = kk
             /\ \A r \in P : r.url = u => \E k \in DOMAIN Of(u) : r = Of(u)[k]
  <2> DEFINE o == Of(u)
             R == PU(u)
  <2>1. Lists(o, R)
    BY <1>3
  <2>2. \A r : r \in R <=> r \in P /\ r.url = u
    OBVIOUS
  <2> HIDE DEF R, o, PU
  <2>3. /\ Len(o) \in Nat /\ DOMAIN o = 1 .. Len(o)
        /\ \A i \in DOMAIN o : o[i] \in R
        /\ \A i, j \in DOMAIN o : o[i] = o[j] => i = j
        /\ \A x \in R : \E i \in DOMAIN o : x = o[i]
    BY <2>1, ListFacts
  <2>4. /\ Len(o) \in Nat /\ DOMAIN o = 1 .. Len(o)
        /\ \A k \in DOMAIN o : o[k] \in P /\ o[k].url = u
        /\ \A k, kk \in DOMAIN o : o[k] = o[kk] => k = kk
        /\ \A r \in P : r.url = u => \E k \in DOMAIN o : r = o[k]
    BY <2>2, <2>3
  <2> QED BY <2>4 DEF o
<1>5. ASSUME NEW u
      PROVE  /\ M(u).url = u /\ M(u).streams = str(u) /\ DOMAIN M(u).streams = DOMAIN Of(u)
             /\ IsSeq(M(u).streams)
             /\ \A k \in DOMAIN Of(u) : Route(u, <<M(u).streams[k]>>) = Of(u)[k]
  <2>1. M(u).url = u /\ M(u).streams = str(u)
    BY RouteFacts
  <2>2. DOMAIN str(u) = DOMAIN Of(u) /\ \A k \in DOMAIN Of(u) : str(u)[k] = Of(u)[k].streams[1]
    OBVIOUS
  <2>3. IsSeq(str(u))
    <3> DEFINE V == {Of(u)[k].streams[1] : k \in DOMAIN Of(u)}
    <3>1. str(u) \in [1 .. Len(Of(u)) -> V]
      BY <1>4
    <3> HIDE DEF str, V
    <3>2. str(u) \in Seq(V)
      BY <1>4, <3>1
    <3> QED BY <3>2, IsSeqFacts
  <2>4. ASSUME NEW k \in DOMAIN Of(u)
        PROVE  Route(u, <<str(u)[k]>>) = Of(u)[k]
    <3>1. Of(u)[k] = Route(Of(u)[k].url, <<Of(u)[k].streams[1]>>)
      BY <1>4 DEF Singles
    <3> HIDE DEF str
    <3> QED BY <1>4, <2>2, <3>1
  <2> HIDE DEF str, M
  <2> QED BY <2>1, <2>2, <2>3, <2>4
<1> HIDE DEF str, M
<1>6. IsFiniteSet(MS)
  <2> DEFINE f == [r \in P |-> r.url]
  <2>1. IsFiniteSet(P)
    BY ListFinite
  <2>2. IsFiniteSet({f[r] : r \in DOMAIN f})
    <3>1. DOMAIN f = P /\ f = [x \in DOMAIN f |-> f[x]]
      OBVIOUS
    <3> HIDE DEF f
    <3> QED BY <2>1, <3>1, ImageFinite
  <2>3. IsFiniteSet(Us)
    <3>1. {f[r] : r \in DOMAIN f} = Us
      BY <1>1
    <3> QED BY <2>2, <3>1
  <2> DEFINE h == [u \in Us |-> M(u)]
  <2>4. IsFiniteSet({h[u] : u \in DOMAIN h})
    <3>1. DOMAIN h = Us /\ h = [x \in DOMAIN h |-> h[x]]
      OBVIOUS
    <3> HIDE DEF h
    <3> QED BY <2>3, <3>1, ImageFinite
  <2>5. {h[u] : u \in DOMAIN h} = MS
    OBVIOUS
  <2> QED BY <2>4, <2>5
<1>7. Lists(m, MS)
  <2> HIDE DEF MS, m
  <2> QED BY <1>2, <1>6, SetToSeqLists
<1>8. /\ Len(m) \in Nat /\ DOMAIN m = 1 .. Len(m) /\ m \in Seq(MS)
      /\ \A i \in DOMAIN m : m[i] \in MS
      /\ \A i, j \in DOMAIN m : m[i] = m[j] => i = j
      /\ \A x \in MS : \E i \in DOMAIN m : x = m[i]
  <2> HIDE DEF MS, m
  <2> QED BY <1>7, ListFacts
<1> HIDE DEF m
<1>9. \A i \in DOMAIN m : m[i].url \in Us /\ m[i] = M(m[i].url)
  <2> SUFFICES ASSUME NEW i \in DOMAIN m PROVE m[i].url \in Us /\ m[i] = M(m[i].url)
    OBVIOUS
  <2>1. PICK u \in Us : m[i] = M(u)
    BY <1>8
  <2> QED BY <1>5, <2>1
<1>10. ASSUME NEW i \in DOMAIN m
       PROVE  /\ IsSeq(m[i].streams) /\ DOMAIN m[i].streams = DOMAIN Of(m[i].url)
              /\ \A k \in DOMAIN m[i].streams : Piece(m, i, k) = Of(m[i].url)[k] /\ Piece(m, i, k) \in P
  <2> DEFINE u == m[i].url
  <2>1. m[i] = M(u)
    BY <1>9
  <2>2. IsSeq(M(u).streams) /\ DOMAIN M(u).streams = DOMAIN Of(u)
    BY <1>5
  <2>3. \A k \in DOMAIN Of(u) : Route(u, <<M(u).streams[k]>>) = Of(u)[k]
    BY <1>5
  <2>4. \A k \in DOMAIN Of(u) : Of(u)[k] \in P
    BY <1>4
  <2> QED BY <2>1, <2>2, <2>3, <2>4 DEF Piece
<1>11. \A r \in P : \E i \in DOMAIN m : \E k \in DOMAIN m[i].streams : r = Piece(m, i, k)
  <2> SUFFICES ASSUME NEW r \in P
               PROVE  \E i \in DOMAIN m : \E k \in DOMAIN m[i].streams : r = Piece(m, i, k)
    OBVIOUS
  <2>1. M(r.url) \in MS
    BY <1>1
  <2>2. PICK i \in DOMAIN m : m[i] = M(r.url)
    BY <1>8, <2>1
  <2>3. m[i].url = r.url
    BY <1>5, <2>2
  <2> DEFINE u == r.url
  <2>6. \A x \in P : x.url = u => \E k \in DOMAIN Of(u) : x = Of(u)[k]
    BY <1>4
  <2>4. PICK k \in DOMAIN Of(u) : r = Of(u)[k]
    BY <2>6
  <2>5. k \in DOMAIN m[i].streams /\ r = Piece(m, i, k)
    BY <1>10, <2>3, <2>4
  <2> QED BY <2>5
<1>12. ASSUME NEW i \in DOMAIN m, NEW j \in DOMAIN m, NEW k \in DOMAIN m[i].streams,
              NEW kk \in DOMAIN m[j].streams, Piece(m, i, k) = Piece(m, j, kk)
       PROVE  i = j /\ k = kk
  <2>1. m[i].url = m[j].url
    BY <1>12, RouteFacts DEF Piece
  <2>2. i = j
    BY <1>8, <1>9, <2>1
  <2>3. Of(m[i].url)[k] = Of(m[i].url)[kk] /\ k \in DOMAIN Of(m[i].url) /\ kk \in DOMAIN Of(m[i].url)
    BY <1>10, <1>12, <2>2
  <2>4. k = kk
    BY <1>4, <2>3
  <2> QED BY <2>2, <2>4
<1>13. IsSeq(m)
  BY <1>8, IsSeqFacts
<1>14. Packs(m, P)
  BY <1>10, <1>11, <1>12, <1>13 DEF Packs
<1>15. \A i \in DOMAIN m : DOMAIN m[i].streams # {}
  <2> SUFFICES ASSUME NEW i \in DOMAIN m PROVE DOMAIN m[i].streams # {}
    OBVIOUS
  <2>1. PICK r \in P : r.url = m[i].url
    BY <1>1, <1>9
  <2>2. \E k \in DOMAIN Of(m[i].url) : r = Of(m[i].url)[k]
    BY <1>4, <2>1
  <2> QED BY <1>10, <2>2
<1>16. P # {} => Len(m) >= 1
  BY <1>8, <1>11
<1> QED BY <1>8, <1>14, <1>15, <1>16 DEF m


RoutesOf(D, G) == UNION {{Route(u, <<e>>) : e \in G[u]} : u \in D}

\* demux_routes gives a route of every stream epoch of a routing table.
LEMMA DemuxLists ==
    ASSUME NEW tab, IsFiniteSet(DOMAIN tab), NEW G,
           \A u \in DOMAIN tab : Lists(tab[u], G[u])
    PROVE  Lists(Demux(tab), RoutesOf(DOMAIN tab, G))
<1> DEFINE D == DOMAIN tab
           urls == SetToSeq(D)
           q == [i \in DOMAIN urls |-> Route(urls[i], tab[urls[i]])]
           P == UNION {{Route(u, <<e>>) : e \in G[u]} : u \in D}
<1>1. Lists(urls, D)
  BY SetToSeqLists
<1>2. /\ Len(urls) \in Nat /\ DOMAIN urls = 1 .. Len(urls)
      /\ \A i \in DOMAIN urls : urls[i] \in D
      /\ \A i, j \in DOMAIN urls : urls[i] = urls[j] => i = j
      /\ \A u \in D : \E i \in DOMAIN urls : u = urls[i]
  <2> HIDE DEF urls, D
  <2> QED BY <1>1, ListFacts
<1>3. \A i \in DOMAIN urls : q[i].url = urls[i] /\ q[i].streams = tab[urls[i]]
  BY RouteFacts
<1>4. DOMAIN q = DOMAIN urls
  OBVIOUS
<1>5. IsSeq(q)
  <2> DEFINE V == {q[i] : i \in DOMAIN urls}
  <2>1. q \in [1 .. Len(urls) -> V]
    <3> HIDE DEF urls
    <3> QED BY <1>2
  <2> HIDE DEF q, V, urls
  <2>2. q \in Seq(V)
    BY <1>2, <2>1
  <2> QED BY <2>2, IsSeqFacts
<1>6. Demux(tab) = Demuxed(q)
  BY DEF Demux
<1> HIDE DEF q, urls
<1>7. \A r : r \in P <=> \E u \in D : \E e \in G[u] : r = Route(u, <<e>>)
  BY DEF Route
<1> HIDE DEF P
<1>8. ASSUME NEW i \in DOMAIN q
      PROVE  LET s == tab[urls[i]]
             IN  /\ urls[i] \in D /\ q[i].url = urls[i] /\ q[i].streams = s
                 /\ IsSeq(s) /\ \A k \in DOMAIN s : s[k] \in G[urls[i]]
                 /\ \A k, kk \in DOMAIN s : s[k] = s[kk] => k = kk
                 /\ \A e \in G[urls[i]] : \E k \in DOMAIN s : e = s[k]
  <2> DEFINE u == urls[i]
             s == tab[u]
             R == G[u]
  <2>1. u \in D /\ q[i].url = u /\ q[i].streams = s
    BY <1>2, <1>3, <1>4
  <2>2. Lists(s, R)
    BY <2>1
  <2> HIDE DEF s, R
  <2>3. /\ s \in Seq(R) /\ \A k \in DOMAIN s : s[k] \in R
        /\ \A k, kk \in DOMAIN s : s[k] = s[kk] => k = kk
        /\ \A e \in R : \E k \in DOMAIN s : e = s[k]
    BY <2>2, ListFacts
  <2>4. IsSeq(s)
    BY <2>3, IsSeqFacts
  <2> QED BY <2>1, <2>3, <2>4 DEF s, R
<1> HIDE DEF D
<1>9. \A i \in DOMAIN q : IsSeq(q[i].streams)
  BY <1>8
<1>10. ASSUME NEW i \in DOMAIN q, NEW k \in DOMAIN q[i].streams
       PROVE  Piece(q, i, k) = Route(urls[i], <<tab[urls[i]][k]>>) /\ Piece(q, i, k) \in P
  BY <1>7, <1>8 DEF Piece
<1>11. \A r \in P : \E i \in DOMAIN q : \E k \in DOMAIN q[i].streams : r = Piece(q, i, k)
  <2> SUFFICES ASSUME NEW r \in P
               PROVE  \E i \in DOMAIN q : \E k \in DOMAIN q[i].streams : r = Piece(q, i, k)
    OBVIOUS
  <2>1. PICK u \in D : \E e \in G[u] : r = Route(u, <<e>>)
    BY <1>7
  <2>2. PICK e \in G[u] : r = Route(u, <<e>>)
    BY <2>1
  <2>3. PICK i \in DOMAIN q : u = urls[i]
    BY <1>2, <1>4
  <2>4. PICK k \in DOMAIN tab[u] : e = tab[u][k]
    BY <1>8, <2>3
  <2>5. k \in DOMAIN q[i].streams
    BY <1>8, <2>3
  <2> QED BY <1>10, <2>2, <2>3, <2>4, <2>5
<1>12. ASSUME NEW i \in DOMAIN q, NEW j \in DOMAIN q, NEW k \in DOMAIN q[i].streams,
              NEW kk \in DOMAIN q[j].streams, Piece(q, i, k) = Piece(q, j, kk)
       PROVE  i = j /\ k = kk
  <2> DEFINE e == tab[urls[i]][k]
             f == tab[urls[j]][kk]
  <2>3. Piece(q, i, k) = Route(urls[i], <<e>>) /\ Piece(q, j, kk) = Route(urls[j], <<f>>)
    BY <1>10
  <2> HIDE DEF e, f
  <2>5. Route(urls[i], <<e>>) = Route(urls[j], <<f>>)
    BY <1>12, <2>3
  <2>6. \A u, v, x, y : Route(u, <<x>>) = Route(v, <<y>>) => u = v /\ x = y
    BY RouteFacts
  <2>4. urls[i] = urls[j] /\ e = f
    BY ONLY <2>5, <2>6
  <2>1. urls[i] = urls[j] /\ tab[urls[i]][k] = tab[urls[j]][kk]
    BY <2>4 DEF e, f
  <2>2. i = j
    BY <1>2, <1>4, <2>1
  <2> QED BY <1>8, <2>1, <2>2
<1>13. Packs(q, P)
  BY <1>5, <1>9, <1>10, <1>11, <1>12 DEF Packs
<1>14. Lists(Demuxed(q), P)
  BY <1>13, DemuxedLists
<1> QED BY <1>6, <1>14 DEF P, D, RoutesOf


-----------------------------------------------------------------------------
(* The tasks. *)

\* What a sequence of routes asks for.
Pieces(q) == UNION {{Piece(q, j, k) : k \in DOMAIN q[j].streams} : j \in DOMAIN q}

\* The tasks ts together ask for R, for each route once.
Divides(ts, R) ==
    /\ \A i \in DOMAIN ts : Packs(ts[i].routes, Pieces(ts[i].routes))
    /\ \A i, j \in DOMAIN ts : i # j => Pieces(ts[i].routes) \cap Pieces(ts[j].routes) = {}
    /\ R = UNION {Pieces(ts[i].routes) : i \in DOMAIN ts}

\* No two of the tasks ask for streams of the same network.
KeepsNetworks(ts) ==
    \A i, j \in DOMAIN ts : \A r \in Pieces(ts[i].routes) : \A s \in Pieces(ts[j].routes) :
        Network(r) = Network(s) => i = j

LEMMA PacksPieces ==
    ASSUME NEW q, NEW P, Packs(q, P)
    PROVE  Pieces(q) = P
<1>1. \A r \in P : \E j \in DOMAIN q : \E k \in DOMAIN q[j].streams : r = Piece(q, j, k)
  BY DEF Packs
<1>2. \A j \in DOMAIN q : \A k \in DOMAIN q[j].streams : Piece(q, j, k) \in P
  BY DEF Packs
<1>3. \A r : r \in Pieces(q) <=> \E j \in DOMAIN q : \E k \in DOMAIN q[j].streams : r = Piece(q, j, k)
  BY DEF Pieces
<1> DEFINE A == Pieces(q)
<1> HIDE DEF A
<1>4. \A r : r \in A <=> r \in P
  BY <1>1, <1>2, <1>3 DEF A
<1>5. A = P
  BY <1>4
<1> QED BY <1>5 DEF A

LEMMA ListDivides ==
    ASSUME NEW ts, NEW S, Lists(ts, S),
           \A t \in S : Packs(t.routes, Pieces(t.routes)),
           \A t, u \in S : t # u => Pieces(t.routes) \cap Pieces(u.routes) = {},
           NEW R, R = UNION {Pieces(t.routes) : t \in S}
    PROVE  Divides(ts, R)
<1>1. /\ \A i \in DOMAIN ts : ts[i] \in S
      /\ \A i, j \in DOMAIN ts : ts[i] = ts[j] => i = j
      /\ \A x \in S : \E i \in DOMAIN ts : x = ts[i]
  BY ListFacts
<1>2. R = UNION {Pieces(ts[i].routes) : i \in DOMAIN ts}
  BY <1>1
<1>3. \A i \in DOMAIN ts : Packs(ts[i].routes, Pieces(ts[i].routes))
  BY <1>1
<1>4. \A i, j \in DOMAIN ts : i # j => Pieces(ts[i].routes) \cap Pieces(ts[j].routes) = {}
  BY <1>1
<1> QED BY <1>2, <1>3, <1>4 DEF Divides

\* A task of each network.
ByNetwork(T, N, R) ==
    /\ N = {Network(r) : r \in R}
    /\ \A n \in N : Packs(T[n].routes, {r \in R : Network(r) = n})

InSequence(T, N) == SetToSeq({T[n] : n \in N})

LEMMA TaskOfEachNetwork ==
    ASSUME NEW R, NEW N, IsFiniteSet(N), NEW T, ByNetwork(T, N, R)
    PROVE  Divides(InSequence(T, N), R) /\ KeepsNetworks(InSequence(T, N))
<1> DEFINE S == {T[n] : n \in N}
           ts == SetToSeq(S)
           Of(n) == {r \in R : Network(r) = n}
           f == [n \in N |-> T[n]]
<1>1. IsFiniteSet(S)
  <2>1. DOMAIN f = N /\ f = [x \in DOMAIN f |-> f[x]] /\ {f[x] : x \in DOMAIN f} = S
    OBVIOUS
  <2> HIDE DEF f, S
  <2> QED BY <2>1, ImageFinite
<1>2. Lists(ts, S)
  <2> HIDE DEF S
  <2> QED BY <1>1, SetToSeqLists
<1>3. \A n \in N : Packs(T[n].routes, Of(n)) /\ Pieces(T[n].routes) = Of(n)
  <2> SUFFICES ASSUME NEW n \in N PROVE Packs(T[n].routes, Of(n)) /\ Pieces(T[n].routes) = Of(n)
    OBVIOUS
  <2>1. Packs(T[n].routes, Of(n))
    BY DEF ByNetwork
  <2> HIDE DEF Of
  <2> QED BY <2>1, PacksPieces
<1>4. \A t \in S : Packs(t.routes, Pieces(t.routes))
  BY <1>3
<1>5. ASSUME NEW t \in S, NEW u \in S,
             NEW r \in Pieces(t.routes), NEW s \in Pieces(u.routes), Network(r) = Network(s)
      PROVE  t = u
  <2>1. PICK n \in N : t = T[n]
    OBVIOUS
  <2>2. PICK m \in N : u = T[m]
    OBVIOUS
  <2>3. Network(r) = n
    BY <1>3, <2>1
  <2>4. Network(s) = m
    BY <1>3, <2>2
  <2> QED BY <1>5, <2>1, <2>2, <2>3, <2>4
<1>6. R = UNION {Pieces(t.routes) : t \in S}
  <2>1. R = UNION {Of(n) : n \in N}
    BY DEF ByNetwork
  <2>2. UNION {Pieces(t.routes) : t \in S} = UNION {Of(n) : n \in N}
    <3> HIDE DEF Of
    <3> QED BY <1>3
  <2> QED BY <2>1, <2>2
<1> HIDE DEF S, ts
<1>7. Divides(ts, R)
  <2>1. \A t, u \in S : t # u => Pieces(t.routes) \cap Pieces(u.routes) = {}
    BY <1>5
  <2> QED BY <1>2, <1>4, <1>6, <2>1, ListDivides
<1>8. KeepsNetworks(ts)
  <2>1. /\ \A i \in DOMAIN ts : ts[i] \in S
        /\ \A i, j \in DOMAIN ts : ts[i] = ts[j] => i = j
    BY <1>2, ListFacts
  <2> QED BY <1>5, <2>1 DEF KeepsNetworks
<1> QED BY <1>7, <1>8 DEF ts, S, InSequence

Group(n) == Picked(routes, {i \in DOMAIN routes : Network(routes[i]) = n})

Nets == {Network(r) : r \in ToSet(routes)}

LEMMA GroupsHold ==
    ASSUME NEW R, Lists(routes, R)
    PROVE  /\ Nets = {Network(r) : r \in R} /\ IsFiniteSet(Nets)
           /\ Groups = {Group(n) : n \in Nets}
           /\ \A n \in Nets : Lists(Group(n), {r \in R : Network(r) = n})
<1>1. /\ ToSet(routes) = R /\ \A i \in DOMAIN routes : routes[i] \in R
      /\ \A x \in R : \E i \in DOMAIN routes : x = routes[i]
  BY ListFacts
<1>2. Nets = {Network(r) : r \in R}
  BY <1>1 DEF Nets
<1>3. IsFiniteSet(Nets)
  <2> DEFINE f == [r \in R |-> Network(r)]
  <2>1. IsFiniteSet(R)
    BY ListFinite
  <2>2. DOMAIN f = R /\ f = [x \in DOMAIN f |-> f[x]] /\ {f[x] : x \in DOMAIN f} = Nets
    BY <1>2
  <2> HIDE DEF f
  <2> QED BY <2>1, <2>2, ImageFinite
<1>4. Groups = {Group(n) : n \in Nets}
  BY DEF Groups, Group, Nets
<1>5. ASSUME NEW n \in Nets
      PROVE  Lists(Group(n), {r \in R : Network(r) = n})
  <2> DEFINE places == {i \in DOMAIN routes : Network(routes[i]) = n}
  <2>1. Lists(Picked(routes, places), {routes[i] : i \in places})
    BY PickedLists
  <2>2. {routes[i] : i \in places} = {r \in R : Network(r) = n}
    BY <1>1
  <2> QED BY <2>1, <2>2 DEF Group
<1> QED BY <1>2, <1>3, <1>4, <1>5


LEMMA CombiningDivides ==
    ASSUME NEW R, Lists(routes, R), Singles(R)
    PROVE  Divides(CombiningTasks, R) /\ KeepsNetworks(CombiningTasks)
<1> DEFINE T == [n \in Nets |-> Combining(Group(n))]
           Of(n) == {r \in R : Network(r) = n}
<1>1. /\ Nets = {Network(r) : r \in R} /\ IsFiniteSet(Nets)
      /\ Groups = {Group(n) : n \in Nets}
      /\ \A n \in Nets : Lists(Group(n), Of(n))
  BY GroupsHold
<1>2. CombiningTasks = SetToSeq({T[n] : n \in Nets})
  <2>1. {Combining(g) : g \in Groups} = {T[n] : n \in Nets}
    BY <1>1
  <2> QED BY <2>1 DEF CombiningTasks
<1>3. \A n \in Nets : T[n].routes = Group(n)
  BY DEF Combining
<1>4. \A n \in Nets : Packs(T[n].routes, Of(n))
  <2> SUFFICES ASSUME NEW n \in Nets PROVE Packs(T[n].routes, Of(n))
    OBVIOUS
  <2>1. Singles(Of(n))
    BY DEF Singles
  <2>2. Lists(Group(n), Of(n))
    BY <1>1
  <2> HIDE DEF Of, T
  <2> QED BY <1>3, <2>1, <2>2, SinglesPack
<1> HIDE DEF T
<1>5. ByNetwork(T, Nets, R)
  BY <1>1, <1>4 DEF ByNetwork
<1>6. Divides(InSequence(T, Nets), R) /\ KeepsNetworks(InSequence(T, Nets))
  BY <1>1, <1>5, TaskOfEachNetwork
<1> QED BY <1>2, <1>6 DEF InSequence

\* The routes of a default task of one route.
LEMMA DefaultPieces ==
    ASSUME NEW m, NEW P, Packs(m, P), NEW i \in DOMAIN m
    PROVE  LET q == Default(m[i]).routes
           IN  /\ q = <<m[i]>>
               /\ Packs(q, Pieces(q))
               /\ \A r : r \in Pieces(q) <=> \E k \in DOMAIN m[i].streams : r = Piece(m, i, k)
<1> DEFINE q == Default(m[i]).routes
<1>1. q = <<m[i]>>
  BY DEF Default
<1>2. DOMAIN q = {1} /\ q[1] = m[i] /\ IsSeq(q)
  BY <1>1, RouteFacts
<1> HIDE DEF q
<1>3. \A k : Piece(q, 1, k) = Piece(m, i, k)
  BY <1>2 DEF Piece
<1>4. \A r : r \in Pieces(q) <=> \E k \in DOMAIN m[i].streams : r = Piece(m, i, k)
  <2>1. \A r : r \in Pieces(q) <=> \E j \in DOMAIN q : \E k \in DOMAIN q[j].streams : r = Piece(q, j, k)
    BY DEF Pieces
  <2> QED BY <1>2, <1>3, <2>1
<1>5. /\ IsSeq(m[i].streams)
      /\ \A k, kk \in DOMAIN m[i].streams : Piece(m, i, k) = Piece(m, i, kk) => k = kk
  BY DEF Packs
<1>6. Packs(q, Pieces(q))
  <2>1. \A j \in DOMAIN q : j = 1 /\ q[j].streams = m[i].streams /\ IsSeq(q[j].streams)
    BY <1>2, <1>5
  <2>2. \A j \in DOMAIN q : \A k \in DOMAIN q[j].streams : Piece(q, j, k) \in Pieces(q)
    BY <1>3, <1>4, <2>1
  <2>3. \A r \in Pieces(q) : \E j \in DOMAIN q : \E k \in DOMAIN q[j].streams : r = Piece(q, j, k)
    BY <1>2, <1>3, <1>4
  <2>4. \A j, jj \in DOMAIN q : \A k \in DOMAIN q[j].streams : \A kk \in DOMAIN q[jj].streams :
            Piece(q, j, k) = Piece(q, jj, kk) => j = jj /\ k = kk
    BY <1>3, <1>5, <2>1
  <2> QED BY <1>2, <2>1, <2>2, <2>3, <2>4 DEF Packs
<1> QED BY <1>1, <1>4, <1>6 DEF q

LEMMA AdaptiveDivides ==
    ASSUME NEW R, Lists(routes, R), Singles(R)
    PROVE  Divides(AdaptiveTasks, R) /\ KeepsNetworks(AdaptiveTasks)
<1> DEFINE One(m) == IF Len(m) > 1 THEN Combining(Demuxed(m)) ELSE Default(m[1])
           T == [n \in Nets |-> One(Muxed(Group(n)))]
           Of(n) == {r \in R : Network(r) = n}
<1>1. /\ Nets = {Network(r) : r \in R} /\ IsFiniteSet(Nets)
      /\ Groups = {Group(n) : n \in Nets}
      /\ \A n \in Nets : Lists(Group(n), Of(n))
  BY GroupsHold
<1>2. AdaptiveTasks = SetToSeq({T[n] : n \in Nets})
  <2>1. {One(m) : m \in {Muxed(g) : g \in Groups}} = {T[n] : n \in Nets}
    <3>1. \A n \in Nets : T[n] = One(Muxed(Group(n)))
      OBVIOUS
    <3>2. Groups = {Group(n) : n \in Nets}
      BY <1>1
    <3> HIDE DEF One, T
    <3> QED BY <3>1, <3>2
  <2> QED BY <2>1 DEF AdaptiveTasks
<1>3. \A n \in Nets : Packs(T[n].routes, Of(n))
  <2> SUFFICES ASSUME NEW n \in Nets PROVE Packs(T[n].routes, Of(n))
    OBVIOUS
  <2> DEFINE P == Of(n)
             m == Muxed(Group(n))
  <2>7. Singles(P)
    BY DEF Singles
  <2>10. Nets = {Network(r) : r \in R}
    BY <1>1
  <2>9. PICK w \in R : Network(w) = n
    BY <2>10
  <2>8. P # {}
    BY <2>9
  <2>1. Singles(P) /\ P # {}
    BY <2>7, <2>8
  <2>2. Lists(Group(n), P)
    BY <1>1
  <2>3. T[n] = One(m)
    OBVIOUS
  <2> HIDE DEF T, P
  <2>4. Packs(m, P) /\ Len(m) \in Nat /\ DOMAIN m = 1 .. Len(m) /\ Len(m) >= 1
    BY <2>1, <2>2, MuxedPacks
  <2> HIDE DEF m
  <2>5. CASE Len(m) > 1
    <3>1. Lists(Demuxed(m), P)
      BY <2>4, DemuxedLists
    <3>2. Packs(Demuxed(m), P)
      BY <2>1, <3>1, SinglesPack
    <3>3. T[n].routes = Demuxed(m)
      BY <2>3, <2>5 DEF Combining
    <3> QED BY <3>2, <3>3 DEF P
  <2>6. CASE ~(Len(m) > 1)
    <3>1. DOMAIN m = {1}
      BY <2>4, <2>6
    <3> DEFINE q == Default(m[1]).routes
    <3>2. /\ Packs(q, Pieces(q))
          /\ \A r : r \in Pieces(q) <=> \E k \in DOMAIN m[1].streams : r = Piece(m, 1, k)
      BY <2>4, <3>1, DefaultPieces
    <3>3. T[n].routes = q
      BY <2>3, <2>6
    <3> HIDE DEF q
    <3>6. \A k \in DOMAIN m[1].streams : Piece(m, 1, k) \in P
      BY <2>4, <3>1 DEF Packs
    <3>7. \A r \in P : \E j \in DOMAIN m : \E k \in DOMAIN m[j].streams : r = Piece(m, j, k)
      BY <2>4 DEF Packs
    <3>8. \A r \in P : \E k \in DOMAIN m[1].streams : r = Piece(m, 1, k)
      BY <3>1, <3>7
    <3>4. \A r : r \in P <=> \E k \in DOMAIN m[1].streams : r = Piece(m, 1, k)
      BY <3>6, <3>8
    <3>5. Pieces(q) = P
      <4> DEFINE A == Pieces(q)
      <4> HIDE DEF A
      <4>1. \A r : r \in A <=> r \in P
        BY <3>2, <3>4 DEF A
      <4>2. A = P
        BY <4>1
      <4> QED BY <4>2 DEF A
    <3> QED BY <3>2, <3>3, <3>5 DEF P
  <2> QED BY <2>5, <2>6
<1> HIDE DEF T
<1>5. ByNetwork(T, Nets, R)
  BY <1>1, <1>3 DEF ByNetwork
<1>6. Divides(InSequence(T, Nets), R) /\ KeepsNetworks(InSequence(T, Nets))
  BY <1>1, <1>5, TaskOfEachNetwork
<1> QED BY <1>2, <1>6 DEF InSequence

LEMMA GranularDivides ==
    ASSUME NEW R, Lists(routes, R), Singles(R)
    PROVE  Divides(GranularTasks, R)
<1>1. Packs(routes, R)
  BY SinglesPack
<1>2. GranularTasks = [i \in DOMAIN routes |-> Default(routes[i])]
  BY DEF GranularTasks, DefaultEach
<1> DEFINE ts == GranularTasks
<1>3. DOMAIN ts = DOMAIN routes /\ \A i \in DOMAIN ts : ts[i] = Default(routes[i])
  BY <1>2
<1> HIDE DEF ts
<1>4. ASSUME NEW i \in DOMAIN ts
      PROVE  /\ Packs(ts[i].routes, Pieces(ts[i].routes))
             /\ \A r : r \in Pieces(ts[i].routes) <=>
                    \E k \in DOMAIN routes[i].streams : r = Piece(routes, i, k)
  BY <1>1, <1>3, DefaultPieces
<1>5. /\ \A j \in DOMAIN routes : \A k \in DOMAIN routes[j].streams : Piece(routes, j, k) \in R
      /\ \A r \in R : \E j \in DOMAIN routes : \E k \in DOMAIN routes[j].streams : r = Piece(routes, j, k)
      /\ \A j, jj \in DOMAIN routes : \A k \in DOMAIN routes[j].streams : \A kk \in DOMAIN routes[jj].streams :
            Piece(routes, j, k) = Piece(routes, jj, kk) => j = jj /\ k = kk
  BY <1>1 DEF Packs
<1>6. \A i, j \in DOMAIN ts : i # j => Pieces(ts[i].routes) \cap Pieces(ts[j].routes) = {}
  BY <1>3, <1>4, <1>5
<1>7. R = UNION {Pieces(ts[i].routes) : i \in DOMAIN ts}
  <2> DEFINE A == UNION {Pieces(ts[i].routes) : i \in DOMAIN ts}
  <2>1. \A r : r \in A <=> \E i \in DOMAIN ts : r \in Pieces(ts[i].routes)
    OBVIOUS
  <2> HIDE DEF A
  <2>4. ASSUME NEW r \in A
        PROVE  r \in R
    <3>1. PICK i \in DOMAIN ts : r \in Pieces(ts[i].routes)
      BY <2>1
    <3>2. PICK k \in DOMAIN routes[i].streams : r = Piece(routes, i, k)
      BY <1>4, <3>1
    <3> QED BY <1>3, <1>5, <3>2
  <2>5. ASSUME NEW r \in R
        PROVE  r \in A
    <3>1. PICK i \in DOMAIN routes : \E k \in DOMAIN routes[i].streams : r = Piece(routes, i, k)
      BY <1>5
    <3>2. i \in DOMAIN ts
      BY <1>3
    <3>3. r \in Pieces(ts[i].routes)
      BY <1>4, <3>1, <3>2
    <3> QED BY <2>1, <3>2, <3>3
  <2>2. \A r : r \in A <=> r \in R
    BY <2>4, <2>5
  <2>3. A = R
    BY <2>2
  <2> QED BY <2>3 DEF A
<1> QED BY <1>4, <1>6, <1>7 DEF Divides, ts


LEMMA BulkDivides ==
    ASSUME NEW R, Lists(routes, R), Singles(R)
    PROVE  Divides(BulkTasks, R)
<1> DEFINE Of(n) == {r \in R : Network(r) = n}
           M(n) == Muxed(Group(n))
           DS == {DefaultEach(M(n)) : n \in Nets}
           ss == SetToSeq(DS)
           S == UNION {ToSet(D) : D \in DS}
<1>1. /\ Nets = {Network(r) : r \in R} /\ IsFiniteSet(Nets)
      /\ Groups = {Group(n) : n \in Nets}
      /\ \A n \in Nets : Lists(Group(n), Of(n))
  BY GroupsHold
<1>2. BulkTasks = FlattenSeq(ss)
  <2>1. {DefaultEach(Muxed(g)) : g \in Groups} = DS
    BY <1>1
  <2> QED BY <2>1 DEF BulkTasks
<1>3. ASSUME NEW n \in Nets
      PROVE  /\ Packs(M(n), Of(n))
             /\ Len(M(n)) \in Nat /\ DOMAIN M(n) = 1 .. Len(M(n))
             /\ \A i \in DOMAIN M(n) : DOMAIN M(n)[i].streams # {}
  <2>1. Lists(Group(n), Of(n))
    BY <1>1
  <2>2. Singles(Of(n))
    BY DEF Singles
  <2> HIDE DEF Of
  <2> QED BY <2>1, <2>2, MuxedPacks
<1>4. IsFiniteSet(DS)
  <2> DEFINE f == [n \in Nets |-> DefaultEach(M(n))]
  <2> HIDE DEF M
  <2>1. DOMAIN f = Nets /\ f = [x \in DOMAIN f |-> f[x]] /\ {f[x] : x \in DOMAIN f} = DS
    OBVIOUS
  <2> HIDE DEF f, DS
  <2> QED BY <1>1, <2>1, ImageFinite
<1> HIDE DEF M
<1>5. ASSUME NEW n \in Nets
      PROVE  LET D == DefaultEach(M(n))
             IN  /\ DOMAIN D = DOMAIN M(n)
                 /\ \A i \in DOMAIN D : D[i] = Default(M(n)[i])
                 /\ IsSeq(D)
  <2> DEFINE D == DefaultEach(M(n))
  <2>1. D = [i \in DOMAIN M(n) |-> Default(M(n)[i])]
    BY DEF DefaultEach
  <2>2. DOMAIN D = DOMAIN M(n) /\ \A i \in DOMAIN D : D[i] = Default(M(n)[i])
    BY <2>1
  <2>3. IsSeq(D)
    <3> DEFINE V == {Default(M(n)[i]) : i \in DOMAIN M(n)}
    <3>1. D \in [1 .. Len(M(n)) -> V]
      BY <1>3, <2>1
    <3> HIDE DEF D, V
    <3>2. D \in Seq(V)
      BY <1>3, <3>1
    <3> QED BY <3>2, IsSeqFacts
  <2> QED BY <2>2, <2>3
<1>6. ASSUME NEW n \in Nets, NEW i \in DOMAIN M(n)
      PROVE  LET q == Default(M(n)[i]).routes
             IN  /\ Packs(q, Pieces(q))
                 /\ \A r : r \in Pieces(q) <=> \E k \in DOMAIN M(n)[i].streams : r = Piece(M(n), i, k)
                 /\ \A r \in Pieces(q) : r \in R /\ Network(r) = n
  <2> DEFINE q == Default(M(n)[i]).routes
  <2>1. Packs(M(n), Of(n))
    BY <1>3
  <2>2. /\ Packs(q, Pieces(q))
        /\ \A r : r \in Pieces(q) <=> \E k \in DOMAIN M(n)[i].streams : r = Piece(M(n), i, k)
    BY <2>1, DefaultPieces
  <2>3. \A k \in DOMAIN M(n)[i].streams : Piece(M(n), i, k) \in Of(n)
    BY <2>1 DEF Packs
  <2> HIDE DEF q
  <2>4. \A r \in Pieces(q) : r \in R /\ Network(r) = n
    BY <2>2, <2>3
  <2> QED BY <2>2, <2>4 DEF q
\* Two default tasks that share a piece are one.
<1>7. ASSUME NEW n \in Nets, NEW i \in DOMAIN M(n), NEW m \in Nets, NEW j \in DOMAIN M(m),
             NEW r, r \in Pieces(Default(M(n)[i]).routes), r \in Pieces(Default(M(m)[j]).routes)
      PROVE  n = m /\ i = j
  <2>1. Network(r) = n
    BY <1>6, <1>7
  <2>2. Network(r) = m
    BY <1>6, <1>7
  <2>3. n = m
    BY <2>1, <2>2
  <2>4. PICK k \in DOMAIN M(n)[i].streams : r = Piece(M(n), i, k)
    BY <1>6, <1>7
  <2>5. PICK kk \in DOMAIN M(n)[j].streams : r = Piece(M(n), j, kk)
    BY <1>6, <1>7, <2>3
  <2>6. \A a, b \in DOMAIN M(n) : \A x \in DOMAIN M(n)[a].streams : \A y \in DOMAIN M(n)[b].streams :
            Piece(M(n), a, x) = Piece(M(n), b, y) => a = b /\ x = y
    BY <1>3 DEF Packs
  <2>8. j \in DOMAIN M(n) /\ Piece(M(n), i, k) = Piece(M(n), j, kk)
    BY <2>3, <2>4, <2>5
  <2>7. i = j
    BY <2>6, <2>8
  <2> QED BY <2>3, <2>7
<1>8. ASSUME NEW n \in Nets, NEW i \in DOMAIN M(n)
      PROVE  \E r : r \in Pieces(Default(M(n)[i]).routes)
  <2>1. PICK k \in DOMAIN M(n)[i].streams : TRUE
    BY <1>3
  <2>2. Piece(M(n), i, k) \in Pieces(Default(M(n)[i]).routes)
    BY <1>6
  <2> QED BY <2>2
<1>9. \A t : t \in S <=> \E n \in Nets : \E i \in DOMAIN M(n) : t = Default(M(n)[i])
  <2>1. \A t : t \in S <=> \E n \in Nets : t \in ToSet(DefaultEach(M(n)))
    OBVIOUS
  <2>2. \A n \in Nets : \A t : t \in ToSet(DefaultEach(M(n))) <=> \E i \in DOMAIN M(n) : t = Default(M(n)[i])
    BY <1>5 DEF ToSet
  <2> QED BY <2>1, <2>2
<1>10. ASSUME NEW D \in DS
       PROVE  Lists(D, ToSet(D))
  <2>1. PICK n \in Nets : D = DefaultEach(M(n))
    OBVIOUS
  <2>2. /\ DOMAIN D = DOMAIN M(n) /\ \A i \in DOMAIN D : D[i] = Default(M(n)[i])
        /\ D \in Seq(ToSet(D))
    BY <1>5, <2>1 DEF IsSeq
  <2>3. ASSUME NEW i \in DOMAIN D, NEW j \in DOMAIN D, D[i] = D[j]
        PROVE  i = j
    <3>1. PICK r : r \in Pieces(Default(M(n)[i]).routes)
      BY <1>8, <2>2
    <3>2. Default(M(n)[i]) = Default(M(n)[j])
      BY <2>2, <2>3
    <3>3. r \in Pieces(Default(M(n)[j]).routes)
      BY <3>1, <3>2
    <3> QED BY <1>7, <2>2, <3>1, <3>3
  <2>4. \A x \in ToSet(D) : \E i \in DOMAIN D : x = D[i]
    BY DEF ToSet
  <2> QED BY <2>2, <2>3, <2>4 DEF Lists
<1>11. ASSUME NEW D \in DS, NEW E \in DS, D # E
       PROVE  ToSet(D) \cap ToSet(E) = {}
  <2> SUFFICES ASSUME NEW t, t \in ToSet(D), t \in ToSet(E)
               PROVE  FALSE
    OBVIOUS
  <2>1. PICK n \in Nets : D = DefaultEach(M(n))
    OBVIOUS
  <2>2. PICK m \in Nets : E = DefaultEach(M(m))
    OBVIOUS
  <2>3. PICK i \in DOMAIN M(n) : t = Default(M(n)[i])
    BY <1>5, <2>1 DEF ToSet
  <2>4. PICK j \in DOMAIN M(m) : t = Default(M(m)[j])
    BY <1>5, <2>2 DEF ToSet
  <2>5. PICK r : r \in Pieces(Default(M(n)[i]).routes)
    BY <1>8
  <2>6. r \in Pieces(Default(M(m)[j]).routes)
    BY <2>3, <2>4, <2>5
  <2>7. n = m
    BY <1>7, <2>5, <2>6
  <2> QED BY <1>11, <2>1, <2>2, <2>7
<1> DEFINE ts == FlattenSeq(ss)
<1>12. Lists(ts, S)
  <2>1. Lists(ss, DS)
    <3> HIDE DEF DS
    <3> QED BY <1>4, SetToSeqLists
  <2> HIDE DEF DS, ss
  <2>2. /\ Len(ss) \in Nat /\ DOMAIN ss = 1 .. Len(ss) /\ ss \in Seq(DS)
        /\ \A i \in DOMAIN ss : ss[i] \in DS
        /\ \A i, j \in DOMAIN ss : ss[i] = ss[j] => i = j
        /\ \A D \in DS : \E i \in DOMAIN ss : D = ss[i]
    BY <2>1, ListFacts
  <2> DEFINE F == [i \in 1 .. Len(ss) |-> ToSet(ss[i])]
  <2>3. \A i \in 1 .. Len(ss) : F[i] = ToSet(ss[i])
    OBVIOUS
  <2> HIDE DEF F
  <2>4. \A i \in 1 .. Len(ss) : Lists(ss[i], F[i])
    BY <1>10, <2>2, <2>3
  <2>5. \A i, j \in 1 .. Len(ss) : i # j => F[i] \cap F[j] = {}
    BY <1>11, <2>2, <2>3
  <2>6. Lists(FlattenSeq(ss), UNION {F[i] : i \in 1 .. Len(ss)})
    BY <2>2, <2>4, <2>5, FlattenLists
  <2>7. UNION {F[i] : i \in 1 .. Len(ss)} = S
    BY <2>2, <2>3
  <2> QED BY <2>6, <2>7
<1> HIDE DEF S, ss, ts, DS
<1>13. \A t \in S : Packs(t.routes, Pieces(t.routes))
  BY <1>6, <1>9
<1>14. ASSUME NEW t \in S, NEW u \in S, t # u
       PROVE  Pieces(t.routes) \cap Pieces(u.routes) = {}
  <2> SUFFICES ASSUME NEW r, r \in Pieces(t.routes), r \in Pieces(u.routes)
               PROVE  FALSE
    OBVIOUS
  <2>1. PICK n \in Nets : \E i \in DOMAIN M(n) : t = Default(M(n)[i])
    BY <1>9
  <2>2. PICK i \in DOMAIN M(n) : t = Default(M(n)[i])
    BY <2>1
  <2>3. PICK m \in Nets : \E j \in DOMAIN M(m) : u = Default(M(m)[j])
    BY <1>9
  <2>4. PICK j \in DOMAIN M(m) : u = Default(M(m)[j])
    BY <2>3
  <2>5. n = m /\ i = j
    BY <1>7, <2>2, <2>4
  <2> QED BY <1>14, <2>2, <2>4, <2>5
<1>15. R = UNION {Pieces(t.routes) : t \in S}
  <2> DEFINE A == UNION {Pieces(t.routes) : t \in S}
  <2>1. \A r : r \in A <=> \E t \in S : r \in Pieces(t.routes)
    OBVIOUS
  <2> HIDE DEF A
  <2>2. ASSUME NEW r \in A
        PROVE  r \in R
    <3>1. PICK t \in S : r \in Pieces(t.routes)
      BY <2>1
    <3>2. PICK n \in Nets : \E i \in DOMAIN M(n) : t = Default(M(n)[i])
      BY <1>9
    <3> QED BY <1>6, <3>1, <3>2
  <2>3. ASSUME NEW r \in R
        PROVE  r \in A
    <3> DEFINE n == Network(r)
    <3>1. n \in Nets
      BY <1>1
    <3>2. r \in Of(n)
      OBVIOUS
    <3>3. Packs(M(n), Of(n))
      BY <1>3, <3>1
    <3> HIDE DEF n
    <3>4. PICK i \in DOMAIN M(n) : \E k \in DOMAIN M(n)[i].streams : r = Piece(M(n), i, k)
      BY <3>2, <3>3 DEF Packs
    <3>5. r \in Pieces(Default(M(n)[i]).routes)
      BY <1>6, <3>1, <3>4
    <3>6. Default(M(n)[i]) \in S
      BY <1>9, <3>1
    <3> QED BY <2>1, <3>5, <3>6
  <2>4. A = R
    BY <2>2, <2>3
  <2> QED BY <2>4 DEF A
<1>16. Divides(ts, R)
  BY <1>12, <1>13, <1>14, <1>15, ListDivides
<1> QED BY <1>2, <1>16 DEF ts

\* Whatever the strategy, its tasks divide the routes left; where StationXML
\* is combined they keep networks together.
LEMMA TasksDivide ==
    ASSUME NEW R, Lists(routes, R), Singles(R), strategy \in Allowed(request)
    PROVE  /\ Divides(Tasks, R)
           /\ request.service = "station" /\ request.format = "xml" => KeepsNetworks(Tasks)
<1>1. CASE strategy = "granular"
  BY <1>1, GranularDivides DEF Tasks, Allowed
<1>2. CASE strategy = "bulk"
  BY <1>2, BulkDivides DEF Tasks, Allowed
<1>3. CASE strategy = "adaptive-bulk"
  BY <1>3, AdaptiveDivides DEF Tasks
<1>4. CASE strategy = "combining"
  BY <1>4, CombiningDivides DEF Tasks
<1> QED BY <1>1, <1>2, <1>3, <1>4 DEF Allowed


-----------------------------------------------------------------------------
(* What is left of the answer, and what the tasks ask for. *)

\* Routes of single epochs, as read, to the endpoints within the budget.
RS == UNION {{Route(m.url, <<Read(se)>>) : se \in m.streams} : m \in {x \in Answer : InBudget(x.url)}}

LEMMA InRS ==
    \A r : r \in RS <=> \E m \in Answer : \E se \in m.streams :
                           InBudget(m.url) /\ r = Route(m.url, <<Read(se)>>)
<1> DEFINE P(m) == {Route(m.url, <<Read(se)>>) : se \in m.streams}
<1>1. \A m : \A r : r \in P(m) <=> \E se \in m.streams : r = Route(m.url, <<Read(se)>>)
  <2> SUFFICES ASSUME NEW m, NEW r
               PROVE  r \in P(m) <=> \E se \in m.streams : r = Route(m.url, <<Read(se)>>)
    OBVIOUS
  <2> QED BY DEF Route
<1>2. RS = UNION {P(m) : m \in {x \in Answer : InBudget(x.url)}}
  BY DEF RS
<1> HIDE DEF P
<1>3. \A r : r \in RS <=> \E m \in Answer : InBudget(m.url) /\ r \in P(m)
  BY <1>2
<1>4. ASSUME NEW r \in RS
      PROVE  \E m \in Answer : \E se \in m.streams : InBudget(m.url) /\ r = Route(m.url, <<Read(se)>>)
  <2>1. PICK m \in Answer : InBudget(m.url) /\ r \in P(m)
    BY <1>3
  <2>2. PICK se \in m.streams : r = Route(m.url, <<Read(se)>>)
    BY <1>1, <2>1
  <2> QED BY <2>1, <2>2
<1>5. ASSUME NEW m \in Answer, NEW se \in m.streams, InBudget(m.url)
      PROVE  Route(m.url, <<Read(se)>>) \in RS
  <2>1. Route(m.url, <<Read(se)>>) \in P(m)
    BY <1>1
  <2> QED BY <1>3, <1>5, <2>1
<1> QED BY <1>4, <1>5

LEMMA RSSingles == Singles(RS)
<1> SUFFICES ASSUME NEW r \in RS PROVE r = Route(r.url, <<r.streams[1]>>)
  BY DEF Singles
<1>1. PICK m \in Answer : \E se \in m.streams : r = Route(m.url, <<Read(se)>>)
  BY InRS
<1>2. PICK se \in m.streams : r = Route(m.url, <<Read(se)>>)
  BY <1>1
<1> DEFINE e == Read(se)
<1>3. r.url = m.url /\ r.streams = <<e>> /\ <<e>>[1] = e
  BY <1>2, RouteFacts
<1> QED BY <1>2, <1>3

LEMMA FilteredLists ==
    ASSUME TakenRequest, NEW d \in Nat, FoundFor(d), found # {}, TableHas(table, Rs, Len(Rs))
    PROVE  Lists(Demux(Filtered), RS)
<1> DEFINE n == Len(Rs)
           D == DOMAIN Filtered
           R(m) == {Read(se) : se \in m.streams}
           G == [u \in D |-> UNION {R(m) : m \in {x \in Answer : x.url = u}}]
<1>1. /\ n \in Nat /\ \A k \in 1 .. n : Rs[k] \in Answer
      /\ \A m \in Answer : \E k \in 1 .. n : m = Rs[k]
      /\ \A i, j \in 1 .. n : Rs[i].url = Rs[j].url => i = j
  BY RsList
<1>2. DOMAIN table = {Rs[i].url : i \in 1 .. n} /\ \A i \in 1 .. n : Lists(table[Rs[i].url], R(Rs[i]))
  BY DEF TableHas
<1>3. D = {v \in DOMAIN table : InBudget(v)} /\ \A u \in D : Filtered[u] = table[u]
  BY DEF Filtered
<1>4. IsFiniteSet(D)
  <2> DEFINE f == [i \in 1 .. n |-> Rs[i].url]
  <2>1. DOMAIN f = 1 .. n /\ f = [x \in DOMAIN f |-> f[x]] /\ {f[x] : x \in DOMAIN f} = DOMAIN table
    BY <1>2
  <2> HIDE DEF f
  <2>2. IsFiniteSet(DOMAIN table)
    <3>1. IsFiniteSet(DOMAIN f)
      <4>1. IsFiniteSet(1 .. n)
        BY <1>1, FS_Interval
      <4> QED BY <2>1, <4>1
    <3>2. IsFiniteSet({f[x] : x \in DOMAIN f})
      BY <2>1, <3>1, ImageFinite
    <3> QED BY <2>1, <3>2
  <2> HIDE DEF D
  <2> QED BY <1>3, <2>2, FS_Subset
<1> HIDE DEF D, R
<1>5. ASSUME NEW m \in Answer, InBudget(m.url)
      PROVE  m.url \in D /\ G[m.url] = R(m)
  <2>1. PICK i \in 1 .. n : m = Rs[i]
    BY <1>1
  <2>2. m.url \in D
    BY <1>2, <1>3, <1>5, <2>1
  <2>3. \A x \in Answer : x.url = m.url => x = m
    BY <1>1
  <2>4. {x \in Answer : x.url = m.url} = {m}
    BY <2>3
  <2> QED BY <2>2, <2>4
<1>6. ASSUME NEW u \in D
      PROVE  /\ \E m \in Answer : m.url = u /\ InBudget(m.url)
             /\ Lists(Filtered[u], G[u])
  <2>1. PICK i \in 1 .. n : u = Rs[i].url
    BY <1>2, <1>3
  <2>2. Rs[i] \in Answer /\ InBudget(Rs[i].url)
    BY <1>1, <1>3, <2>1
  <2>3. G[u] = R(Rs[i])
    BY <1>5, <2>1, <2>2
  <2>4. Lists(table[u], R(Rs[i]))
    BY <1>2, <2>1
  <2>5. Filtered[u] = table[u]
    BY <1>3
  <2> HIDE DEF G
  <2> QED BY <2>1, <2>2, <2>3, <2>4, <2>5
<1> HIDE DEF G
<1> DEFINE P == RoutesOf(D, G)
<1>7. Lists(Demux(Filtered), P)
  <2>1. \A u \in DOMAIN Filtered : Lists(Filtered[u], G[u])
    BY <1>6 DEF D
  <2>2. IsFiniteSet(DOMAIN Filtered)
    BY <1>4 DEF D
  <2>3. Lists(Demux(Filtered), RoutesOf(DOMAIN Filtered, G))
    BY <2>1, <2>2, DemuxLists
  <2> QED BY <2>3 DEF D
<1>8. \A r : r \in P <=> \E u \in D : \E e \in G[u] : r = Route(u, <<e>>)
  BY DEF Route, RoutesOf
<1> HIDE DEF P
<1>9. ASSUME NEW r \in P
      PROVE  r \in RS
  <2>1. PICK u \in D : \E e \in G[u] : r = Route(u, <<e>>)
    BY <1>8
  <2>2. PICK e \in G[u] : r = Route(u, <<e>>)
    BY <2>1
  <2>3. PICK m \in Answer : m.url = u /\ InBudget(m.url)
    BY <1>6
  <2>4. e \in R(m)
    BY <1>5, <2>2, <2>3
  <2>5. PICK se \in m.streams : e = Read(se)
    BY <2>4 DEF R
  <2> QED BY <2>2, <2>3, <2>5, InRS
<1>10. ASSUME NEW r \in RS
       PROVE  r \in P
  <2>1. PICK m \in Answer : \E se \in m.streams : InBudget(m.url) /\ r = Route(m.url, <<Read(se)>>)
    BY InRS
  <2>2. PICK se \in m.streams : InBudget(m.url) /\ r = Route(m.url, <<Read(se)>>)
    BY <2>1
  <2>3. Read(se) \in R(m)
    BY DEF R
  <2>4. m.url \in D /\ Read(se) \in G[m.url]
    BY <1>5, <2>2, <2>3
  <2> QED BY <1>8, <2>2, <2>4
<1>11. P = RS
  BY <1>9, <1>10
<1> QED BY <1>7, <1>11

LEMMA IssuedFacts ==
    ASSUME NEW R, Divides(tasks, R), Singles(R)
    PROVE  /\ \A x \in Issued : /\ Route(Url(x), <<Se(x)>>) \in R
                                /\ x[1] \in DOMAIN tasks
                                /\ Route(Url(x), <<Se(x)>>) \in Pieces(tasks[x[1]].routes)
           /\ \A r \in R : \E x \in Issued : r = Route(Url(x), <<Se(x)>>)
           /\ \A x, y \in Issued : Route(Url(x), <<Se(x)>>) = Route(Url(y), <<Se(y)>>) => x = y
<1> DEFINE q(i) == tasks[i].routes
           W(i, j, k) == i \in DOMAIN tasks /\ j \in DOMAIN q(i) /\ k \in DOMAIN q(i)[j].streams
<1>1. /\ \A i \in DOMAIN tasks : Packs(q(i), Pieces(q(i)))
      /\ \A i, j \in DOMAIN tasks : i # j => Pieces(q(i)) \cap Pieces(q(j)) = {}
      /\ R = UNION {Pieces(q(i)) : i \in DOMAIN tasks}
  BY DEF Divides
<1>2. \A x \in Issued : x = <<x[1], x[2], x[3]>> /\ W(x[1], x[2], x[3])
  <2> SUFFICES ASSUME NEW x \in Issued PROVE x = <<x[1], x[2], x[3]>> /\ W(x[1], x[2], x[3])
    OBVIOUS
  <2>1. PICK i \in DOMAIN tasks : x \in UNION {{<<i, j, k>> : k \in DOMAIN tasks[i].routes[j].streams} :
                                        j \in DOMAIN tasks[i].routes}
    BY DEF Issued
  <2>2. PICK j \in DOMAIN tasks[i].routes : x \in {<<i, j, k>> : k \in DOMAIN tasks[i].routes[j].streams}
    BY <2>1
  <2>3. PICK k \in DOMAIN tasks[i].routes[j].streams : x = <<i, j, k>>
    BY <2>2
  <2> QED BY <2>3
<1>3. \A i, j, k : W(i, j, k) => <<i, j, k>> \in Issued
  BY DEF Issued
<1>4. \A i, j, k : Piece(q(i), j, k) = Route(Url(<<i, j, k>>), <<Se(<<i, j, k>>)>>)
  BY DEF Piece, Url, Se
<1> HIDE DEF q
<1>5. \A x \in Issued : Piece(q(x[1]), x[2], x[3]) = Route(Url(x), <<Se(x)>>)
  BY <1>2, <1>4
<1>6. ASSUME NEW i \in DOMAIN tasks
      PROVE  /\ \A j \in DOMAIN q(i) : \A k \in DOMAIN q(i)[j].streams : Piece(q(i), j, k) \in Pieces(q(i))
             /\ \A r \in Pieces(q(i)) : \E j \in DOMAIN q(i) : \E k \in DOMAIN q(i)[j].streams : r = Piece(q(i), j, k)
             /\ \A j, jj \in DOMAIN q(i) : \A k \in DOMAIN q(i)[j].streams : \A kk \in DOMAIN q(i)[jj].streams :
                   Piece(q(i), j, k) = Piece(q(i), jj, kk) => j = jj /\ k = kk
  <2>1. Packs(q(i), Pieces(q(i)))
    BY <1>1
  <2> QED BY <2>1 DEF Packs
<1>7. ASSUME NEW x \in Issued
      PROVE  /\ x[1] \in DOMAIN tasks
             /\ Route(Url(x), <<Se(x)>>) \in Pieces(q(x[1])) /\ Route(Url(x), <<Se(x)>>) \in R
  <2>1. x[1] \in DOMAIN tasks /\ Piece(q(x[1]), x[2], x[3]) \in Pieces(q(x[1]))
    BY <1>2, <1>6
  <2> QED BY <1>1, <1>5, <2>1
<1>8. ASSUME NEW r \in R
      PROVE  \E x \in Issued : r = Route(Url(x), <<Se(x)>>)
  <2>1. PICK i \in DOMAIN tasks : r \in Pieces(q(i))
    BY <1>1
  <2>2. PICK j \in DOMAIN q(i) : \E k \in DOMAIN q(i)[j].streams : r = Piece(q(i), j, k)
    BY <1>6, <2>1
  <2>3. PICK k \in DOMAIN q(i)[j].streams : r = Piece(q(i), j, k)
    BY <2>2
  <2>4. <<i, j, k>> \in Issued
    BY <1>3
  <2> QED BY <1>4, <2>3, <2>4
<1>9. ASSUME NEW x \in Issued, NEW y \in Issued, Route(Url(x), <<Se(x)>>) = Route(Url(y), <<Se(y)>>)
      PROVE  x = y
  <2>1. x[1] = y[1]
    BY <1>1, <1>7, <1>9
  <2>2. W(x[1], x[2], x[3]) /\ W(x[1], y[2], y[3])
    BY <1>2, <2>1
  <2>3. Piece(q(x[1]), x[2], x[3]) = Piece(q(x[1]), y[2], y[3])
    BY <1>5, <1>9, <2>1
  <2>4. x[2] = y[2] /\ x[3] = y[3]
    BY <1>6, <2>2, <2>3
  <2> QED BY <1>2, <2>1, <2>4
<1> QED BY <1>7, <1>8, <1>9 DEF q


\* What an issued task asks for is a stream epoch of the answer, and the other
\* way round.
LEMMA IssuedAnswers ==
    ASSUME Divides(tasks, RS)
    PROVE  /\ \A x \in Issued : \E m \in Answer : \E se \in m.streams :
                 InBudget(m.url) /\ Url(x) = m.url /\ Se(x) = Read(se)
           /\ \A m \in Answer : \A se \in m.streams :
                 InBudget(m.url) => \E x \in Issued : Url(x) = m.url /\ Se(x) = Read(se)
           /\ \A x, y \in Issued : Url(x) = Url(y) /\ Se(x) = Se(y) => x = y
<1>1. /\ \A x \in Issued : Route(Url(x), <<Se(x)>>) \in RS
      /\ \A r \in RS : \E x \in Issued : r = Route(Url(x), <<Se(x)>>)
      /\ \A x, y \in Issued : Route(Url(x), <<Se(x)>>) = Route(Url(y), <<Se(y)>>) => x = y
  BY IssuedFacts, RSSingles
<1>2. \A u, v, e, f : Route(u, <<e>>) = Route(v, <<f>>) => u = v /\ e = f
  BY RouteFacts
<1>3. ASSUME NEW x \in Issued
      PROVE  \E m \in Answer : \E se \in m.streams :
                 InBudget(m.url) /\ Url(x) = m.url /\ Se(x) = Read(se)
  <2>1. PICK m \in Answer : \E se \in m.streams :
                 InBudget(m.url) /\ Route(Url(x), <<Se(x)>>) = Route(m.url, <<Read(se)>>)
    BY <1>1, InRS
  <2>2. PICK se \in m.streams :
                 InBudget(m.url) /\ Route(Url(x), <<Se(x)>>) = Route(m.url, <<Read(se)>>)
    BY <2>1
  <2> QED BY <1>2, <2>2
<1>4. ASSUME NEW m \in Answer, NEW se \in m.streams, InBudget(m.url)
      PROVE  \E x \in Issued : Url(x) = m.url /\ Se(x) = Read(se)
  <2>1. Route(m.url, <<Read(se)>>) \in RS
    BY <1>4, InRS
  <2>2. PICK x \in Issued : Route(m.url, <<Read(se)>>) = Route(Url(x), <<Se(x)>>)
    BY <1>1, <2>1
  <2> QED BY <1>2, <2>2
<1>5. \A x, y \in Issued : Url(x) = Url(y) /\ Se(x) = Se(y) => x = y
  BY <1>1
<1> QED BY <1>3, <1>4, <1>5

LEMMA InRequested ==
    /\ \A w \in Requested : \E x \in Issued : \E t \in 1 .. Now - 1 :
          Within(t, Se(x).start, Se(x).end) /\ w = <<Url(x), Se(x).stream, t>>
    /\ \A x \in Issued : \A t \in 1 .. Now - 1 :
          Within(t, Se(x).start, Se(x).end) => <<Url(x), Se(x).stream, t>> \in Requested
<1> DEFINE P(x) == {<<Url(x), Se(x).stream, t>> :
                       t \in {y \in 1 .. Now - 1 : Within(y, Se(x).start, Se(x).end)}}
<1>1. Requested = UNION {P(x) : x \in Issued}
  BY DEF Requested
<1>2. ASSUME NEW w \in Requested
      PROVE  \E x \in Issued : \E t \in 1 .. Now - 1 :
                Within(t, Se(x).start, Se(x).end) /\ w = <<Url(x), Se(x).stream, t>>
  <2>1. PICK x \in Issued : w \in P(x)
    <3> HIDE DEF P
    <3> QED BY <1>1
  <2>2. PICK t \in {y \in 1 .. Now - 1 : Within(y, Se(x).start, Se(x).end)} :
               w = <<Url(x), Se(x).stream, t>>
    BY <2>1
  <2>3. t \in 1 .. Now - 1 /\ Within(t, Se(x).start, Se(x).end)
    OBVIOUS
  <2> QED BY <2>2, <2>3
<1>3. ASSUME NEW x \in Issued, NEW t \in 1 .. Now - 1, Within(t, Se(x).start, Se(x).end)
      PROVE  <<Url(x), Se(x).stream, t>> \in Requested
  <2>1. <<Url(x), Se(x).stream, t>> \in P(x)
    BY <1>3
  <2> HIDE DEF P
  <2> QED BY <1>1, <2>1
<1> QED BY <1>2, <1>3

LEMMA RoutedHolds ==
    ASSUME TakenRequest, NEW d \in Nat, FoundFor(d), Divides(tasks, RS)
    PROVE  RoutedAsStored
<1>1. /\ \A x \in Issued : \E m \in Answer : \E se \in m.streams :
            InBudget(m.url) /\ Url(x) = m.url /\ Se(x) = Read(se)
      /\ \A m \in Answer : \A se \in m.streams :
            InBudget(m.url) => \E x \in Issued : Url(x) = m.url /\ Se(x) = Read(se)
  BY IssuedAnswers
<1>2. Now \in 1 .. EndOfTime - 1 /\ EndOfTime \in Nat
  BY ConstantsAssumption DEF Times
<1>3. ASSUME NEW m \in Answer, NEW se \in m.streams
      PROVE  /\ Read(se).stream = se.stream /\ Read(se).start = se.start
             /\ se.start \in 1 .. EndOfTime /\ se.end \in 1 .. EndOfTime
             /\ \A t \in 1 .. Now - 1 : Within(t, Read(se).start, Read(se).end) <=>
                                          se.start <= t /\ t < se.end
  <2>1. /\ Read(se).stream = se.stream /\ Read(se).start = se.start
        /\ Read(se).end = None <=> se.end = EndOfTime
        /\ Read(se).end = None \/ Read(se).end = se.end
    BY ReadBack
  <2>2. se.start \in 1 .. EndOfTime /\ se.end \in 1 .. EndOfTime
    BY AnswerServes DEF RoutesTo, Scheduled, Clock
  <2> QED BY <1>2, <2>1, <2>2 DEF Within
<1>4. /\ \A u, s, t : <<u, s, t>> \in Wanted <=>
                 t \in 1 .. Now - 1 /\ InBudget(u) /\ Served(u, s, t)
      /\ \A w \in Wanted : w = <<w[1], w[2], w[3]>>
  BY WantedServed
<1>5. ASSUME NEW u, NEW s, NEW t, <<u, s, t>> \in Wanted
      PROVE  <<u, s, t>> \in Requested
  <2>1. t \in 1 .. Now - 1 /\ InBudget(u) /\ Served(u, s, t)
    BY <1>4, <1>5
  <2>2. PICK m \in Answer : m.url = u /\ During(m.streams, s, t)
    BY <2>1, AnswerServes
  <2>3. PICK se \in m.streams : se.stream = s /\ se.start <= t /\ t < se.end
    BY <2>2 DEF During
  <2>4. PICK x \in Issued : Url(x) = m.url /\ Se(x) = Read(se)
    BY <1>1, <2>1, <2>2
  <2>5. Within(t, Se(x).start, Se(x).end) /\ Se(x).stream = s
    BY <1>3, <2>1, <2>3, <2>4
  <2>6. <<Url(x), Se(x).stream, t>> \in Requested
    BY <2>1, <2>5, InRequested
  <2> QED BY <2>2, <2>4, <2>5, <2>6
<1>6. Wanted \subseteq Requested
  <2> SUFFICES ASSUME NEW w \in Wanted PROVE w \in Requested
    OBVIOUS
  <2> DEFINE u == w[1]
             s == w[2]
             t == w[3]
  <2>1. w = <<u, s, t>>
    BY <1>4
  <2> HIDE DEF u, s, t
  <2> QED BY <1>5, <2>1
\* Where something is asked for there is data, if not for all of the time.
<1>7. ASSUME NEW w \in Requested
      PROVE  \E v \in Wanted : v[1] = w[1] /\ v[2] = w[2]
  <2>1. PICK x \in Issued : \E t \in 1 .. Now - 1 :
          Within(t, Se(x).start, Se(x).end) /\ w = <<Url(x), Se(x).stream, t>>
    BY InRequested
  <2>2. PICK t \in 1 .. Now - 1 :
          Within(t, Se(x).start, Se(x).end) /\ w = <<Url(x), Se(x).stream, t>>
    BY <2>1
  <2>3. PICK m \in Answer : \E se \in m.streams :
          InBudget(m.url) /\ Url(x) = m.url /\ Se(x) = Read(se)
    BY <1>1
  <2>4. PICK se \in m.streams : InBudget(m.url) /\ Url(x) = m.url /\ Se(x) = Read(se)
    BY <2>3
  <2>5. se.start <= t /\ se.start \in 1 .. EndOfTime /\ Se(x).stream = se.stream
    BY <1>3, <2>2, <2>4
  <2>6. se.start < Now /\ se.start \in 1 .. Now - 1
    BY <1>2, <2>5
  <2>7. Served(m.url, se.stream, se.start)
    BY <2>6, AnswerServes
  <2> DEFINE v == <<m.url, se.stream, se.start>>
  <2>8. v \in Wanted
    BY <1>4, <2>4, <2>6, <2>7
  <2>9. v[1] = w[1] /\ v[2] = w[2]
    BY <2>2, <2>4, <2>5
  <2> QED BY <2>8, <2>9
<1>8. ASSUME ~Reduces, NEW w \in Requested
      PROVE  w \in Wanted
  <2>1. PICK x \in Issued : \E t \in 1 .. Now - 1 :
          Within(t, Se(x).start, Se(x).end) /\ w = <<Url(x), Se(x).stream, t>>
    BY InRequested
  <2>2. PICK t \in 1 .. Now - 1 :
          Within(t, Se(x).start, Se(x).end) /\ w = <<Url(x), Se(x).stream, t>>
    BY <2>1
  <2>3. PICK m \in Answer : \E se \in m.streams :
          InBudget(m.url) /\ Url(x) = m.url /\ Se(x) = Read(se)
    BY <1>1
  <2>4. PICK se \in m.streams : InBudget(m.url) /\ Url(x) = m.url /\ Se(x) = Read(se)
    BY <2>3
  <2>5. se.start <= t /\ t < se.end /\ Se(x).stream = se.stream
    BY <1>3, <2>2, <2>4
  <2>6. During(m.streams, se.stream, t)
    BY <2>5 DEF During
  <2>7. Served(m.url, se.stream, t)
    BY <1>8, <2>6, AnswerServes
  <2>8. <<m.url, se.stream, t>> \in Wanted
    BY <1>4, <2>4, <2>7
  <2> QED BY <2>2, <2>4, <2>5, <2>8
<1>9. CASE Reduces
  <2> DEFINE A == {<<w[1], w[2]>> : w \in Requested}
             B == {<<w[1], w[2]>> : w \in Wanted}
  <2>1. A \subseteq B
    BY <1>7
  <2>2. B \subseteq A
    BY <1>6
  <2>3. A = B
    <3> HIDE DEF A, B
    <3> QED BY <2>1, <2>2
  <2> QED BY <1>6, <1>9, <2>3 DEF RoutedAsStored, Reduces
<1>10. CASE ~Reduces
  <2>1. Requested \subseteq Wanted
    BY <1>8, <1>10
  <2>2. Requested = Wanted
    BY <1>6, <2>1
  <2> QED BY <1>6, <1>10, <2>2 DEF RoutedAsStored, Reduces
<1> QED BY <1>9, <1>10

LEMMA PartitionHolds ==
    ASSUME TakenRequest, NEW d \in Nat, FoundFor(d), Divides(tasks, RS),
           request.format = "xml" => KeepsNetworks(tasks)
    PROVE  TasksPartition
<1>1. /\ \A x \in Issued : \E m \in Answer : \E se \in m.streams :
            InBudget(m.url) /\ Url(x) = m.url /\ Se(x) = Read(se)
      /\ \A x, y \in Issued : Url(x) = Url(y) /\ Se(x) = Se(y) => x = y
  BY IssuedAnswers
<1>2. ASSUME NEW x \in Issued, NEW y \in Issued, x # y, Url(x) = Url(y), Se(x).stream = Se(y).stream
      PROVE  \/ NoneAsMax(Se(x).end) <= Se(y).start
             \/ NoneAsMax(Se(y).end) <= Se(x).start
  <2>1. PICK m \in Answer : \E se \in m.streams : Url(x) = m.url /\ Se(x) = Read(se)
    BY <1>1
  <2>2. PICK se \in m.streams : Url(x) = m.url /\ Se(x) = Read(se)
    BY <2>1
  <2>3. PICK n \in Answer : \E sf \in n.streams : Url(y) = n.url /\ Se(y) = Read(sf)
    BY <1>1
  <2>4. PICK sf \in n.streams : Url(y) = n.url /\ Se(y) = Read(sf)
    BY <2>3
  <2>5. m = n /\ Scheduled(m.streams)
    BY <1>2, <2>2, <2>4, AnswerServes DEF RoutesTo
  <2>6. se # sf
    BY <1>1, <1>2, <2>2, <2>4
  <2>7. /\ Read(se).stream = se.stream /\ Read(se).start = se.start /\ NoneAsMax(Read(se).end) = se.end
    BY ReadBack
  <2>8. /\ Read(sf).stream = sf.stream /\ Read(sf).start = sf.start /\ NoneAsMax(Read(sf).end) = sf.end
    BY ReadBack
  <2>9. se.end <= sf.start \/ sf.end <= se.start
    BY <1>2, <2>2, <2>4, <2>5, <2>6, <2>7, <2>8 DEF Scheduled
  <2> QED BY <2>2, <2>4, <2>7, <2>8, <2>9
<1>3. ASSUME request.format = "xml", NEW x \in Issued, NEW y \in Issued,
             Se(x).stream.net = Se(y).stream.net
      PROVE  x[1] = y[1]
  <2>1. /\ x[1] \in DOMAIN tasks /\ Route(Url(x), <<Se(x)>>) \in Pieces(tasks[x[1]].routes)
        /\ y[1] \in DOMAIN tasks /\ Route(Url(y), <<Se(y)>>) \in Pieces(tasks[y[1]].routes)
    BY IssuedFacts, RSSingles
  <2>2. \A z : Network(Route(Url(z), <<Se(z)>>)) = Se(z).stream.net
    <3> SUFFICES ASSUME NEW z PROVE Network(Route(Url(z), <<Se(z)>>)) = Se(z).stream.net
      OBVIOUS
    <3> DEFINE e == Se(z)
    <3>1. Route(Url(z), <<e>>).streams = <<e>> /\ <<e>>[1] = e
      BY RouteFacts
    <3> QED BY <3>1 DEF Network
  <2> QED BY <1>3, <2>1, <2>2 DEF KeepsNetworks
<1> QED BY <1>2, <1>3 DEF TasksPartition


-----------------------------------------------------------------------------
(* The invariant. *)

Taken == {"routing", "queried", "parsing", "parsed", "routed", "issued"}

Chosen ==
    /\ db \in Database /\ IsFiniteSet(db.rows) /\ request \in Request
    /\ strategy \in Allowed(request)

\* The parser has what it has read of the answer.
Parsing ==
    /\ phase \in {"new", "routing", "queried"} =>
          urlline = NoLine /\ block = <<>> /\ DOMAIN table = {}
    /\ phase = "parsing" => ParsedTo(Rs, Rest, lines, urlline, block, table)
    /\ phase = "parsed" => TableHas(table, Rs, Len(Rs))

\* The routes left are those of the answer within the budget, and the tasks
\* divide them.
Dividing ==
    /\ phase \in {"routed", "issued"} => Lists(routes, RS)
    /\ phase = "issued" => /\ Divides(tasks, RS)
                           /\ request.format = "xml" => KeepsNetworks(tasks)
    /\ phase # "issued" => tasks = <<>>

Finding ==
    /\ phase \in Taken \ {"routing"} => \E d \in Delays : FoundFor(d)
    /\ phase \in Taken \ {"routing", "queried"} => found # {}

Inv ==
    /\ Chosen
    /\ phase \in Taken => TakenRequest
    /\ Finding /\ Parsing /\ Dividing
    /\ phase # "answered" => code = None
    /\ RefusalIsTrue

\* What the invariant says of the request and the answer depends on what does
\* not change once StationLite has answered.
LEMMA Frame ==
    ASSUME UNCHANGED <<chosen, epochs, found>>
    PROVE  /\ Chosen <=> Chosen'
           /\ TakenRequest <=> TakenRequest'
           /\ Wanted' = Wanted /\ Rs' = Rs /\ Rest' = Rest /\ RS' = RS
           /\ \A d : FoundFor(d) <=> FoundFor(d)'
           /\ request' = request /\ found' = found
<1>1. db' = db /\ request' = request /\ config' = config /\ strategy' = strategy
      /\ epochs' = epochs /\ found' = found
  BY DEF chosen
<1>2. (Chosen <=> Chosen') /\ (TakenRequest <=> TakenRequest')
  BY <1>1 DEF Chosen, TakenRequest
<1>3. Answer' = Answer
  BY <1>1 DEF Answer, Ask
<1>9. \A d : FoundFor(d) <=> FoundFor(d)'
  BY <1>1 DEF Ask, FoundFor
<1>4. Rs' = Rs /\ LineSet' = LineSet
  BY <1>3 DEF Rs, LineSet
<1>5. Rest' = Rest
  BY <1>4 DEF Rest
<1>6. \A u : InBudget(u) <=> InBudget(u)'
  BY <1>1 DEF InBudget
<1>7. RS' = RS
  BY <1>3, <1>6 DEF RS
<1>8. Wanted' = Wanted
  BY <1>1 DEF Wanted, InBudget, Asked, Names, Inside
<1> QED BY <1>1, <1>2, <1>4, <1>5, <1>7, <1>8, <1>9

LEMMA InitInv == Init => Inv
<1> SUFFICES ASSUME Init PROVE Inv
  OBVIOUS
<1>1. Chosen
  BY ConstantsAssumption DEF Init, Chosen
<1>2. phase = "new" /\ tasks = <<>> /\ code = None
  BY DEF Init
<1>3. urlline = NoLine /\ block = <<>> /\ DOMAIN table = {}
  BY DEF Init
<1>4. RefusalIsTrue
  BY <1>2 DEF RefusalIsTrue, NoData, None
<1> QED BY <1>1, <1>2, <1>3, <1>4 DEF Inv, Taken, Finding, Parsing, Dividing

LEMMA NothingWanted ==
    ASSUME TakenRequest, NEW d \in Nat, FoundFor(d),
           found = {} \/ RS = {}
    PROVE  Wanted = {}
<1> SUFFICES ASSUME NEW w \in Wanted PROVE FALSE
  OBVIOUS
<1> DEFINE u == w[1]
           s == w[2]
           t == w[3]
<1>1. w = <<u, s, t>>
  BY WantedServed
<1> HIDE DEF u, s, t
<1>2. t \in 1 .. Now - 1 /\ InBudget(u) /\ Served(u, s, t)
  BY <1>1, WantedServed
<1>3. CASE found = {}
  <2>1. Serves(found, u, s, t)
    BY <1>2, CutFound DEF FoundFor
  <2> QED BY <1>3, <2>1 DEF Serves
<1>4. CASE RS = {}
  <2>1. PICK m \in Answer : m.url = u /\ During(m.streams, s, t)
    BY <1>2, AnswerServes
  <2>2. PICK se \in m.streams : TRUE
    BY <2>1 DEF During
  <2>3. Route(m.url, <<Read(se)>>) \in RS
    BY <1>2, <2>1, InRS
  <2> QED BY <1>4, <2>3
<1> QED BY <1>3, <1>4


-----------------------------------------------------------------------------
(* The actions. *)

LEMMA RejectInv ==
    ASSUME Inv, Reject
    PROVE  Inv'
<1>1. UNCHANGED <<chosen, epochs, found, routes, failed, tasks>> /\ phase = "new"
      /\ phase' = "answered" /\ code' = 400
  BY DEF Reject, Answered
<1>2. Chosen' /\ Wanted' = Wanted
  BY <1>1, Frame DEF Inv
<1>3. tasks' = <<>>
  BY <1>1 DEF Inv, Dividing
<1>4. RefusalIsTrue'
  BY <1>1 DEF RefusalIsTrue, NoData
<1> QED BY <1>1, <1>2, <1>3, <1>4 DEF Inv, Taken, Finding, Parsing, Dividing

LEMMA AcceptInv ==
    ASSUME Inv, Accept
    PROVE  Inv'
<1>1. /\ UNCHANGED <<chosen, found, parser, routes, tasks, code, failed>> /\ phase = "new"
      /\ phase' = "routing" /\ Accepts(request, Now) /\ epochs' = Loaded(request, Now)
  BY DEF Accept
<1>2. db' = db /\ request' = request /\ strategy' = strategy
  BY <1>1 DEF chosen
<1>3. Chosen'
  BY <1>2 DEF Inv, Chosen
<1>4. TakenRequest'
  BY <1>1, <1>2 DEF Inv, Chosen, TakenRequest
<1>5. tasks' = <<>> /\ code' = None
  BY <1>1 DEF Inv, Dividing
<1>6. urlline' = NoLine /\ block' = <<>> /\ DOMAIN table' = {}
  BY <1>1 DEF Inv, Parsing, parser
<1>7. RefusalIsTrue'
  BY <1>5 DEF RefusalIsTrue, NoData, None
<1>8. Parsing'
  BY <1>1, <1>6 DEF Parsing
<1> QED BY <1>1, <1>3, <1>4, <1>5, <1>7, <1>8 DEF Inv, Taken, Finding, Dividing

LEMMA QueryInv ==
    ASSUME Inv, Query
    PROVE  Inv'
<1>1. /\ UNCHANGED <<chosen, epochs, parser, routes, tasks, code, failed>> /\ phase = "routing"
      /\ phase' = "queried"
  BY DEF Query
<1>2. db' = db /\ request' = request /\ strategy' = strategy /\ epochs' = epochs
  BY <1>1 DEF chosen
<1>3. Chosen'
  BY <1>2 DEF Inv, Chosen
<1>4. TakenRequest'
  BY <1>1, <1>2 DEF Inv, TakenRequest, Taken
<1>5. tasks' = <<>> /\ code' = None
  BY <1>1 DEF Inv, Dividing
<1>6. urlline' = NoLine /\ block' = <<>> /\ DOMAIN table' = {}
  BY <1>1 DEF Inv, Parsing, parser
<1>7. RefusalIsTrue'
  BY <1>5 DEF RefusalIsTrue, NoData, None
<1>8. Parsing'
  BY <1>1, <1>6 DEF Parsing
<1>9. \E d \in Delays : FoundFor(d)'
  <2>1. PICK d \in Delays : found' = CutRoutes(db, Ask, Now + d)
    BY DEF Query
  <2>2. FoundFor(d)'
    BY <1>2, <2>1 DEF FoundFor, Ask
  <2> QED BY <2>2
<1>10. Finding'
  BY <1>1, <1>9 DEF Finding, Taken
<1> QED BY <1>1, <1>3, <1>4, <1>5, <1>7, <1>8, <1>10 DEF Inv, Dividing

\* What every later action finds.
LEMMA Found ==
    ASSUME Inv, phase \in Taken \ {"routing"}
    PROVE  Chosen /\ TakenRequest /\ code = None /\ \E d \in Nat : FoundFor(d)
<1>1. Chosen /\ TakenRequest /\ code = None
  BY DEF Inv, Taken
<1>2. \E d \in Delays : FoundFor(d)
  BY DEF Inv, Finding
<1> QED BY <1>1, <1>2, ConstantsAssumption

\* A refusal that says the truth keeps the invariant.
LEMMA AnsweredInv ==
    ASSUME Inv, phase \in Taken \ {"issued"}, NEW status, Answered(status),
           UNCHANGED chosen, RefusalIsTrue'
    PROVE  Inv'
<1>1. phase' = "answered" /\ tasks' = tasks
  BY DEF Answered
<1>2. Chosen'
  BY DEF Inv, Chosen, chosen
<1>3. tasks' = <<>>
  BY <1>1 DEF Inv, Dividing
<1> QED BY <1>1, <1>2, <1>3 DEF Inv, Taken, Finding, Parsing, Dividing

LEMMA FetchInv ==
    ASSUME Inv, Fetch
    PROVE  Inv'
<1>1. /\ UNCHANGED <<chosen, epochs, found, urlline, block, table, total, routes, tasks, code, failed>>
      /\ phase = "queried" /\ found # {} /\ phase' = "parsing"
      /\ lines' = Lines(SetToSeq(MergedRoutes(found, Ask.level)))
  BY DEF Fetch
<1>2. Chosen /\ TakenRequest /\ code = None /\ \E d \in Nat : FoundFor(d)
  BY <1>1, Found DEF Taken
<1>3. PICK d \in Nat : FoundFor(d)
  BY <1>2
<1>4. /\ Chosen' /\ TakenRequest' /\ Rs' = Rs /\ Rest' = Rest
      /\ \A x : FoundFor(x) <=> FoundFor(x)'
      /\ found' = found
  BY <1>1, <1>2, Frame
<1>5. lines' = Block(Rs[1]) \o Rest[1]
  BY <1>1, <1>2, <1>3, LinesRest DEF Rs, Answer
<1>6. urlline' = NoLine /\ block' = <<>> /\ DOMAIN table' = {}
  BY <1>1 DEF Inv, Parsing
<1>7. ParsedTo(Rs, Rest, lines', urlline', block', table')
  <2>1. Len(Rs) \in Nat /\ Len(Rs) >= 1
    BY <1>1, <1>2, <1>3, RsList
  <2>2. 1 \in 1 .. Len(Rs) /\ 1 - 1 = 0 /\ 1 .. 0 = {}
    BY <2>1
  <2>3. TableHas(table', Rs, 0)
    BY <1>6, <2>2 DEF TableHas
  <2>4. TableHas(table', Rs, 1 - 1)
    BY <2>2, <2>3
  <2>5. BeforeBlock(Rs, Rest, 1, lines', urlline', block')
    BY <1>5, <1>6 DEF BeforeBlock
  <2> QED BY <2>2, <2>4, <2>5 DEF ParsedTo
<1>8. ParsedTo(Rs, Rest, lines, urlline, block, table)'
  BY <1>4, <1>7
<1>9. Parsing'
  BY <1>1, <1>8 DEF Parsing
<1>10. Finding'
  <2>1. \E x \in Delays : FoundFor(x)'
    BY <1>1, <1>4 DEF Inv, Finding, Taken
  <2> QED BY <1>1, <2>1 DEF Finding, Taken
<1>11. Dividing'
  BY <1>1 DEF Inv, Dividing
<1>12. RefusalIsTrue'
  BY <1>1, <1>2 DEF RefusalIsTrue, NoData, None
<1> QED BY <1>1, <1>2, <1>4, <1>9, <1>10, <1>11, <1>12 DEF Inv

LEMMA FetchNothingInv ==
    ASSUME Inv, FetchNothing
    PROVE  Inv'
<1>1. /\ UNCHANGED <<chosen, epochs, found, failed>>
      /\ phase = "queried" /\ found = {} /\ Answered(NoData)
  BY DEF FetchNothing
<1>2. TakenRequest /\ \E d \in Nat : FoundFor(d)
  BY <1>1, Found DEF Taken
<1>3. Wanted' = {}
  BY <1>1, <1>2, Frame, NothingWanted
<1>4. RefusalIsTrue'
  BY <1>1, <1>3 DEF RefusalIsTrue, Answered, NoData
<1> QED BY <1>1, <1>4, AnsweredInv DEF Taken

LEMMA FetchFailsInv ==
    ASSUME Inv, FetchFails
    PROVE  Inv'
<1>1. UNCHANGED <<chosen, epochs>> /\ phase \in {"routing", "queried"} /\ Answered(500)
  BY DEF FetchFails
<1>2. TakenRequest
  BY <1>1 DEF Inv, Taken
<1>3. Ordered(request.box) => \A d \in Delays : RoutingAccepts(Ask, Now + d)
  BY <1>2, RoutingTakes, ConstantsAssumption
<1>4. PICK fails \in BOOLEAN : /\ fails \/ \E d \in Delays : ~RoutingAccepts(Ask, Now + d)
                               /\ failed' = fails
  BY DEF FetchFails
<1>5. failed' \/ ~Ordered(request'.box)
  BY <1>1, <1>3, <1>4 DEF chosen
<1>6. RefusalIsTrue'
  BY <1>1, <1>5 DEF RefusalIsTrue, Answered, NoData
<1> QED BY <1>1, <1>6, AnsweredInv DEF Taken


\* A step of the parser that answers nothing.
LEMMA ParserInv ==
    ASSUME Inv, phase = "parsing", phase' \in {"parsing", "parsed"},
           UNCHANGED <<chosen, epochs, found, routes, tasks, code, failed>>, Parsing'
    PROVE  Inv'
<1>1. Chosen /\ TakenRequest /\ code = None
  BY Found DEF Taken
<1>2. Chosen' /\ TakenRequest' /\ \A x : FoundFor(x) <=> FoundFor(x)'
  BY <1>1, Frame
<1>3. Finding'
  <2>1. \E x \in Delays : FoundFor(x)'
    BY <1>2 DEF Inv, Finding, Taken
  <2> QED BY <2>1 DEF Finding, Taken, Inv
<1>4. Dividing'
  BY DEF Inv, Dividing
<1>5. RefusalIsTrue'
  BY <1>1 DEF RefusalIsTrue, NoData, None
<1> QED BY <1>1, <1>2, <1>3, <1>4, <1>5 DEF Inv

LEMMA ParserState ==
    ASSUME Inv, phase = "parsing"
    PROVE  /\ TakenRequest /\ found # {} /\ \E d \in Nat : FoundFor(d)
           /\ ParsedTo(Rs, Rest, lines, urlline, block, table)
BY Found DEF Inv, Finding, Parsing, Taken

LEMMA ReadUrlInv ==
    ASSUME Inv, ReadUrl
    PROVE  Inv'
<1>1. /\ UNCHANGED <<chosen, phase, epochs, found, block, table, total, routes, tasks, code, failed>>
      /\ phase = "parsing" /\ urlline = NoLine
      /\ ReadLine /\ urlline' = IF IsEmpty(Line) THEN NoLine ELSE Line
  BY DEF ReadUrl
<1>2. PICK d \in Nat : FoundFor(d)
  BY <1>1, ParserState
<1>3. lines # <<>> /\ ~IsEmpty(Line) /\ ParsedTo(Rs, Rest, Tail(lines), Line, block, table)
  BY <1>1, <1>2, ParserState, UrlRead
<1>4. ParsedTo(Rs, Rest, lines', urlline', block', table')
  BY <1>1, <1>3 DEF ReadLine
<1>5. Rs' = Rs /\ Rest' = Rest
  BY <1>1, Frame
<1>6. ParsedTo(Rs, Rest, lines, urlline, block, table)'
  BY <1>4, <1>5
<1>7. Parsing'
  BY <1>1, <1>6 DEF Parsing
<1> QED BY <1>1, <1>7, ParserInv

LEMMA ReadEndInv ==
    ASSUME Inv, ReadEnd
    PROVE  Inv'
<1> DEFINE tab == [u \in DOMAIN table \cup {urlline.url} |->
                      IF u = urlline.url THEN block ELSE table[u]]
<1>1. /\ UNCHANGED <<chosen, epochs, found, total, routes, tasks, code, failed>>
      /\ phase = "parsing" /\ urlline # NoLine /\ IsEmpty(Line)
      /\ ReadLine /\ table' = IF block = <<>> THEN table ELSE tab
      /\ urlline' = NoLine /\ block' = <<>>
      /\ phase' = IF Line = Eof THEN "parsed" ELSE "parsing"
  BY DEF ReadEnd
<1>2. PICK d \in Nat : FoundFor(d)
  BY <1>1, ParserState
<1>3. /\ block # <<>>
      /\ Line = Eof => TableHas(tab, Rs, Len(Rs))
      /\ Line # Eof => lines # <<>> /\ ParsedTo(Rs, Rest, Tail(lines), NoLine, <<>>, tab)
  BY <1>1, <1>2, ParserState, BlockEnds
<1> HIDE DEF tab
<1>4. Rs' = Rs /\ Rest' = Rest
  BY <1>1, Frame
<1>5. table' = tab
  BY <1>1, <1>3
<1>6. CASE Line = Eof
  <2>1. phase' = "parsed"
    BY <1>1, <1>6
  <2>2. TableHas(table', Rs, Len(Rs))
    BY <1>3, <1>5, <1>6
  <2>3. TableHas(table, Rs, Len(Rs))'
    BY <1>4, <2>2
  <2>4. Parsing'
    BY <2>1, <2>3 DEF Parsing
  <2> QED BY <1>1, <2>1, <2>4, ParserInv
<1>7. CASE Line # Eof
  <2>1. phase' = "parsing"
    BY <1>1, <1>7
  <2>2. ParsedTo(Rs, Rest, lines', urlline', block', table')
    BY <1>1, <1>3, <1>5, <1>7 DEF ReadLine
  <2>3. ParsedTo(Rs, Rest, lines, urlline, block, table)'
    BY <1>4, <2>2
  <2>4. Parsing'
    BY <2>1, <2>3 DEF Parsing
  <2> QED BY <1>1, <2>1, <2>4, ParserInv
<1> QED BY <1>6, <1>7

LEMMA ReadEpochInv ==
    ASSUME Inv, ReadEpoch
    PROVE  Inv'
<1> DEFINE se == FromLine(Line)
<1>1. /\ UNCHANGED <<chosen, epochs, found, urlline, table, routes, failed>>
      /\ phase = "parsing" /\ urlline # NoLine /\ ~IsEmpty(Line) /\ ReadLine
      /\ \/ Answered(TooLarge)
         \/ block' = Append(block, se) /\ UNCHANGED <<phase, tasks, code>>
  BY DEF ReadEpoch
<1>2. PICK d \in Nat : FoundFor(d)
  BY <1>1, ParserState
<1>3. CASE Answered(TooLarge)
  <2>1. RefusalIsTrue'
    BY <1>3 DEF RefusalIsTrue, Answered, NoData, TooLarge
  <2> QED BY <1>1, <1>3, <2>1, AnsweredInv DEF Taken
<1>4. CASE block' = Append(block, se) /\ UNCHANGED <<phase, tasks, code>>
  <2>1. lines # <<>> /\ ParsedTo(Rs, Rest, Tail(lines), urlline, Append(block, FromLine(Line)), table)
    BY <1>1, <1>2, ParserState, EpochRead
  <2>2. ParsedTo(Rs, Rest, lines', urlline', block', table')
    BY <1>1, <1>4, <2>1 DEF ReadLine
  <2>3. Rs' = Rs /\ Rest' = Rest
    BY <1>1, Frame
  <2>4. ParsedTo(Rs, Rest, lines, urlline, block, table)'
    BY <2>2, <2>3
  <2>5. Parsing'
    BY <1>1, <1>4, <2>4 DEF Parsing
  <2> QED BY <1>1, <1>4, <2>5, ParserInv
<1> QED BY <1>1, <1>3, <1>4

LEMMA FilterInv ==
    ASSUME Inv, Filter
    PROVE  Inv'
<1>1. /\ UNCHANGED <<chosen, epochs, found, lines, urlline, block, total, tasks, code, failed>>
      /\ phase = "parsed" /\ phase' = "routed" /\ routes' = Demux(Filtered)
  BY DEF Filter
<1>2. TakenRequest /\ code = None /\ Chosen /\ found # {} /\ TableHas(table, Rs, Len(Rs))
  BY <1>1, Found DEF Inv, Finding, Parsing, Taken
<1>3. PICK d \in Nat : FoundFor(d)
  BY <1>1, Found DEF Taken
<1>4. Lists(routes', RS)
  BY <1>1, <1>2, <1>3, FilteredLists
<1>5. /\ Chosen' /\ TakenRequest' /\ RS' = RS
      /\ \A x : FoundFor(x) <=> FoundFor(x)'
  BY <1>1, <1>2, Frame
<1>6. Lists(routes, RS)'
  BY <1>4, <1>5
<1>7. tasks' = <<>>
  BY <1>1 DEF Inv, Dividing
<1>8. Dividing'
  BY <1>1, <1>6, <1>7 DEF Dividing
<1>9. Finding'
  <2>1. \E x \in Delays : FoundFor(x)'
    BY <1>1, <1>5 DEF Inv, Finding, Taken
  <2> QED BY <1>1, <1>2, <2>1 DEF Finding, Taken
<1>10. RefusalIsTrue'
  BY <1>1, <1>2 DEF RefusalIsTrue, NoData, None
<1>11. Parsing'
  BY <1>1 DEF Parsing
<1> QED BY <1>1, <1>2, <1>5, <1>8, <1>9, <1>10, <1>11 DEF Inv

LEMMA RoutedState ==
    ASSUME Inv, phase = "routed"
    PROVE  TakenRequest /\ Lists(routes, RS) /\ \E d \in Nat : FoundFor(d)
BY Found DEF Inv, Dividing, Taken

LEMMA NoRoutesInv ==
    ASSUME Inv, NoRoutes
    PROVE  Inv'
<1>1. /\ UNCHANGED <<chosen, epochs, found, failed>>
      /\ phase = "routed" /\ routes = <<>> /\ Answered(NoData)
  BY DEF NoRoutes
<1>2. RS = {}
  BY <1>1, RoutedState, ListFacts
<1>3. Wanted' = {}
  BY <1>1, <1>2, RoutedState, Frame, NothingWanted
<1>4. RefusalIsTrue'
  BY <1>1, <1>3 DEF RefusalIsTrue, Answered, NoData
<1> QED BY <1>1, <1>4, AnsweredInv DEF Taken

LEMMA TotalTooLargeInv ==
    ASSUME Inv, TotalTooLarge
    PROVE  Inv'
<1>1. UNCHANGED chosen /\ phase = "routed" /\ Answered(TooLarge)
  BY DEF TotalTooLarge
<1>2. RefusalIsTrue'
  BY <1>1 DEF RefusalIsTrue, Answered, NoData, TooLarge
<1> QED BY <1>1, <1>2, AnsweredInv DEF Taken

LEMMA IssueInv ==
    ASSUME Inv, Issue
    PROVE  Inv'
<1>1. /\ UNCHANGED <<chosen, epochs, found, parser, routes, code, failed>>
      /\ phase = "routed" /\ phase' = "issued" /\ tasks' = Tasks
  BY DEF Issue
<1>2. TakenRequest /\ code = None /\ Chosen /\ found # {} /\ Lists(routes, RS)
  BY <1>1, Found DEF Inv, Finding, Dividing, Taken
<1>3. strategy \in Allowed(request) /\ request \in Request
  BY <1>2 DEF Chosen
<1>4. /\ Divides(Tasks, RS)
      /\ request.service = "station" /\ request.format = "xml" => KeepsNetworks(Tasks)
  BY <1>2, <1>3, RSSingles, TasksDivide
<1>5. request.format = "xml" => request.service = "station"
  BY <1>3 DEF Request
<1>6. /\ Chosen' /\ TakenRequest' /\ RS' = RS /\ request' = request
      /\ \A x : FoundFor(x) <=> FoundFor(x)'
  BY <1>1, <1>2, Frame
<1>7. Divides(tasks', RS) /\ (request.format = "xml" => KeepsNetworks(tasks'))
  BY <1>1, <1>4, <1>5
<1>8. Divides(tasks, RS)' /\ (request.format = "xml" => KeepsNetworks(tasks))'
  BY <1>6, <1>7
<1>9. Lists(routes, RS)'
  BY <1>1, <1>2, <1>6
<1>10. Dividing'
  BY <1>1, <1>8, <1>9 DEF Dividing
<1>11. Finding'
  <2>1. \E x \in Delays : FoundFor(x)'
    BY <1>1, <1>6 DEF Inv, Finding, Taken
  <2> QED BY <1>1, <1>2, <2>1 DEF Finding, Taken
<1>12. RefusalIsTrue'
  BY <1>1, <1>2 DEF RefusalIsTrue, NoData, None
<1>13. Parsing'
  BY <1>1 DEF Parsing
<1> QED BY <1>1, <1>2, <1>6, <1>10, <1>11, <1>12, <1>13 DEF Inv

LEMMA StutterInv ==
    ASSUME Inv, UNCHANGED vars
    PROVE  Inv'
<1>1. UNCHANGED <<chosen, epochs, found>> /\ UNCHANGED <<phase, lines, urlline, block, table, routes, tasks, code, failed>>
  BY DEF vars, parser
<1>2. /\ Chosen <=> Chosen'
      /\ TakenRequest <=> TakenRequest'
      /\ Wanted' = Wanted /\ Rs' = Rs /\ Rest' = Rest /\ RS' = RS
      /\ \A d : FoundFor(d) <=> FoundFor(d)'
      /\ request' = request /\ found' = found
  BY <1>1, Frame
<1>3. Parsing'
  BY <1>1, <1>2 DEF Inv, Parsing
<1>4. Dividing'
  BY <1>1, <1>2 DEF Inv, Dividing
<1>5. Finding'
  BY <1>1, <1>2 DEF Inv, Finding
<1>6. RefusalIsTrue'
  BY <1>1, <1>2 DEF Inv, RefusalIsTrue
<1> QED BY <1>1, <1>2, <1>3, <1>4, <1>5, <1>6 DEF Inv

-----------------------------------------------------------------------------
(* Theorems. *)

\* In every state the parser has what it has read of StationLite's answer, the
\* routes left are those of the answer within the budget, and the tasks divide
\* them; what is refused is refused for its reason.
THEOREM Invariance == Spec => []Inv
<1>1. Inv /\ [Next]_vars => Inv'
  <2> SUFFICES ASSUME Inv, [Next]_vars PROVE Inv'
    OBVIOUS
  <2>1. CASE Reject
    BY <2>1, RejectInv
  <2>2. CASE Accept
    BY <2>2, AcceptInv
  <2>3. CASE Query
    BY <2>3, QueryInv
  <2>4. CASE Fetch
    BY <2>4, FetchInv
  <2>5. CASE FetchNothing
    BY <2>5, FetchNothingInv
  <2>6. CASE FetchFails
    BY <2>6, FetchFailsInv
  <2>7. CASE ReadUrl
    BY <2>7, ReadUrlInv
  <2>8. CASE ReadEnd
    BY <2>8, ReadEndInv
  <2>9. CASE ReadEpoch
    BY <2>9, ReadEpochInv
  <2>10. CASE Filter
    BY <2>10, FilterInv
  <2>11. CASE NoRoutes
    BY <2>11, NoRoutesInv
  <2>12. CASE TotalTooLarge
    BY <2>12, TotalTooLargeInv
  <2>13. CASE Issue
    BY <2>13, IssueInv
  <2>14. CASE UNCHANGED vars
    BY <2>14, StutterInv
  <2> QED BY <2>1, <2>2, <2>3, <2>4, <2>5, <2>6, <2>7, <2>8, <2>9, <2>10, <2>11, <2>12, <2>13, <2>14
           DEF Next
<1> QED BY <1>1, InitInv, PTL DEF Spec

\* What the tasks of a request ask endpoints for, up to now, is what the
\* request asks for and the database says the endpoints within the client
\* retry budget serve.
THEOREM RoutesAreStored == Spec => []RoutedAsStored
<1>1. Inv => RoutedAsStored
  <2> SUFFICES ASSUME Inv PROVE RoutedAsStored
    OBVIOUS
  <2>1. CASE phase = "issued"
    <3>1. TakenRequest /\ Divides(tasks, RS)
      BY <2>1 DEF Inv, Dividing, Taken
    <3>2. PICK d \in Nat : FoundFor(d)
      BY <2>1, Found DEF Taken
    <3> QED BY <3>1, <3>2, RoutedHolds
  <2>2. CASE phase # "issued"
    BY <2>2 DEF RoutedAsStored
  <2> QED BY <2>1, <2>2
<1> QED BY <1>1, Invariance, PTL

\* No endpoint is asked twice for a time of a stream, and where StationXML is
\* combined no network is split between tasks.
THEOREM TasksArePartition == Spec => []TasksPartition
<1>1. Inv => TasksPartition
  <2> SUFFICES ASSUME Inv PROVE TasksPartition
    OBVIOUS
  <2>1. CASE phase = "issued"
    <3>1. TakenRequest /\ Divides(tasks, RS) /\ (request.format = "xml" => KeepsNetworks(tasks))
      BY <2>1 DEF Inv, Dividing, Taken
    <3>2. PICK d \in Nat : FoundFor(d)
      BY <2>1, Found DEF Taken
    <3> QED BY <3>1, <3>2, PartitionHolds
  <2>2. CASE phase # "issued"
    <3>1. tasks = <<>>
      BY <2>2 DEF Inv, Dividing
    <3>2. Issued = {}
      BY <3>1 DEF Issued
    <3> QED BY <3>2 DEF TasksPartition
  <2> QED BY <2>1, <2>2
<1> QED BY <1>1, Invariance, PTL

\* A request is told that there is no data only if no endpoint within the
\* budget serves any, and that the federator has failed only if its routing
\* service has or if StationLite refuses the box of the request, whose sides are
\* not in order.
THEOREM RefusalsAreTrue == Spec => []RefusalIsTrue
<1>1. Inv => RefusalIsTrue
  BY DEF Inv
<1> QED BY <1>1, Invariance, PTL

=============================================================================
