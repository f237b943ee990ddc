---------------------------- MODULE UTF16Proofs -----------------------------
(***************************************************************************)
(* Lemmas about numbers and about UTF-16 code units that every proof of    *)
(* the project rests on.                                                   *)
(***************************************************************************)
EXTENDS UTF16, FiniteSetTheorems, SequenceTheorems, WellFoundedInduction,
        TLAPS

(* A set of natural numbers that is not empty has a least element.         *)
LEMMA NatHasLeast ==
  ASSUME NEW S \in SUBSET Nat, S # {}
  PROVE  \E m \in S : \A y \in S : m <= y
<1>1. \E m \in S : \A y \in S : ~ (<<y, m>> \in OpToRel(<, Nat))
  BY NatLessThanWellFounded, WFMin, Zenon
<1>2. \A x, y \in Nat : x < y => <<x, y>> \in OpToRel(<, Nat)
  <2> SUFFICES ASSUME NEW x \in Nat, NEW y \in Nat, x < y
               PROVE  <<x, y>> \in {p \in Nat \X Nat : p[1] < p[2]}
    BY DEF OpToRel
  <2> QED OBVIOUS
<1>3. \A x, y \in Nat : ~ (x < y) => y <= x
  OBVIOUS
<1> QED BY <1>1, <1>2, <1>3, Zenon

(* A set of numbers with an upper bound that is not empty has a greatest.  *)
LEMMA RangeHasGreatest ==
  ASSUME NEW N \in Int, NEW S \in SUBSET (0 .. N), S # {}
  PROVE  \E m \in S : \A y \in S : y <= m
<1> DEFINE fromEnd == {N - x : x \in S}
<1>1. fromEnd # {} /\ fromEnd \subseteq Nat
  <2>1. \A x \in S : N - x \in Nat
    OBVIOUS
  <2>2. \E x \in S : N - x \in fromEnd
    OBVIOUS
  <2> QED BY <2>1, <2>2
<1>2. \E m \in fromEnd : \A y \in fromEnd : m <= y
  <2> HIDE DEF fromEnd
  <2> QED BY <1>1, NatHasLeast
<1>3. PICK x \in S : \A y \in fromEnd : N - x <= y
  BY <1>2
<1>4. \A y \in S : N - x <= N - y
  BY <1>3
<1> HIDE DEF fromEnd
<1>5. \A y \in S : y \in Int /\ x \in Int
  OBVIOUS
<1>6. \A y \in S : y <= x
  BY <1>4, <1>5
<1> QED BY <1>6

(* Dividing a natural number gives a natural number that is no larger.     *)
LEMMA QuotientIsNat ==
  ASSUME NEW a \in Nat, NEW b \in Nat, b > 0
  PROVE  a \div b \in Nat /\ a \div b <= a /\ a % b \in 0 .. b - 1
OBVIOUS

(* The largest code point is a number beyond the code units.               *)
LEMMA MaxCodePointIsNat ==
  MaxCodePoint \in Nat /\ FirstSupplementary <= MaxCodePoint
<1> DEFINE L == FirstTrail - FirstLead
<1>1. L \in Nat /\ L >= 1
  BY SurrogateLayout
<1>2. L * TrailCount \in Nat /\ L * TrailCount >= 1
  BY <1>1, SurrogateLayout
<1> HIDE DEF L
<1> QED BY <1>2, SurrogateLayout DEF MaxCodePoint, L

(* A surrogate pair is a supplementary code point.                         *)
LEMMA PairIsSupplementary ==
  ASSUME NEW a \in Nat, NEW b \in Nat, IsLead(a), IsTrail(b)
  PROVE  U16_GET_SUPPLEMENTARY(a, b) \in FirstSupplementary .. MaxCodePoint
<1> DEFINE x == a - FirstLead
           y == b - FirstTrail
           L == FirstTrail - FirstLead
<1>1. x \in 0 .. L - 1 /\ y \in 0 .. TrailCount - 1 /\ L \in Nat
  BY SurrogateLayout DEF IsLead, IsTrail
<1>2. x * TrailCount + y \in 0 .. L * TrailCount - 1
  <2> HIDE DEF x, y, L
  <2>1. x * TrailCount \in Nat /\ x * TrailCount <= (L - 1) * TrailCount
    BY <1>1, SurrogateLayout
  <2>2. (L - 1) * TrailCount = L * TrailCount - TrailCount
    BY <1>1, SurrogateLayout
  <2> QED BY <1>1, <2>1, <2>2, SurrogateLayout
<1>3. L * TrailCount \in Nat
  BY <1>1, SurrogateLayout
<1> HIDE DEF L
<1>4. x * TrailCount \in Int
  BY <1>1, SurrogateLayout
<1> QED BY <1>1, <1>2, <1>3, <1>4, SurrogateLayout
        DEF U16_GET_SUPPLEMENTARY, MaxCodePoint, L

(* The code point at an index of a UTF-16 string is one, and as many units *)
(* as it takes are left.                                                   *)
LEMMA CodePointAtRange ==
  ASSUME NEW s \in Seq(0 .. FirstSupplementary - 1),
         NEW i \in 0 .. Len(s) - 1
  PROVE  /\ CodePointAt(s, i) \in 0 .. MaxCodePoint
         /\ i + U16_LENGTH(CodePointAt(s, i)) <= Len(s)
<1>1. Len(s) \in Nat /\ i \in Nat /\ s[i + 1] \in 0 .. FirstSupplementary - 1
  <2> DEFINE U == 0 .. FirstSupplementary - 1
  <2>1. Len(s) \in Nat /\ i \in Nat /\ i + 1 \in 1 .. Len(s) /\ s \in Seq(U)
    OBVIOUS
  <2>2. s[i + 1] \in U
    <3> HIDE DEF U
    <3> QED BY <2>1
  <2> QED BY <2>1, <2>2
<1>2. CASE StartsPair(s, i)
  <2>1. /\ s[i + 1] \in Nat /\ s[i + 2] \in Nat
        /\ IsLead(s[i + 1]) /\ IsTrail(s[i + 2]) /\ i + 2 <= Len(s)
    BY <1>1, <1>2, SurrogateLayout DEF StartsPair
  <2>2. CodePointAt(s, i) \in FirstSupplementary .. MaxCodePoint
    BY <1>2, <2>1, PairIsSupplementary DEF CodePointAt
  <2> QED BY <1>1, <2>1, <2>2, SurrogateLayout, MaxCodePointIsNat DEF U16_LENGTH
<1>3. CASE ~StartsPair(s, i)
  BY <1>1, <1>3, SurrogateLayout, MaxCodePointIsNat DEF CodePointAt, U16_LENGTH
<1> QED BY <1>2, <1>3

(* The units of a code point are numbers, one or two of them.              *)
LEMMA CodeUnitsType ==
  ASSUME NEW c \in 0 .. MaxCodePoint
  PROVE  /\ CodeUnits(c) \in Seq(Nat)
         /\ Len(CodeUnits(c)) = U16_LENGTH(c)
         /\ U16_LENGTH(c) \in 1 .. 2
<1>1. c \in Nat
  BY MaxCodePointIsNat
<1>2. CASE c < FirstSupplementary
  BY <1>1, <1>2 DEF CodeUnits, U16_LENGTH
<1>3. CASE ~(c < FirstSupplementary)
  <2>1. c - FirstSupplementary \in Nat /\ TrailCount \in Nat /\ TrailCount > 0
    BY <1>1, <1>3, SurrogateLayout
  <2>2. /\ (c - FirstSupplementary) \div TrailCount \in Nat
        /\ (c - FirstSupplementary) % TrailCount \in Nat
    BY <2>1, QuotientIsNat
  <2>3. U16_LEAD(c) \in Nat /\ U16_TRAIL(c) \in Nat
    BY <2>2, SurrogateLayout DEF U16_LEAD, U16_TRAIL
  <2> QED BY <1>3, <2>3 DEF CodeUnits, U16_LENGTH
<1> QED BY <1>2, <1>3

-----------------------------------------------------------------------------
(* Boundaries and their number.  CodePoints is a recursion over the string *)
(* from its end; what the proofs use of it is CodePointsAtBoundaries: the  *)
(* code point that starts at a boundary is found behind as many others as  *)
(* there are boundaries before it.                                         *)

NextIndex(s, i) == IF StartsPair(s, i) THEN i + 2 ELSE i + 1

(* Behind a code point stands a boundary, and inside it none.              *)
LEMMA NextIndexIsBoundary ==
  ASSUME NEW s \in Seq(Nat), NEW i \in 0 .. Len(s) - 1
  PROVE  /\ NextIndex(s, i) \in i + 1 .. Len(s)
         /\ IsBoundary(s, i) => IsBoundary(s, NextIndex(s, i))
         /\ \A x \in i + 1 .. NextIndex(s, i) - 1 : ~IsBoundary(s, x)
<1>1. Len(s) \in Nat /\ i \in Nat /\ \A x \in 1 .. Len(s) : s[x] \in Nat
  OBVIOUS
<1>2. \A c \in Nat : IsTrail(c) => ~IsLead(c)
  BY SurrogateLayout DEF IsTrail, IsLead
<1>3. CASE StartsPair(s, i)
  <2>1. NextIndex(s, i) = i + 2 /\ i + 2 <= Len(s) /\ IsTrail(s[i + 2])
    BY <1>3 DEF NextIndex, StartsPair
  <2>2. ~StartsPair(s, i + 1)
    BY <1>1, <1>2, <2>1 DEF StartsPair
  <2>3. \A x \in i + 1 .. i + 1 : ~IsBoundary(s, x)
    BY <1>1, <1>3 DEF IsBoundary
  <2> QED BY <1>1, <2>1, <2>2, <2>3 DEF IsBoundary
<1>4. CASE ~StartsPair(s, i)
  BY <1>1, <1>4 DEF NextIndex, IsBoundary
<1> QED BY <1>3, <1>4

(* The end of a string is a boundary, and so is its beginning.             *)
LEMMA EndsAreBoundaries ==
  ASSUME NEW s \in Seq(Nat)
  PROVE  IsBoundary(s, 0) /\ IsBoundary(s, Len(s))
BY DEF IsBoundary, StartsPair

(* The boundaries of a range are finitely many, no more than it is long.   *)
LEMMA CountType ==
  ASSUME NEW s, NEW i \in Nat, NEW k \in Nat, i <= k
  PROVE  CountCodePoints(s, i, k) \in 0 .. k - i
<1> DEFINE S == {x \in i .. k - 1 : IsBoundary(s, x)}
<1>1. i \in Int /\ k - 1 \in Int
  OBVIOUS
<1>2. IsFiniteSet(i .. k - 1) /\ Cardinality(i .. k - 1) = k - i
  <2>1. /\ IsFiniteSet(i .. k - 1)
        /\ Cardinality(i .. k - 1) =
             IF i > k - 1 THEN 0 ELSE (k - 1) - i + 1
    BY <1>1, FS_Interval, Zenon
  <2> QED BY <2>1
<1>3. S \in SUBSET (i .. k - 1)
  OBVIOUS
<1> HIDE DEF S
<1>4. IsFiniteSet(S) /\ Cardinality(S) <= k - i
  BY <1>2, <1>3, FS_Subset
<1>5. Cardinality(S) \in Nat
  BY <1>4, FS_CardinalityType
<1> QED BY <1>4, <1>5 DEF CountCodePoints, S

(* One index more is one boundary more, or none.                           *)
LEMMA CountStep ==
  ASSUME NEW s, NEW i \in Nat, NEW k \in Nat, i <= k
  PROVE  /\ CountCodePoints(s, i, i) = 0
         /\ CountCodePoints(s, i, k + 1) =
              CountCodePoints(s, i, k) + IF IsBoundary(s, k) THEN 1 ELSE 0
<1> DEFINE S(m) == {x \in i .. m - 1 : IsBoundary(s, x)}
<1>1. IsFiniteSet(S(k))
  <2>1. i \in Int /\ k - 1 \in Int
    OBVIOUS
  <2>2. IsFiniteSet(i .. k - 1)
    BY <2>1, FS_Interval, Zenon
  <2> QED BY <2>2, FS_Subset
<1>2. S(i) = {}
  OBVIOUS
<1>3. CASE IsBoundary(s, k)
  <2>1. S(k + 1) = S(k) \cup {k} /\ k \notin S(k)
    BY <1>3
  <2> HIDE DEF S
  <2>2. Cardinality(S(k + 1)) = Cardinality(S(k)) + 1
    BY <1>1, <2>1, FS_AddElement
  <2> QED BY <1>2, <1>3, <2>2, FS_EmptySet DEF CountCodePoints, S
<1>4. CASE ~IsBoundary(s, k)
  <2>1. S(k + 1) = S(k)
    BY <1>4
  <2>2. Cardinality(S(k)) \in Nat
    BY <1>1, FS_CardinalityType
  <2> QED BY <1>2, <1>4, <2>1, <2>2, FS_EmptySet DEF CountCodePoints
<1> QED BY <1>3, <1>4

(* The same for the boundaries from the beginning of the string.           *)
LEMMA CountUp ==
  ASSUME NEW s, NEW k \in Nat
  PROVE  /\ CountCodePoints(s, 0, k) \in Int
         /\ CountCodePoints(s, 0, k + 1) =
              CountCodePoints(s, 0, k) + IF IsBoundary(s, k) THEN 1 ELSE 0
<1>1. 0 \in Nat /\ 0 <= k
  OBVIOUS
<1>2. CountCodePoints(s, 0, k) \in 0 .. k - 0
  BY <1>1, CountType
<1>3. CountCodePoints(s, 0, k + 1) =
        CountCodePoints(s, 0, k) + IF IsBoundary(s, k) THEN 1 ELSE 0
  BY <1>1, CountStep
<1> QED BY <1>2, <1>3

(* Up to the first pair every index is a boundary.                         *)
LEMMA NoPairsCount ==
  ASSUME NEW s, NEW y \in Nat, \A x \in 0 .. y - 1 : ~StartsPair(s, x)
  PROVE  CountCodePoints(s, 0, y) = y /\ IsBoundary(s, y)
<1>1. \A x \in 0 .. y : IsBoundary(s, x)
  <2> SUFFICES ASSUME NEW x \in 0 .. y, x > 0, StartsPair(s, x - 1) PROVE FALSE
    BY DEF IsBoundary
  <2>1. x - 1 \in 0 .. y - 1
    OBVIOUS
  <2> QED BY <2>1
<1>2. {x \in 0 .. y - 1 : IsBoundary(s, x)} = 0 .. y - 1
  BY <1>1
<1>3. Cardinality(0 .. y - 1) = y
  <2>1. 0 \in Int /\ y - 1 \in Int
    OBVIOUS
  <2>2. Cardinality(0 .. y - 1) = IF 0 > y - 1 THEN 0 ELSE (y - 1) - 0 + 1
    BY <2>1, FS_Interval, Zenon
  <2> QED BY <2>2
<1>4. CountCodePoints(s, 0, y) = y
  BY <1>2, <1>3, Zenon DEF CountCodePoints
<1>5. y \in 0 .. y
  OBVIOUS
<1> QED BY <1>1, <1>4, <1>5

(* Ranges that follow each other have their boundaries together.           *)
LEMMA CountSplit ==
  ASSUME NEW s, NEW i \in Nat, NEW m \in Nat, NEW k \in Nat, i <= m, m <= k
  PROVE  CountCodePoints(s, i, k) =
           CountCodePoints(s, i, m) + CountCodePoints(s, m, k)
<1> DEFINE A == {x \in i .. m - 1 : IsBoundary(s, x)}
           B == {x \in m .. k - 1 : IsBoundary(s, x)}
<1>1. /\ i \in Int /\ m - 1 \in Int /\ m \in Int /\ k - 1 \in Int
  OBVIOUS
<1>2. IsFiniteSet(i .. m - 1) /\ IsFiniteSet(m .. k - 1)
  BY <1>1, FS_Interval, Zenon
<1>3. IsFiniteSet(A) /\ IsFiniteSet(B)
  BY <1>2, FS_Subset
<1>4. A \cap B = {} /\ {x \in i .. k - 1 : IsBoundary(s, x)} = A \cup B
  OBVIOUS
<1> HIDE DEF A, B
<1>5. /\ Cardinality(A \cup B) =
           Cardinality(A) + Cardinality(B) - Cardinality(A \cap B)
      /\ Cardinality(A) \in Nat /\ Cardinality(B) \in Nat
      /\ Cardinality(A \cap B) = 0
  BY <1>3, <1>4, FS_Union, FS_CardinalityType, FS_EmptySet
<1>6. /\ CountCodePoints(s, i, m) = Cardinality(A)
      /\ CountCodePoints(s, m, k) = Cardinality(B)
      /\ CountCodePoints(s, i, k) = Cardinality(A \cup B)
  BY <1>4, Zenon DEF CountCodePoints, A, B
<1> QED BY <1>5, <1>6

(* A boundary before the end of a range is counted.                        *)
LEMMA CountOfBoundary ==
  ASSUME NEW s, NEW i \in Nat, NEW x \in Nat, NEW k \in Nat, i <= x, x < k,
         IsBoundary(s, x)
  PROVE  CountCodePoints(s, i, x) + 1 <= CountCodePoints(s, i, k)
<1>1. x + 1 \in Nat /\ i <= x + 1 /\ x + 1 <= k
  OBVIOUS
<1>2. CountCodePoints(s, i, x + 1) = CountCodePoints(s, i, x) + 1
  BY CountStep
<1>3. CountCodePoints(s, i, k) =
        CountCodePoints(s, i, x + 1) + CountCodePoints(s, x + 1, k)
  BY <1>1, CountSplit
<1>4. /\ CountCodePoints(s, x + 1, k) \in 0 .. k - (x + 1)
      /\ CountCodePoints(s, i, x) \in 0 .. x - i
  BY <1>1, CountType
<1> QED BY <1>2, <1>3, <1>4

(* Between two counts each number is that of a boundary, and U16_FWD_N     *)
(* finds it: it stops at a boundary, n code points further or at the end.  *)
LEMMA ForwardStopsAtBoundary ==
  ASSUME NEW s \in Seq(Nat), NEW i \in 0 .. Len(s), NEW n \in Nat
  PROVE  LET x == U16_FWD_N(s, i, n)
             all == CountCodePoints(s, i, Len(s))
         IN  /\ x \in i .. Len(s) /\ IsBoundary(s, x)
             /\ IF all <= n THEN x = Len(s) ELSE CountCodePoints(s, i, x) = n
<1> DEFINE L == Len(s)
           Count(x) == CountCodePoints(s, i, x)
<1>1. L \in Nat /\ i \in Nat /\ i <= L
  OBVIOUS
<1>2. CASE Count(L) <= n
  BY <1>1, <1>2, EndsAreBoundaries DEF U16_FWD_N
<1>3. CASE ~(Count(L) <= n)
  <2> DEFINE low == {x \in i .. L : Count(x) <= n}
  <2>1. \A x \in i .. L : Count(x) \in Nat
    BY <1>1, CountType
  <2>2. Count(i) = 0 /\ \A x \in i .. L - 1 :
          Count(x + 1) = Count(x) + IF IsBoundary(s, x) THEN 1 ELSE 0
    BY <1>1, CountStep
  <2> HIDE DEF Count
  <2>3. \E x \in low : \A y \in low : y <= x
    <3>1. low \in SUBSET (0 .. L) /\ low # {} /\ L \in Int
      BY <1>1, <2>2, SMTT(30)
    <3> HIDE DEF low, L
    <3> QED BY <3>1, RangeHasGreatest
  <2>4. PICK x \in low : \A y \in low : y <= x
    BY <2>3
  <2>5. x \in i .. L - 1 /\ ~(x + 1 \in low) /\ x + 1 \in i .. L
    <3>1. x # L
      BY <1>3
    <3> QED BY <1>1, <2>4, <3>1
  <2>6. ~(Count(x + 1) <= n) /\ Count(x) <= n
    BY <2>5
  <2>7. IsBoundary(s, x) /\ Count(x) = n
    <3>1. Count(x) \in Nat /\ Count(x + 1) \in Nat
          /\ Count(x + 1) = Count(x) + IF IsBoundary(s, x) THEN 1 ELSE 0
      BY <2>1, <2>2, <2>5
    <3> QED BY <2>6, <3>1
  <2>8. \E y \in i .. Len(s) : IsBoundary(s, y) /\ CountCodePoints(s, i, y) = n
    BY <2>5, <2>7 DEF Count
  <2>9. U16_FWD_N(s, i, n) = CHOOSE y \in i .. Len(s) :
          IsBoundary(s, y) /\ CountCodePoints(s, i, y) = n
    BY <1>3 DEF U16_FWD_N, Count
  <2>10. /\ U16_FWD_N(s, i, n) \in i .. Len(s)
         /\ IsBoundary(s, U16_FWD_N(s, i, n))
         /\ CountCodePoints(s, i, U16_FWD_N(s, i, n)) = n
    BY <2>8, <2>9
  <2> QED BY <1>3, <2>10 DEF Count
<1> QED BY <1>2, <1>3

(* A table of the code points from every index on.                         *)
IsTail(s, m, f) ==
  f = [i \in m .. Len(s) |->
         IF i = Len(s) THEN <<>>
         ELSE <<CodePointAt(s, i)>>
                \o f[IF StartsPair(s, i) THEN i + 2 ELSE i + 1]]

(* There is one for every string, so that the recursion of CodePoints is   *)
(* well-founded.                                                           *)
LEMMA TailExists ==
  ASSUME NEW s \in Seq(Nat)
  PROVE  \E f : IsTail(s, 0, f)
<1> DEFINE L == Len(s)
           bad == {d \in 0 .. L : ~\E f : IsTail(s, L - d, f)}
<1>1. L \in Nat
  OBVIOUS
<1>2. SUFFICES bad = {}
  BY <1>1
<1>3. SUFFICES ASSUME bad # {} PROVE FALSE
  OBVIOUS
<1>4. PICK d \in bad : \A y \in bad : d <= y
  <2>1. bad \in SUBSET Nat
    OBVIOUS
  <2> HIDE DEF bad
  <2> QED BY <1>3, <2>1, NatHasLeast
<1>5. d \in 0 .. L /\ ~\E f : IsTail(s, L - d, f)
  BY <1>4
<1>6. d # 0
  <2>1. IsTail(s, L, [i \in L .. L |-> <<>>])
    BY <1>1 DEF IsTail
  <2> QED BY <1>1, <1>5, <2>1
<1> DEFINE m == L - d
<1>7. m \in Nat /\ m < L /\ L - (d - 1) = m + 1 /\ d - 1 \in 0 .. L
  BY <1>1, <1>5, <1>6
<1>8. PICK f : IsTail(s, m + 1, f)
  <2>1. d - 1 \notin bad
    <3>1. d \in Nat /\ ~(d <= d - 1) /\ \A y \in bad : d <= y
      BY <1>1, <1>4, <1>5
    <3> HIDE DEF bad
    <3> QED BY <3>1
  <2> QED BY <1>7, <2>1
<1> HIDE DEF bad, L, m
<1> DEFINE next(i) == IF StartsPair(s, i) THEN i + 2 ELSE i + 1
           g == [i \in m .. L |->
                   IF i = m THEN <<CodePointAt(s, m)>> \o f[next(m)] ELSE f[i]]
<1>9. \A i \in m .. L - 1 : next(i) \in i + 1 .. L
  BY <1>1, <1>7 DEF StartsPair, L
<1>10. \A i \in m + 1 .. L :
         f[i] = IF i = L THEN <<>> ELSE <<CodePointAt(s, i)>> \o f[next(i)]
  BY <1>8 DEF IsTail, L
<1> HIDE DEF next
<1>11. \A i \in m + 1 .. L : g[i] = f[i]
  BY <1>1, <1>7
<1>12. g[m] = <<CodePointAt(s, m)>> \o f[next(m)] /\ next(m) \in m + 1 .. L
  BY <1>1, <1>7, <1>9
<1>13. \A i \in m .. L :
         g[i] = IF i = L THEN <<>> ELSE <<CodePointAt(s, i)>> \o g[next(i)]
  <2> SUFFICES ASSUME NEW i \in m .. L
               PROVE  g[i] = IF i = L THEN <<>>
                             ELSE <<CodePointAt(s, i)>> \o g[next(i)]
    OBVIOUS
  <2> HIDE DEF g
  <2>1. CASE i = m
    <3>1. g[next(m)] = f[next(m)]
      BY <1>11, <1>12
    <3>2. m # L
      BY <1>1, <1>7
    <3> QED BY <1>12, <2>1, <3>1, <3>2, Zenon
  <2>2. CASE i # m /\ i # L
    <3>1. i \in m + 1 .. L /\ next(i) \in m + 1 .. L
      BY <1>1, <1>7, <1>9, <2>2
    <3> QED BY <1>10, <1>11, <2>2, <3>1
  <2>3. CASE i # m /\ i = L
    <3>1. i \in m + 1 .. L
      BY <1>1, <1>7, <2>3
    <3> QED BY <1>10, <1>11, <2>3, <3>1
  <2> QED BY <2>1, <2>2, <2>3
<1>14. g = [i \in m .. L |-> g[i]]
  OBVIOUS
<1>15. IsTail(s, m, g)
  <2> HIDE DEF g
  <2>1. g = [i \in m .. L |->
               IF i = L THEN <<>> ELSE <<CodePointAt(s, i)>> \o g[next(i)]]
    BY <1>13, <1>14
  <2> QED BY <2>1, Zenon DEF IsTail, L, next
<1> QED BY <1>5, <1>15 DEF m

(* Two units make a number.                                                *)
LEMMA SupplementaryIsInt ==
  ASSUME NEW a \in Int, NEW b \in Int
  PROVE  U16_GET_SUPPLEMENTARY(a, b) \in Int
<1> DEFINE x == a - FirstLead
<1>1. x \in Int /\ TrailCount \in Int
  BY SurrogateLayout
<1> HIDE DEF x
<1>2. x * TrailCount \in Int
  BY <1>1
<1> QED BY <1>2, SurrogateLayout DEF U16_GET_SUPPLEMENTARY, x

(* What a tail is from a boundary on.                                      *)
TailIsRight(s, i, f) ==
  /\ f[i] \in Seq(Int)
  /\ Len(f[i]) = CountCodePoints(s, i, Len(s))
  /\ \A x \in i .. Len(s) - 1 :
       IsBoundary(s, x) => f[i][CountCodePoints(s, i, x) + 1] = CodePointAt(s, x)

(* If it is right behind a code point, it is right before it.              *)
LEMMA TailStep ==
  ASSUME NEW s \in Seq(Nat), NEW f, IsTail(s, 0, f),
         NEW i \in 0 .. Len(s) - 1, IsBoundary(s, i),
         TailIsRight(s, NextIndex(s, i), f)
  PROVE  TailIsRight(s, i, f)
<1> DEFINE L == Len(s)
           e == NextIndex(s, i)
           c == CodePointAt(s, i)
<1>1. L \in Nat /\ i \in 0 .. L - 1 /\ \A x \in 1 .. L : s[x] \in Nat
  OBVIOUS
<1>2. /\ e \in i + 1 .. L /\ IsBoundary(s, e)
      /\ \A x \in i + 1 .. e - 1 : ~IsBoundary(s, x)
  BY NextIndexIsBoundary
<1>3. f[i] = <<c>> \o f[e]
  <2>1. i \in 0 .. L /\ i # L
    BY <1>1
  <2>2. f[i] = IF i = L THEN <<>> ELSE <<CodePointAt(s, i)>> \o f[NextIndex(s, i)]
    <3> HIDE DEF L
    <3> QED BY <2>1, Zenon DEF IsTail, NextIndex, L
  <2> QED BY <2>1, <2>2, Zenon
<1>4. c \in Int
  <2>1. StartsPair(s, i) => i + 2 <= L
    BY DEF StartsPair
  <2>2. s[i + 1] \in Int /\ (StartsPair(s, i) => s[i + 2] \in Int)
    BY <1>1, <2>1
  <2>3. CASE StartsPair(s, i)
    <3>1. U16_GET_SUPPLEMENTARY(s[i + 1], s[i + 2]) \in Int
      BY <2>2, <2>3, SupplementaryIsInt
    <3> QED BY <2>3, <3>1 DEF CodePointAt, c
  <2> QED BY <2>2, <2>3 DEF CodePointAt, c
<1> HIDE DEF c
<1>5. /\ f[e] \in Seq(Int) /\ Len(f[e]) = CountCodePoints(s, e, L)
      /\ \A x \in e .. L - 1 :
           IsBoundary(s, x) => f[e][CountCodePoints(s, e, x) + 1] = CodePointAt(s, x)
  BY DEF TailIsRight
<1>6. CountCodePoints(s, i, e) = 1
  <2>1. e \in {i + 1, i + 2}
    BY <1>1 DEF NextIndex
  <2>2. /\ CountCodePoints(s, i, i) = 0 /\ CountCodePoints(s, i, i + 1) = 1
        /\ CountCodePoints(s, i, i + 2) = 1 + IF IsBoundary(s, i + 1) THEN 1 ELSE 0
    <3>1. \A k \in Nat : i <= k =>
            /\ CountCodePoints(s, i, i) = 0
            /\ CountCodePoints(s, i, k + 1) =
                 CountCodePoints(s, i, k) + IF IsBoundary(s, k) THEN 1 ELSE 0
      BY <1>1, CountStep, SMTT(30)
    <3>2. /\ i \in Nat /\ i + 1 \in Nat /\ i <= i /\ i <= i + 1
          /\ (i + 1) + 1 = i + 2
      BY <1>1
    <3>3. CountCodePoints(s, i, i) = 0
      BY <3>1, <3>2
    <3>4. CountCodePoints(s, i, i + 1) =
            CountCodePoints(s, i, i) + IF IsBoundary(s, i) THEN 1 ELSE 0
      BY <3>1, <3>2
    <3>5. CountCodePoints(s, i, (i + 1) + 1) =
            CountCodePoints(s, i, i + 1) + IF IsBoundary(s, i + 1) THEN 1 ELSE 0
      BY <3>1, <3>2
    <3>6. CountCodePoints(s, i, i + 1) = 1
      BY <3>3, <3>4
    <3>7. CountCodePoints(s, i, i + 2) =
            CountCodePoints(s, i, i + 1) + IF IsBoundary(s, i + 1) THEN 1 ELSE 0
      BY <3>2, <3>5
    <3> QED BY <3>3, <3>6, <3>7
  <2> QED BY <1>1, <1>2, <2>1, <2>2
<1>7. \A x \in e .. L :
        /\ CountCodePoints(s, e, x) \in 0 .. x - e
        /\ CountCodePoints(s, i, x) = 1 + CountCodePoints(s, e, x)
  <2> SUFFICES ASSUME NEW x \in e .. L
               PROVE  /\ CountCodePoints(s, e, x) \in 0 .. x - e
                      /\ CountCodePoints(s, i, x) = 1 + CountCodePoints(s, e, x)
    OBVIOUS
  <2>1. i \in Nat /\ e \in Nat /\ x \in Nat /\ i <= e /\ e <= x
    BY <1>1, <1>2
  <2> HIDE DEF e
  <2> QED BY <1>6, <2>1, CountSplit, CountType
<1> HIDE DEF e
<1> DEFINE t == f[e]
<1>8. /\ t \in Seq(Int) /\ f[i] = <<c>> \o t
      /\ Len(t) = CountCodePoints(s, e, L)
  BY <1>3, <1>5
<1> HIDE DEF t
<1>9. f[i] \in Seq(Int) /\ Len(f[i]) = 1 + Len(t)
  BY <1>4, <1>8
<1>10. \A k \in 1 .. Len(t) : f[i][k + 1] = t[k]
  BY <1>4, <1>8
<1>11. f[i][1] = c
  BY <1>4, <1>8
<1>12. ASSUME NEW x \in i .. L - 1, IsBoundary(s, x)
       PROVE  f[i][CountCodePoints(s, i, x) + 1] = CodePointAt(s, x)
  <2>1. CASE x = i
    <3>1. CountCodePoints(s, i, i) = 0
      BY <1>1, CountStep
    <3> QED BY <1>11, <2>1, <3>1 DEF c
  <2>2. CASE x # i
    <3>1. x \in e .. L - 1
      BY <1>1, <1>2, <1>12, <2>2
    <3> DEFINE k == CountCodePoints(s, e, x) + 1
    <3>2. /\ k \in Nat /\ k >= 1 /\ CountCodePoints(s, i, x) = k
          /\ t[k] = CodePointAt(s, x)
      <4>1. x \in e .. L /\ x \in Int /\ e \in Int
        BY <1>1, <1>2, <3>1
      <4>2. /\ CountCodePoints(s, e, x) \in 0 .. x - e
            /\ CountCodePoints(s, i, x) = 1 + CountCodePoints(s, e, x)
        BY <1>7, <4>1
      <4>3. t[k] = CodePointAt(s, x)
        BY <1>5, <1>12, <3>1, Zenon DEF t, k
      <4> QED BY <4>1, <4>2, <4>3
    <3>3. k <= Len(t)
      <4>1. e \in Nat /\ x \in Nat /\ L \in Nat /\ e <= x /\ x < L
        BY <1>1, <1>2, <3>1
      <4>2. CountCodePoints(s, e, x) + 1 <= CountCodePoints(s, e, L)
        BY <1>12, <4>1, CountOfBoundary
      <4> QED BY <1>8, <4>2
    <3> HIDE DEF k
    <3> QED BY <1>10, <3>2, <3>3
  <2> QED BY <2>1, <2>2
<1>13. Len(f[i]) = CountCodePoints(s, i, L)
  <2>1. L \in e .. L
    BY <1>1, <1>2
  <2> QED BY <1>7, <1>8, <1>9, <2>1
<1> QED BY <1>9, <1>12, <1>13 DEF TailIsRight

(* It is right from every boundary on: behind the last boundary from which *)
(* it was not, it would be.                                                *)
LEMMA TailsAreRight ==
  ASSUME NEW s \in Seq(Nat), NEW f, IsTail(s, 0, f)
  PROVE  \A i \in 0 .. Len(s) : IsBoundary(s, i) => TailIsRight(s, i, f)
<1> DEFINE L == Len(s)
           wrong == {i \in 0 .. L : IsBoundary(s, i) /\ ~TailIsRight(s, i, f)}
<1>1. L \in Nat
  OBVIOUS
<1>2. SUFFICES ASSUME wrong # {} PROVE FALSE
  OBVIOUS
<1>3. \E m \in wrong : \A y \in wrong : y <= m
  <2>1. wrong \in SUBSET (0 .. L) /\ L \in Int
    BY <1>1
  <2> HIDE DEF wrong, L
  <2> QED BY <1>2, <2>1, RangeHasGreatest
<1>4. PICK i \in wrong : \A y \in wrong : y <= i
  BY <1>3
<1>5. i \in 0 .. L /\ IsBoundary(s, i) /\ ~TailIsRight(s, i, f)
  BY <1>4
<1>6. CASE i = L
  <2>1. f[L] = <<>>
    BY <1>1 DEF IsTail
  <2>2. CountCodePoints(s, L, L) = 0
    BY <1>1, CountStep
  <2>3. TailIsRight(s, L, f)
    BY <1>1, <2>1, <2>2 DEF TailIsRight
  <2> QED BY <1>5, <1>6, <2>3
<1>7. CASE i # L
  <2>1. i \in 0 .. Len(s) - 1
    BY <1>1, <1>5, <1>7
  <2>2. NextIndex(s, i) \in i + 1 .. L /\ IsBoundary(s, NextIndex(s, i))
    BY <1>5, <2>1, NextIndexIsBoundary
  <2>3. NextIndex(s, i) \notin wrong
    <3>1. i \in Int /\ NextIndex(s, i) \in Int /\ ~(NextIndex(s, i) <= i)
      BY <1>1, <1>5, <2>2
    <3> HIDE DEF wrong
    <3> QED BY <1>4, <3>1
  <2>4. NextIndex(s, i) \in 0 .. L
    BY <1>1, <1>5, <2>2
  <2>5. TailIsRight(s, NextIndex(s, i), f)
    BY <2>2, <2>3, <2>4
  <2> QED BY <1>5, <2>1, <2>5, TailStep
<1> QED BY <1>6, <1>7

(* The code points of a string, without the recursion.                     *)
LEMMA CodePointsAtBoundaries ==
  ASSUME NEW s \in Seq(Nat)
  PROVE  /\ CodePoints(s) \in Seq(Int)
         /\ Len(CodePoints(s)) = CountCodePoints(s, 0, Len(s))
         /\ \A x \in 0 .. Len(s) - 1 :
              IsBoundary(s, x) =>
                CodePoints(s)[CountCodePoints(s, 0, x) + 1] = CodePointAt(s, x)
<1> DEFINE f == CHOOSE g : IsTail(s, 0, g)
<1>1. IsTail(s, 0, f)
  BY TailExists
<1>2. CodePoints(s) = f[0]
  BY Zenon DEF CodePoints, IsTail
<1> HIDE DEF f
<1>3. TailIsRight(s, 0, f)
  <2>1. 0 \in 0 .. Len(s) /\ IsBoundary(s, 0)
    BY EndsAreBoundaries
  <2> QED BY <1>1, <2>1, TailsAreRight
<1> QED BY <1>2, <1>3 DEF TailIsRight

(* Each of them starts at a boundary.                                      *)
LEMMA EveryCodePointHasBoundary ==
  ASSUME NEW s \in Seq(Nat), NEW k \in 0 .. CountCodePoints(s, 0, Len(s)) - 1
  PROVE  \E x \in 0 .. Len(s) - 1 :
           IsBoundary(s, x) /\ CountCodePoints(s, 0, x) = k
<1> DEFINE x == U16_FWD_N(s, 0, k)
           all == CountCodePoints(s, 0, Len(s))
<1>1. Len(s) \in Nat /\ 0 \in 0 .. Len(s)
  OBVIOUS
<1>2. all \in 0 .. Len(s)
  BY <1>1, CountType
<1>3. k \in Nat /\ ~(all <= k)
  BY <1>2
<1>4. x \in 0 .. Len(s) /\ IsBoundary(s, x) /\ CountCodePoints(s, 0, x) = k
  BY <1>1, <1>3, ForwardStopsAtBoundary
<1>5. x # Len(s)
  BY <1>3, <1>4
<1> HIDE DEF x
<1> QED BY <1>1, <1>4, <1>5

-----------------------------------------------------------------------------
(* A string into which the units t have been put at index u.               *)
Spliced(s, u, t) == SubSeq(s, 1, u) \o t \o SubSeq(s, u + 1, Len(s))

(* One string behind another.                                              *)
LEMMA ConcatUnits ==
  ASSUME NEW S, NEW a \in Seq(S), NEW b \in Seq(S)
  PROVE  /\ a \o b \in Seq(S) /\ Len(a \o b) = Len(a) + Len(b)
         /\ \A i \in 1 .. Len(a) : (a \o b)[i] = a[i]
         /\ \A i \in 1 .. Len(b) : (a \o b)[Len(a) + i] = b[i]
<1>1. /\ a \o b \in Seq(S) /\ Len(a \o b) = Len(a) + Len(b)
      /\ \A i \in 1 .. Len(a) + Len(b) :
           (a \o b)[i] = IF i <= Len(a) THEN a[i] ELSE b[i - Len(a)]
  BY ConcatProperties
<1>2. Len(a) \in Nat /\ Len(b) \in Nat
  OBVIOUS
<1>3. \A i \in 1 .. Len(a) : (a \o b)[i] = a[i]
  BY <1>1, <1>2
<1>4. ASSUME NEW i \in 1 .. Len(b) PROVE (a \o b)[Len(a) + i] = b[i]
  <2>1. /\ Len(a) + i \in 1 .. Len(a) + Len(b) /\ ~(Len(a) + i <= Len(a))
        /\ (Len(a) + i) - Len(a) = i
    BY <1>2
  <2> QED BY <1>1, <2>1
<1> QED BY <1>1, <1>3, <1>4

(* What was before stays, what was behind moves.                           *)
LEMMA SplicedUnits ==
  ASSUME NEW S, NEW s \in Seq(S), NEW u \in 0 .. Len(s), NEW t \in Seq(S)
  PROVE  /\ Spliced(s, u, t) \in Seq(S)
         /\ Len(Spliced(s, u, t)) = Len(s) + Len(t)
         /\ \A i \in 1 .. u : Spliced(s, u, t)[i] = s[i]
         /\ \A i \in 1 .. Len(t) : Spliced(s, u, t)[u + i] = t[i]
         /\ \A i \in u + 1 .. Len(s) : Spliced(s, u, t)[i + Len(t)] = s[i]
<1> DEFINE front == SubSeq(s, 1, u)
           back  == SubSeq(s, u + 1, Len(s))
<1>1. Len(s) \in Nat /\ Len(t) \in Nat /\ u \in Nat
  OBVIOUS
<1>2. front \in Seq(S) /\ Len(front) = u /\ \A i \in 1 .. u : front[i] = s[i]
  BY <1>1
<1>3. /\ back \in Seq(S) /\ Len(back) = Len(s) - u
      /\ \A i \in 1 .. Len(s) - u : back[i] = s[u + i]
  BY <1>1
<1> HIDE DEF front, back
<1> DEFINE head == front \o t
<1>4. /\ head \in Seq(S) /\ Len(head) = u + Len(t)
      /\ \A i \in 1 .. u : head[i] = s[i]
      /\ \A i \in 1 .. Len(t) : head[u + i] = t[i]
  BY <1>1, <1>2
<1>5. Spliced(s, u, t) = head \o back
  BY DEF Spliced, front, back
<1> HIDE DEF head
<1>6. /\ head \o back \in Seq(S) /\ Len(head \o back) = Len(head) + Len(back)
      /\ \A i \in 1 .. Len(head) : (head \o back)[i] = head[i]
      /\ \A i \in 1 .. Len(back) : (head \o back)[Len(head) + i] = back[i]
  <2>1. \A a, b \in Seq(S) :
          /\ a \o b \in Seq(S) /\ Len(a \o b) = Len(a) + Len(b)
          /\ \A i \in 1 .. Len(a) : (a \o b)[i] = a[i]
          /\ \A i \in 1 .. Len(b) : (a \o b)[Len(a) + i] = b[i]
    BY ConcatUnits
  <2>2. head \in Seq(S) /\ back \in Seq(S)
    BY <1>3, <1>4
  <2> QED BY <2>1, <2>2, Zenon
<1> DEFINE e == Spliced(s, u, t)
<1>7. /\ e \in Seq(S) /\ Len(e) = Len(head) + Len(back)
      /\ \A i \in 1 .. Len(head) : e[i] = head[i]
      /\ \A i \in 1 .. Len(back) : e[Len(head) + i] = back[i]
  BY <1>5, <1>6
<1> HIDE DEF e
<1>8. Len(e) = Len(s) + Len(t)
  BY <1>1, <1>3, <1>4, <1>7
<1>9. \A i \in 1 .. u : e[i] = s[i]
  BY <1>1, <1>4, <1>7
<1>10. \A i \in 1 .. Len(t) : e[u + i] = t[i]
  BY <1>1, <1>4, <1>7
<1>11. ASSUME NEW i \in u + 1 .. Len(s) PROVE e[i + Len(t)] = s[i]
  <2>1. /\ i - u \in 1 .. Len(back) /\ u + (i - u) = i
        /\ Len(head) + (i - u) = i + Len(t)
    BY <1>1, <1>3, <1>4
  <2>2. e[Len(head) + (i - u)] = back[i - u] /\ back[i - u] = s[u + (i - u)]
    BY <1>1, <1>3, <1>7, <2>1
  <2> QED BY <2>1, <2>2
<1> QED BY <1>7, <1>8, <1>9, <1>10, <1>11 DEF e

(* A supplementary code point is a lead and a trail surrogate, and the two *)
(* make it again.                                                          *)
LEMMA SurrogatesOfCodePoint ==
  ASSUME NEW c \in FirstSupplementary .. MaxCodePoint
  PROVE  /\ U16_LEAD(c) \in Nat /\ IsLead(U16_LEAD(c))
         /\ U16_TRAIL(c) \in Nat /\ IsTrail(U16_TRAIL(c))
         /\ U16_GET_SUPPLEMENTARY(U16_LEAD(c), U16_TRAIL(c)) = c
<1> DEFINE x == c - FirstSupplementary
           L == FirstTrail - FirstLead
           q == x \div TrailCount
           r == x % TrailCount
<1>1. /\ c \in Nat /\ x \in Nat /\ L \in Nat /\ TrailCount \in Nat
      /\ TrailCount > 0 /\ FirstSupplementary \in Nat
  BY SurrogateLayout, MaxCodePointIsNat
<1>2. L * TrailCount \in Nat /\ x < L * TrailCount
  <2>1. L * TrailCount \in Nat
    BY <1>1
  <2> DEFINE p == L * TrailCount
  <2>2. MaxCodePoint = FirstSupplementary + p - 1 /\ p \in Nat
    BY <2>1 DEF MaxCodePoint
  <2> HIDE DEF p
  <2>3. x < p
    BY <1>1, <2>2
  <2> QED BY <2>1, <2>3 DEF p
<1> HIDE DEF x, L
<1>3. /\ q \in Nat /\ r \in 0 .. TrailCount - 1
      /\ x = q * TrailCount + r /\ q * TrailCount \in Nat
  BY <1>1
<1> HIDE DEF q, r
<1>4. q < L
  <2>1. SUFFICES ASSUME q >= L PROVE FALSE
    BY <1>1, <1>3
  <2>2. q * TrailCount >= L * TrailCount
    BY <1>1, <1>3, <2>1
  <2> QED BY <1>1, <1>2, <1>3, <2>2
<1>5. U16_LEAD(c) = FirstLead + q /\ U16_TRAIL(c) = FirstTrail + r
  BY DEF U16_LEAD, U16_TRAIL, q, r, x
<1>6. /\ U16_LEAD(c) \in Nat /\ IsLead(U16_LEAD(c))
      /\ U16_TRAIL(c) \in Nat /\ IsTrail(U16_TRAIL(c))
  BY <1>1, <1>3, <1>4, <1>5, SurrogateLayout DEF IsLead, IsTrail, L
<1>7. /\ U16_LEAD(c) - FirstLead = q /\ U16_TRAIL(c) - FirstTrail = r
  BY <1>3, <1>5, SurrogateLayout
<1>8. U16_GET_SUPPLEMENTARY(U16_LEAD(c), U16_TRAIL(c)) =
        FirstSupplementary + q * TrailCount + r
  BY <1>7, Zenon DEF U16_GET_SUPPLEMENTARY
<1> QED BY <1>1, <1>3, <1>6, <1>8 DEF x

(* The string e is d with the code point c, of n units, put at index u: no *)
(* other pair begins or ends.                                              *)
IsInsertion(e, d, u, c, n) ==
  /\ e \in Seq(Nat) /\ d \in Seq(Nat) /\ Len(e) = Len(d) + n
  /\ u \in 0 .. Len(d) /\ IsBoundary(d, u) /\ n \in 1 .. 2
  /\ \A x \in 0 .. u - 1 : /\ StartsPair(e, x) <=> StartsPair(d, x)
                           /\ CodePointAt(e, x) = CodePointAt(d, x)
  /\ StartsPair(e, u) <=> n = 2
  /\ n = 2 => ~StartsPair(e, u + 1)
  /\ CodePointAt(e, u) = c
  /\ \A x \in u .. Len(d) :
       /\ StartsPair(e, x + n) <=> StartsPair(d, x)
       /\ x < Len(d) => CodePointAt(e, x + n) = CodePointAt(d, x)

(* It is that if a code point that is no surrogate is put at a boundary.   *)
LEMMA SplicedPairs ==
  ASSUME NEW d \in Seq(Nat), NEW u \in 0 .. Len(d), IsBoundary(d, u),
         NEW c \in 0 .. MaxCodePoint, ~IsSurrogate(c),
         NEW e, e = Spliced(d, u, CodeUnits(c)), NEW n, n = U16_LENGTH(c)
  PROVE  IsInsertion(e, d, u, c, n)
<1> DEFINE t == CodeUnits(c)
           L == Len(d)
<1>1. /\ L \in Nat /\ u \in 0 .. L /\ c \in Nat
      /\ \A x \in 1 .. L : d[x] \in Nat
  BY MaxCodePointIsNat
<1>2. t \in Seq(Nat) /\ Len(t) = n /\ n \in 1 .. 2
  BY CodeUnitsType
<1>3. /\ n = 1 => t[1] = c /\ ~IsLead(c) /\ ~IsTrail(c)
      /\ n = 2 => /\ IsLead(t[1]) /\ IsTrail(t[2])
                  /\ U16_GET_SUPPLEMENTARY(t[1], t[2]) = c
  <2>1. n = 1 => t = <<c>> /\ ~IsLead(c) /\ ~IsTrail(c)
    BY <1>1, SurrogateLayout DEF CodeUnits, IsSurrogate, IsLead, IsTrail
  <2>2. n = 2 => c \in FirstSupplementary .. MaxCodePoint
                 /\ t = <<U16_LEAD(c), U16_TRAIL(c)>>
    BY <1>1, SurrogateLayout, MaxCodePointIsNat DEF U16_LENGTH, CodeUnits
  <2>3. n = 1 => t[1] = c
    BY <2>1
  <2>4. n = 2 => t[1] = U16_LEAD(c) /\ t[2] = U16_TRAIL(c)
    BY <2>2
  <2> QED BY <2>1, <2>2, <2>3, <2>4, SurrogatesOfCodePoint
<1>4. ~IsTrail(t[1]) /\ t[1] \in Nat
  <2>1. t[1] \in Nat
    BY <1>2
  <2> QED BY <1>2, <1>3, <2>1, SurrogateLayout DEF IsLead, IsTrail
<1> HIDE DEF t
<1>5. /\ e \in Seq(Nat) /\ Len(e) = L + n
      /\ \A x \in 1 .. u : e[x] = d[x]
      /\ \A x \in 1 .. n : e[u + x] = t[x]
      /\ \A x \in u + 1 .. L : e[x + n] = d[x]
  <2>1. /\ Spliced(d, u, t) \in Seq(Nat)
        /\ Len(Spliced(d, u, t)) = Len(d) + Len(t)
        /\ \A x \in 1 .. u : Spliced(d, u, t)[x] = d[x]
        /\ \A x \in 1 .. Len(t) : Spliced(d, u, t)[u + x] = t[x]
        /\ \A x \in u + 1 .. Len(d) : Spliced(d, u, t)[x + Len(t)] = d[x]
    <3>1. \A v \in 0 .. Len(d), z \in Seq(Nat) :
            /\ Spliced(d, v, z) \in Seq(Nat)
            /\ Len(Spliced(d, v, z)) = Len(d) + Len(z)
            /\ \A x \in 1 .. v : Spliced(d, v, z)[x] = d[x]
            /\ \A x \in 1 .. Len(z) : Spliced(d, v, z)[v + x] = z[x]
            /\ \A x \in v + 1 .. Len(d) : Spliced(d, v, z)[x + Len(z)] = d[x]
      BY SplicedUnits, ZenonT(30)
    <3> QED BY <1>2, <3>1, Zenon
  <2>2. e = Spliced(d, u, t)
    BY DEF t
  <2> QED BY <1>2, <2>1, <2>2
<1>6. e[u + 1] = t[1] /\ (n = 2 => e[u + 2] = t[2])
  BY <1>2, <1>5
<1> HIDE DEF L
<1>7. ASSUME NEW x \in 0 .. u - 1
      PROVE  /\ StartsPair(e, x) <=> StartsPair(d, x)
             /\ CodePointAt(e, x) = CodePointAt(d, x)
  <2>1. e[x + 1] = d[x + 1] /\ x \in Nat /\ u \in Nat /\ x < u
    BY <1>1, <1>5
  <2>2. CASE x = u - 1
    <3>1. ~StartsPair(d, x)
      BY <1>1, <2>1, <2>2 DEF IsBoundary
    <3>2. e[x + 2] = t[1]
      <4>1. x + 2 = u + 1
        BY <1>1, <2>2
      <4> QED BY <1>6, <4>1
    <3>3. ~StartsPair(e, x)
      BY <1>4, <3>2 DEF StartsPair
    <3> QED BY <2>1, <3>1, <3>3 DEF CodePointAt
  <2>3. CASE x # u - 1
    <3>1. x + 2 \in 1 .. u /\ x + 2 <= L /\ x + 2 <= L + n
      BY <1>1, <1>2, <2>1, <2>3
    <3>2. e[x + 2] = d[x + 2]
      BY <1>5, <3>1
    <3>3. StartsPair(e, x) <=> StartsPair(d, x)
      BY <1>5, <2>1, <3>1, <3>2 DEF StartsPair, L
    <3> QED BY <2>1, <3>2, <3>3 DEF CodePointAt
  <2> QED BY <2>2, <2>3
<1>8. StartsPair(e, u) <=> n = 2
  <2>1. CASE n = 1
    BY <1>3, <1>6, <2>1 DEF StartsPair
  <2>2. CASE n = 2
    BY <1>1, <1>3, <1>5, <1>6, <2>2 DEF StartsPair
  <2> QED BY <1>2, <2>1, <2>2
<1>9. n = 2 => ~StartsPair(e, u + 1)
  <2>1. n = 2 => ~IsLead(e[u + 2])
    <3>1. n = 2 => t[2] \in Nat
      <4>1. n = 2 => 2 \in 1 .. Len(t)
        BY <1>2
      <4>2. \A x \in 1 .. Len(t) : t[x] \in Nat
        BY <1>2
      <4> QED BY <4>1, <4>2
    <3> QED BY <1>3, <1>6, <3>1, SurrogateLayout DEF IsLead, IsTrail
  <2>2. (u + 1) + 1 = u + 2
    BY <1>1
  <2> QED BY <2>1, <2>2 DEF StartsPair
<1>10. CodePointAt(e, u) = c
  BY <1>2, <1>3, <1>6, <1>8 DEF CodePointAt
<1>11. ASSUME NEW x \in u .. L
       PROVE  /\ StartsPair(e, x + n) <=> StartsPair(d, x)
              /\ x < L => CodePointAt(e, x + n) = CodePointAt(d, x)
  <2>1. /\ x \in Nat /\ n \in Nat /\ (x + n) + 1 = (x + 1) + n
        /\ (x + n) + 2 = (x + 2) + n /\ x <= L
    BY <1>1, <1>2
  <2>2. CASE x + 2 <= L
    <3>1. e[(x + n) + 1] = d[x + 1] /\ e[(x + n) + 2] = d[x + 2]
      <4>1. x + 1 \in u + 1 .. L /\ x + 2 \in u + 1 .. L
        BY <1>1, <2>1, <2>2
      <4>2. e[(x + 1) + n] = d[x + 1] /\ e[(x + 2) + n] = d[x + 2]
        BY <1>5, <4>1
      <4> QED BY <2>1, <4>2
    <3>2. (x + n) + 2 <= Len(e)
      BY <1>1, <1>5, <2>1, <2>2
    <3>3. StartsPair(e, x + n) <=> StartsPair(d, x)
      BY <2>2, <3>1, <3>2 DEF StartsPair, L
    <3> QED BY <3>1, <3>3 DEF CodePointAt
  <2>3. CASE ~(x + 2 <= L)
    <3>1. ~StartsPair(e, x + n) /\ ~StartsPair(d, x)
      BY <1>1, <1>5, <2>1, <2>3 DEF StartsPair, L
    <3>2. x < L => e[(x + n) + 1] = d[x + 1]
      <4>1. x < L => x + 1 \in u + 1 .. L
        BY <1>1, <2>1
      <4>2. x < L => e[(x + 1) + n] = d[x + 1]
        BY <1>5, <4>1
      <4> QED BY <2>1, <4>2
    <3> QED BY <3>1, <3>2 DEF CodePointAt
  <2> QED BY <2>2, <2>3
<1> QED BY <1>2, <1>5, <1>7, <1>8, <1>9, <1>10, <1>11 DEF L, IsInsertion

(* The boundaries are those there were, and the new one.                   *)
LEMMA SplicedBoundaries ==
  ASSUME NEW d, NEW u, NEW c, NEW e, NEW n, IsInsertion(e, d, u, c, n)
  PROVE  /\ \A x \in 0 .. u : IsBoundary(e, x) <=> IsBoundary(d, x)
         /\ n = 2 => ~IsBoundary(e, u + 1)
         /\ \A x \in u .. Len(d) : IsBoundary(e, x + n) <=> IsBoundary(d, x)
<1>1. /\ n \in 1 .. 2 /\ u \in Nat /\ Len(d) \in Nat /\ IsBoundary(d, u)
      /\ \A x \in 0 .. u - 1 : StartsPair(e, x) <=> StartsPair(d, x)
      /\ StartsPair(e, u) <=> n = 2
      /\ n = 2 => ~StartsPair(e, u + 1)
      /\ \A x \in u .. Len(d) : StartsPair(e, x + n) <=> StartsPair(d, x)
  BY DEF IsInsertion
<1>2. ASSUME NEW x \in 0 .. u PROVE IsBoundary(e, x) <=> IsBoundary(d, x)
  <2>1. x > 0 => x - 1 \in 0 .. u - 1
    BY <1>1
  <2> QED BY <1>1, <2>1 DEF IsBoundary
<1>3. n = 2 => ~IsBoundary(e, u + 1)
  BY <1>1 DEF IsBoundary
<1>4. ASSUME NEW x \in u .. Len(d)
      PROVE  IsBoundary(e, x + n) <=> IsBoundary(d, x)
  <2>1. CASE x = u
    <3>1. ~StartsPair(e, (u + n) - 1)
      <4>1. n = 1 => (u + n) - 1 = u
        BY <1>1
      <4>2. n = 2 => (u + n) - 1 = u + 1
        BY <1>1
      <4> QED BY <1>1, <4>1, <4>2
    <3> QED BY <1>1, <2>1, <3>1 DEF IsBoundary
  <2>2. CASE x # u
    <3>1. x - 1 \in u .. Len(d) /\ (x - 1) + n = (x + n) - 1 /\ x > 0 /\ x + n > 0
      BY <1>1, <2>2
    <3>2. StartsPair(e, (x + n) - 1) <=> StartsPair(d, x - 1)
      BY <1>1, <3>1
    <3> QED BY <3>1, <3>2 DEF IsBoundary
  <2> QED BY <2>1, <2>2
<1> QED BY <1>2, <1>3, <1>4

(* There are as many as before up to the new code point, and one more from *)
(* there on.                                                               *)
LEMMA SplicedCounts ==
  ASSUME NEW d, NEW u, NEW c, NEW e, NEW n, IsInsertion(e, d, u, c, n)
  PROVE  /\ \A y \in 0 .. u : CountCodePoints(e, 0, y) = CountCodePoints(d, 0, y)
         /\ \A y \in u .. Len(d) :
              CountCodePoints(e, 0, y + n) = CountCodePoints(d, 0, y) + 1
<1> DEFINE L == Len(d)
           D(y) == CountCodePoints(d, 0, y)
           E(y) == CountCodePoints(e, 0, y)
<1>1. /\ \A x \in 0 .. u : IsBoundary(e, x) <=> IsBoundary(d, x)
      /\ n = 2 => ~IsBoundary(e, u + 1)
      /\ \A x \in u .. L : IsBoundary(e, x + n) <=> IsBoundary(d, x)
  BY SplicedBoundaries
<1>2. n \in 1 .. 2 /\ u \in 0 .. L /\ L \in Nat /\ IsBoundary(d, u)
  BY DEF IsInsertion
<1>3. \A k \in Nat :
        /\ D(k) \in Int /\ E(k) \in Int
        /\ D(k + 1) = D(k) + IF IsBoundary(d, k) THEN 1 ELSE 0
        /\ E(k + 1) = E(k) + IF IsBoundary(e, k) THEN 1 ELSE 0
  <2>1. \A k \in Nat :
          /\ CountCodePoints(d, 0, k) \in Int
          /\ CountCodePoints(d, 0, k + 1) =
               CountCodePoints(d, 0, k) + IF IsBoundary(d, k) THEN 1 ELSE 0
    BY CountUp, Zenon
  <2>2. \A k \in Nat :
          /\ CountCodePoints(e, 0, k) \in Int
          /\ CountCodePoints(e, 0, k + 1) =
               CountCodePoints(e, 0, k) + IF IsBoundary(e, k) THEN 1 ELSE 0
    BY CountUp, Zenon
  <2> QED BY <2>1, <2>2, Zenon
<1>4. ASSUME NEW y \in 0 .. u PROVE E(y) = D(y)
  <2>1. {x \in 0 .. y - 1 : IsBoundary(e, x)} =
        {x \in 0 .. y - 1 : IsBoundary(d, x)}
    BY <1>1, <1>2
  <2> QED BY <2>1 DEF CountCodePoints
<1> HIDE DEF D, E, L
<1>5. E(u + n) = D(u) + 1
  <2>1. IsBoundary(e, u) /\ E(u) = D(u) /\ u \in Nat /\ u + 1 \in Nat
    BY <1>1, <1>2, <1>4
  <2>2. E(u + 1) = D(u) + 1
    BY <1>3, <2>1
  <2>3. CASE n = 1
    BY <2>2, <2>3
  <2>4. CASE n = 2
    <3>1. ~IsBoundary(e, u + 1) /\ E((u + 1) + 1) = E(u + 1)
      <4>1. E(u + 1) \in Int
        BY <1>3, <2>1
      <4> QED BY <1>1, <1>3, <2>1, <2>4, <4>1
    <3>2. (u + 1) + 1 = u + n
      BY <1>2, <2>4
    <3> QED BY <2>2, <3>1, <3>2
  <2> QED BY <1>2, <2>3, <2>4
<1> DEFINE wrong == {y \in Nat : y \in u .. L /\ E(y + n) # D(y) + 1}
<1>6. wrong = {}
  <2> SUFFICES ASSUME wrong # {} PROVE FALSE
    OBVIOUS
  <2>1. \E m \in wrong : \A y \in wrong : m <= y
    <3>1. wrong \in SUBSET Nat
      OBVIOUS
    <3> HIDE DEF wrong
    <3> QED BY <3>1, NatHasLeast
  <2>2. PICK m \in wrong : \A y \in wrong : m <= y
    BY <2>1
  <2>3. m \in u .. L /\ E(m + n) # D(m) + 1 /\ m \in Nat
    BY <2>2
  <2>4. m # u
    BY <1>5, <2>3
  <2>5. m - 1 \in u .. L /\ m - 1 \in Nat /\ ~(m <= m - 1)
    BY <1>2, <2>3, <2>4
  <2>6. m - 1 \notin wrong
    <3> HIDE DEF wrong
    <3> QED BY <2>2, <2>5
  <2>7. E((m - 1) + n) = D(m - 1) + 1
    BY <2>5, <2>6
  <2>8. /\ D((m - 1) + 1) = D(m - 1) + IF IsBoundary(d, m - 1) THEN 1 ELSE 0
        /\ E(((m - 1) + n) + 1) =
             E((m - 1) + n) + IF IsBoundary(e, (m - 1) + n) THEN 1 ELSE 0
        /\ D(m - 1) \in Int
    <3>1. (m - 1) + n \in Nat
      BY <1>2, <2>5
    <3> QED BY <1>3, <2>5, <3>1
  <2>9. IsBoundary(e, (m - 1) + n) <=> IsBoundary(d, m - 1)
    BY <1>1, <2>5
  <2>10. (m - 1) + 1 = m /\ ((m - 1) + n) + 1 = m + n
    BY <1>2, <2>3
  <2> QED BY <2>3, <2>7, <2>8, <2>9, <2>10
<1>7. ASSUME NEW y \in u .. L PROVE E(y + n) = D(y) + 1
  <2>1. y \in Nat
    BY <1>2
  <2> QED BY <1>6, <2>1
<1> QED BY <1>4, <1>7 DEF D, E, L

(* So the code points are those there were, with the new one among them.   *)
LEMMA SplicedCodePoints ==
  ASSUME NEW d, NEW u, NEW c, NEW e, NEW n, IsInsertion(e, d, u, c, n)
  PROVE  LET p == CodePoints(d)
             k == CountCodePoints(d, 0, u)
         IN  CodePoints(e) = SubSeq(p, 1, k) \o <<c>> \o SubSeq(p, k + 1, Len(p))
<1> DEFINE p == CodePoints(d)
           q == CodePoints(e)
           k == CountCodePoints(d, 0, u)
           D(y) == CountCodePoints(d, 0, y)
           E(y) == CountCodePoints(e, 0, y)
           r == Spliced(p, k, <<c>>)
<1>1. /\ e \in Seq(Nat) /\ d \in Seq(Nat) /\ Len(e) = Len(d) + n
      /\ n \in 1 .. 2 /\ u \in 0 .. Len(d) /\ Len(d) \in Nat /\ IsBoundary(d, u)
      /\ \A x \in 0 .. u - 1 : CodePointAt(e, x) = CodePointAt(d, x)
      /\ CodePointAt(e, u) = c
      /\ \A x \in u .. Len(d) - 1 : CodePointAt(e, x + n) = CodePointAt(d, x)
  <2>1. /\ d \in Seq(Nat) /\ u \in 0 .. Len(d)
        /\ \A x \in u .. Len(d) :
             x < Len(d) => CodePointAt(e, x + n) = CodePointAt(d, x)
    BY DEF IsInsertion
  <2>2. Len(d) \in Nat
    BY <2>1
  <2>3. \A x \in u .. Len(d) - 1 : CodePointAt(e, x + n) = CodePointAt(d, x)
    BY <2>1, <2>2
  <2> QED BY <2>2, <2>3 DEF IsInsertion
<1>2. /\ \A x \in 0 .. u : IsBoundary(e, x) <=> IsBoundary(d, x)
      /\ n = 2 => ~IsBoundary(e, u + 1)
      /\ \A x \in u .. Len(d) : IsBoundary(e, x + n) <=> IsBoundary(d, x)
  BY SplicedBoundaries
<1>3. /\ \A y \in 0 .. u : E(y) = D(y)
      /\ \A y \in u .. Len(d) : E(y + n) = D(y) + 1
  BY SplicedCounts
<1>4. /\ p \in Seq(Int) /\ Len(p) = D(Len(d))
      /\ \A x \in 0 .. Len(d) - 1 :
           IsBoundary(d, x) => p[D(x) + 1] = CodePointAt(d, x)
  BY <1>1, CodePointsAtBoundaries
<1>5. /\ q \in Seq(Int) /\ Len(q) = E(Len(e))
      /\ \A x \in 0 .. Len(e) - 1 :
           IsBoundary(e, x) => q[E(x) + 1] = CodePointAt(e, x)
  BY <1>1, CodePointsAtBoundaries
<1>6. Len(q) = Len(p) + 1
  BY <1>1, <1>3, <1>4, <1>5
<1>7. k \in 0 .. Len(p)
  <2>1. /\ D(u) \in 0 .. u - 0 /\ D(Len(d)) = D(u) + CountCodePoints(d, u, Len(d))
        /\ CountCodePoints(d, u, Len(d)) \in 0 .. Len(d) - u
    <3>1. 0 \in Nat /\ u \in Nat /\ 0 <= u /\ u <= Len(d)
      BY <1>1
    <3> QED BY <1>1, <3>1, CountSplit, CountType
  <2> QED BY <1>1, <1>4, <2>1
<1>8. \A j \in 0 .. Len(q) - 1 : \E x \in 0 .. Len(e) - 1 :
        IsBoundary(e, x) /\ E(x) = j
  BY <1>1, <1>5, EveryCodePointHasBoundary
<1>9. c \in Int
  <2>1. E(u) + 1 \in 1 .. Len(q)
    <3>1. E(u) = k
      BY <1>1, <1>3
    <3> QED BY <1>6, <1>7, <3>1
  <2>2. q[E(u) + 1] = c
    BY <1>1, <1>2, <1>5
  <2> HIDE DEF q, E
  <2> QED BY <1>5, <2>1, <2>2
<1>10. /\ r \in Seq(Int) /\ Len(r) = Len(p) + 1
       /\ \A j \in 1 .. k : r[j] = p[j]
       /\ r[k + 1] = c
       /\ \A j \in k + 1 .. Len(p) : r[j + 1] = p[j]
  <2> HIDE DEF p, k
  <2> DEFINE t == <<c>>
  <2>1. t \in Seq(Int) /\ Len(t) = 1 /\ t[1] = c
    BY <1>9
  <2> HIDE DEF t
  <2>2. /\ Spliced(p, k, t) \in Seq(Int)
        /\ Len(Spliced(p, k, t)) = Len(p) + Len(t)
        /\ \A j \in 1 .. k : Spliced(p, k, t)[j] = p[j]
        /\ \A j \in 1 .. Len(t) : Spliced(p, k, t)[k + j] = t[j]
        /\ \A j \in k + 1 .. Len(p) : Spliced(p, k, t)[j + Len(t)] = p[j]
    <3>1. \A s1, t1 \in Seq(Int) : \A v \in 0 .. Len(s1) :
            /\ Spliced(s1, v, t1) \in Seq(Int)
            /\ Len(Spliced(s1, v, t1)) = Len(s1) + Len(t1)
            /\ \A j \in 1 .. v : Spliced(s1, v, t1)[j] = s1[j]
            /\ \A j \in 1 .. Len(t1) : Spliced(s1, v, t1)[v + j] = t1[j]
            /\ \A j \in v + 1 .. Len(s1) : Spliced(s1, v, t1)[j + Len(t1)] = s1[j]
      BY SplicedUnits, SMTT(30)
    <3> QED BY <1>4, <1>7, <2>1, <3>1, Zenon
  <2>3. r = Spliced(p, k, t)
    BY DEF t
  <2> HIDE DEF r
  <2>4. /\ r \in Seq(Int) /\ Len(r) = Len(p) + 1
        /\ \A j \in 1 .. k : r[j] = p[j]
    BY <2>1, <2>2, <2>3
  <2>5. r[k + 1] = c
    BY <2>1, <2>2, <2>3
  <2>6. \A j \in k + 1 .. Len(p) : r[j + 1] = p[j]
    BY <2>1, <2>2, <2>3
  <2> QED BY <2>4, <2>5, <2>6
<1> HIDE DEF p, q, r
<1>11. ASSUME NEW j \in 1 .. Len(q) PROVE q[j] = r[j]
  <2>1. j - 1 \in 0 .. Len(q) - 1 /\ (j - 1) + 1 = j
    BY <1>6, <1>7
  <2>2. PICK x \in 0 .. Len(e) - 1 : IsBoundary(e, x) /\ E(x) = j - 1
    BY <1>8, <2>1
  <2>3. q[j] = CodePointAt(e, x)
    BY <1>5, <2>1, <2>2
  <2> HIDE DEF E, D
  <2>4. CASE x < u
    <3>1. x \in 0 .. u - 1 /\ x \in 0 .. u /\ x \in 0 .. Len(d) - 1
      BY <1>1, <2>2, <2>4
    <3>2. D(x) = j - 1 /\ IsBoundary(d, x) /\ CodePointAt(e, x) = CodePointAt(d, x)
      BY <1>1, <1>2, <1>3, <2>2, <3>1
    <3>3. p[j] = CodePointAt(d, x)
      BY <1>4, <2>1, <3>1, <3>2
    <3>4. D(x) + 1 <= k
      BY <1>1, <3>1, <3>2, CountOfBoundary DEF D
    <3>5. j \in 1 .. k
      BY <1>7, <2>1, <3>2, <3>4
    <3> QED BY <1>10, <2>3, <3>2, <3>3, <3>5
  <2>5. CASE x = u
    <3>1. E(u) = k
      BY <1>1, <1>3 DEF D
    <3> QED BY <1>1, <1>10, <2>1, <2>2, <2>3, <2>5, <3>1
  <2>6. CASE x > u
    <3>1. x >= u + n
      <4>1. n = 2 => x # u + 1
        BY <1>2, <2>2
      <4> QED BY <1>1, <2>2, <2>6, <4>1
    <3> DEFINE y == x - n
    <3>2. y \in u .. Len(d) - 1 /\ y \in u .. Len(d) /\ y + n = x
          /\ y \in 0 .. Len(d) - 1
      BY <1>1, <2>2, <3>1
    <3> HIDE DEF y
    <3>3. /\ D(y) + 1 = j - 1 /\ IsBoundary(d, y)
          /\ CodePointAt(e, x) = CodePointAt(d, y)
      BY <1>1, <1>2, <1>3, <2>2, <3>2
    <3>4. p[j - 1] = CodePointAt(d, y)
      BY <1>4, <3>2, <3>3
    <3>5. k <= D(y)
      <4>1. 0 \in Nat /\ u \in Nat /\ y \in Nat /\ 0 <= u /\ u <= y
        BY <1>1, <3>2
      <4>2. /\ CountCodePoints(d, 0, y) = k + CountCodePoints(d, u, y)
            /\ CountCodePoints(d, u, y) \in 0 .. y - u
        BY <4>1, CountSplit, CountType
      <4> HIDE DEF k
      <4> QED BY <1>7, <4>1, <4>2 DEF D
    <3>6. j - 1 \in k + 1 .. Len(p)
      <4>1. D(y) \in Int
        <5>1. y \in Nat
          BY <1>1, <3>2
        <5> QED BY <5>1, CountUp DEF D
      <4> QED BY <1>6, <1>7, <2>1, <3>3, <3>5, <4>1
    <3> QED BY <1>10, <2>1, <2>3, <3>3, <3>4, <3>6
  <2> QED BY <1>1, <2>2, <2>4, <2>5, <2>6
<1>12. q = r
  BY <1>5, <1>6, <1>10, <1>11, SeqEqual
<1> QED BY <1>12 DEF p, q, r, Spliced

-----------------------------------------------------------------------------
(* The code point that ends at a boundary.                                 *)
PreviousIndex(s, i) == IF i >= 2 /\ StartsPair(s, i - 2) THEN i - 2 ELSE i - 1

(* It begins at a boundary, and is the last of those before the boundary.  *)
LEMMA PreviousCodePoint ==
  ASSUME NEW s \in Seq(Nat), NEW i \in 1 .. Len(s), IsBoundary(s, i)
  PROVE  LET j == PreviousIndex(s, i)
         IN  /\ j \in 0 .. i - 1 /\ IsBoundary(s, j)
             /\ CountCodePoints(s, 0, i) = CountCodePoints(s, 0, j) + 1
             /\ CountCodePoints(s, 0, i) \in 1 .. Len(CodePoints(s))
             /\ CodePointAt(s, j) = CodePoints(s)[CountCodePoints(s, 0, i)]
<1> DEFINE j == PreviousIndex(s, i)
           Count(x) == CountCodePoints(s, 0, x)
<1>1. Len(s) \in Nat /\ i \in Nat /\ i >= 1 /\ \A x \in 1 .. Len(s) : s[x] \in Nat
  OBVIOUS
<1>2. \A k \in Nat : /\ Count(k) \in Int
                     /\ Count(k + 1) = Count(k) + IF IsBoundary(s, k) THEN 1 ELSE 0
  BY CountUp, Zenon
<1>3. j \in 0 .. i - 1 /\ IsBoundary(s, j) /\ Count(i) = Count(j) + 1
  <2>1. CASE i >= 2 /\ StartsPair(s, i - 2)
    <3>1. j = i - 2 /\ j \in Nat /\ i = (j + 1) + 1 /\ j + 1 \in Nat
      BY <1>1, <2>1 DEF PreviousIndex
    <3>2. ~IsBoundary(s, j + 1)
      <4>1. (j + 1) - 1 = i - 2 /\ j + 1 > 0
        BY <3>1
      <4> QED BY <2>1, <4>1 DEF IsBoundary
    <3>3. IsBoundary(s, j)
      <4>1. IsLead(s[j + 1]) /\ s[j + 1] \in Nat /\ j + 1 = (j - 1) + 2
        BY <1>1, <2>1, <3>1 DEF StartsPair
      <4>2. ~IsTrail(s[(j - 1) + 2])
        BY <4>1, SurrogateLayout DEF IsLead, IsTrail
      <4> QED BY <4>2 DEF IsBoundary, StartsPair
    <3>4. Count(j + 1) = Count(j) + 1 /\ Count((j + 1) + 1) = Count(j + 1)
      <4>1. Count(j + 1) \in Int
        BY <1>2, <3>1
      <4> HIDE DEF Count, j
      <4> QED BY <1>2, <3>1, <3>2, <3>3, <4>1
    <3>5. j \in 0 .. i - 1
      BY <1>1, <3>1
    <3> HIDE DEF j
    <3> QED BY <3>1, <3>3, <3>4, <3>5
  <2>2. CASE ~(i >= 2 /\ StartsPair(s, i - 2))
    <3>1. j = i - 1 /\ j \in Nat /\ i = j + 1 /\ j \in 0 .. i - 1
      BY <1>1, <2>2 DEF PreviousIndex
    <3>2. IsBoundary(s, j)
      <4>1. j > 0 => i >= 2 /\ j - 1 = i - 2
        BY <1>1, <3>1
      <4> QED BY <2>2, <4>1 DEF IsBoundary
    <3>3. Count(j + 1) = Count(j) + 1
      BY <1>2, <3>1, <3>2
    <3> QED BY <3>1, <3>2, <3>3
  <2> QED BY <2>1, <2>2
<1>4. CodePointAt(s, j) = CodePoints(s)[Count(j) + 1]
  <2>1. j \in 0 .. Len(s) - 1
    BY <1>1, <1>3
  <2> QED BY <1>3, <2>1, CodePointsAtBoundaries
<1>5. Count(i) \in 1 .. Len(CodePoints(s))
  <2>1. Len(CodePoints(s)) = Count(Len(s))
    BY CodePointsAtBoundaries
  <2>2. /\ Count(j) \in 0 .. j - 0 /\ CountCodePoints(s, i, Len(s)) \in 0 .. Len(s) - i
        /\ Count(Len(s)) = Count(i) + CountCodePoints(s, i, Len(s))
    <3>1. 0 \in Nat /\ j \in Nat /\ 0 <= j /\ 0 <= i /\ i <= Len(s)
      BY <1>1, <1>3
    <3> QED BY <1>1, <3>1, CountType, CountSplit
  <2> HIDE DEF Count, j
  <2> QED BY <1>1, <1>3, <2>1, <2>2
<1> QED BY <1>3, <1>4, <1>5

-----------------------------------------------------------------------------
(* The string e is a followed by b, and no pair spans the two.             *)
Joined(e, a, b) ==
  /\ e \in Seq(Nat) /\ a \in Seq(Nat) /\ b \in Seq(Nat)
  /\ Len(e) = Len(a) + Len(b)
  /\ \A x \in 1 .. Len(a) : e[x] = a[x]
  /\ \A x \in 1 .. Len(b) : e[Len(a) + x] = b[x]
  /\ \A x \in 0 .. Len(a) - 1 : /\ StartsPair(e, x) <=> StartsPair(a, x)
                                /\ CodePointAt(e, x) = CodePointAt(a, x)
  /\ \A x \in 0 .. Len(b) : StartsPair(e, Len(a) + x) <=> StartsPair(b, x)
  /\ \A x \in 0 .. Len(b) - 1 : CodePointAt(e, Len(a) + x) = CodePointAt(b, x)

(* It is that if there is a boundary between the two.                      *)
LEMMA ConcatIsJoined ==
  ASSUME NEW a \in Seq(Nat), NEW b \in Seq(Nat), NEW e, e = a \o b,
         IsBoundary(e, Len(a))
  PROVE  Joined(e, a, b)
<1> DEFINE m == Len(a)
           n == Len(b)
<1>1. m \in Nat /\ n \in Nat
  OBVIOUS
<1>2. /\ e \in Seq(Nat) /\ Len(e) = m + n
      /\ \A x \in 1 .. m : e[x] = a[x]
      /\ \A x \in 1 .. n : e[m + x] = b[x]
  <2>1. \A s, t \in Seq(Nat) :
          /\ s \o t \in Seq(Nat) /\ Len(s \o t) = Len(s) + Len(t)
          /\ \A i \in 1 .. Len(s) : (s \o t)[i] = s[i]
          /\ \A i \in 1 .. Len(t) : (s \o t)[Len(s) + i] = t[i]
    BY ConcatUnits
  <2> QED BY <2>1, Zenon
<1>3. IsBoundary(e, m)
  OBVIOUS
<1> HIDE DEF m, n
<1>4. ASSUME NEW x \in 0 .. m - 1
      PROVE  /\ StartsPair(e, x) <=> StartsPair(a, x)
             /\ CodePointAt(e, x) = CodePointAt(a, x)
  <2>1. x \in Nat /\ x + 1 \in 1 .. m /\ e[x + 1] = a[x + 1]
    BY <1>1, <1>2
  <2>2. CASE x = m - 1
    <3>1. ~StartsPair(e, x)
      BY <1>1, <1>3, <2>1, <2>2 DEF IsBoundary
    <3>2. ~StartsPair(a, x)
      BY <1>1, <2>2 DEF StartsPair, m
    <3> QED BY <2>1, <3>1, <3>2 DEF CodePointAt
  <2>3. CASE x # m - 1
    <3>1. x + 2 \in 1 .. m /\ x + 2 <= m /\ x + 2 <= m + n
      BY <1>1, <2>1, <2>3
    <3>2. e[x + 2] = a[x + 2]
      BY <1>2, <3>1
    <3>3. StartsPair(e, x) <=> StartsPair(a, x)
      BY <1>2, <2>1, <3>1, <3>2 DEF StartsPair, m
    <3> QED BY <2>1, <3>2, <3>3 DEF CodePointAt
  <2> QED BY <2>2, <2>3
<1>5. ASSUME NEW x \in 0 .. n
      PROVE  /\ StartsPair(e, m + x) <=> StartsPair(b, x)
             /\ x < n => CodePointAt(e, m + x) = CodePointAt(b, x)
  <2>1. x \in Nat /\ (m + x) + 1 = m + (x + 1) /\ (m + x) + 2 = m + (x + 2)
    BY <1>1
  <2>2. x < n => e[(m + x) + 1] = b[x + 1]
    <3>1. x < n => x + 1 \in 1 .. n
      BY <1>1
    <3> QED BY <1>2, <2>1, <3>1
  <2>3. CASE x + 2 <= n
    <3>1. x + 2 \in 1 .. n /\ x < n /\ (m + x) + 2 <= Len(e)
      BY <1>1, <1>2, <2>1, <2>3
    <3>2. e[(m + x) + 2] = b[x + 2]
      BY <1>2, <2>1, <3>1
    <3>3. StartsPair(e, m + x) <=> StartsPair(b, x)
      BY <2>2, <2>3, <3>1, <3>2 DEF StartsPair, n
    <3> QED BY <2>2, <3>2, <3>3 DEF CodePointAt
  <2>4. CASE ~(x + 2 <= n)
    <3>1. ~StartsPair(e, m + x) /\ ~StartsPair(b, x)
      BY <1>1, <1>2, <2>1, <2>4 DEF StartsPair, n
    <3> QED BY <2>2, <3>1 DEF CodePointAt
  <2> QED BY <2>3, <2>4
<1>6. \A x \in 0 .. n - 1 : CodePointAt(e, m + x) = CodePointAt(b, x)
  BY <1>1, <1>5
<1> QED BY <1>2, <1>4, <1>5, <1>6 DEF Joined, m, n

(* Its boundaries are those of the two.                                    *)
LEMMA JoinedBoundaries ==
  ASSUME NEW e, NEW a, NEW b, Joined(e, a, b)
  PROVE  /\ \A x \in 0 .. Len(a) : IsBoundary(e, x) <=> IsBoundary(a, x)
         /\ \A x \in 0 .. Len(b) : IsBoundary(e, Len(a) + x) <=> IsBoundary(b, x)
<1> DEFINE m == Len(a)
           n == Len(b)
<1>1. /\ m \in Nat /\ n \in Nat /\ a \in Seq(Nat) /\ b \in Seq(Nat)
      /\ \A x \in 0 .. m - 1 : StartsPair(e, x) <=> StartsPair(a, x)
      /\ \A x \in 0 .. n : StartsPair(e, m + x) <=> StartsPair(b, x)
  BY DEF Joined
<1>2. ~StartsPair(a, m - 1)
  BY <1>1 DEF StartsPair
<1> HIDE DEF m, n
<1>3. ASSUME NEW x \in 0 .. m PROVE IsBoundary(e, x) <=> IsBoundary(a, x)
  <2>1. x > 0 => x - 1 \in 0 .. m - 1
    BY <1>1
  <2> QED BY <1>1, <2>1 DEF IsBoundary
<1>4. ASSUME NEW x \in 0 .. n PROVE IsBoundary(e, m + x) <=> IsBoundary(b, x)
  <2>1. CASE x = 0
    <3>1. m > 0 => m - 1 \in 0 .. m - 1
      BY <1>1
    <3> QED BY <1>1, <1>2, <2>1, <3>1 DEF IsBoundary
  <2>2. CASE x # 0
    <3>1. x - 1 \in 0 .. n /\ (m + x) - 1 = m + (x - 1) /\ m + x > 0 /\ x > 0
      BY <1>1, <2>2
    <3> QED BY <1>1, <3>1 DEF IsBoundary
  <2> QED BY <2>1, <2>2
<1> QED BY <1>3, <1>4 DEF m, n

(* The counts of the second start from that of the first.                  *)
LEMMA JoinedCounts ==
  ASSUME NEW e, NEW a, NEW b, Joined(e, a, b)
  PROVE  /\ \A y \in 0 .. Len(a) : CountCodePoints(e, 0, y) = CountCodePoints(a, 0, y)
         /\ \A y \in 0 .. Len(b) : CountCodePoints(e, 0, Len(a) + y) =
              CountCodePoints(a, 0, Len(a)) + CountCodePoints(b, 0, y)
<1> DEFINE m == Len(a)
           n == Len(b)
           A(y) == CountCodePoints(a, 0, y)
           B(y) == CountCodePoints(b, 0, y)
           E(y) == CountCodePoints(e, 0, y)
<1>1. /\ \A x \in 0 .. m : IsBoundary(e, x) <=> IsBoundary(a, x)
      /\ \A x \in 0 .. n : IsBoundary(e, m + x) <=> IsBoundary(b, x)
      /\ m \in Nat /\ n \in Nat
  <2>1. /\ \A x \in 0 .. Len(a) : IsBoundary(e, x) <=> IsBoundary(a, x)
        /\ \A x \in 0 .. Len(b) : IsBoundary(e, Len(a) + x) <=> IsBoundary(b, x)
    BY JoinedBoundaries
  <2>2. a \in Seq(Nat) /\ b \in Seq(Nat)
    BY DEF Joined
  <2>3. Len(a) \in Nat /\ Len(b) \in Nat
    BY <2>2
  <2> QED BY <2>1, <2>3
<1>2. \A k \in Nat :
        /\ B(k) \in Int /\ E(k) \in Int /\ A(k) \in Int
        /\ B(k + 1) = B(k) + IF IsBoundary(b, k) THEN 1 ELSE 0
        /\ E(k + 1) = E(k) + IF IsBoundary(e, k) THEN 1 ELSE 0
  <2>1. \A k \in Nat :
          /\ CountCodePoints(a, 0, k) \in Int
          /\ CountCodePoints(b, 0, k) \in Int
          /\ CountCodePoints(b, 0, k + 1) =
               CountCodePoints(b, 0, k) + IF IsBoundary(b, k) THEN 1 ELSE 0
    BY CountUp, Zenon
  <2>2. \A k \in Nat :
          /\ CountCodePoints(e, 0, k) \in Int
          /\ CountCodePoints(e, 0, k + 1) =
               CountCodePoints(e, 0, k) + IF IsBoundary(e, k) THEN 1 ELSE 0
    BY CountUp, Zenon
  <2> QED BY <2>1, <2>2, Zenon
<1>3. B(0) = 0
  BY CountStep
<1> HIDE DEF m, n
<1>4. ASSUME NEW y \in 0 .. m PROVE E(y) = A(y)
  <2>1. {x \in 0 .. y - 1 : IsBoundary(e, x)} =
        {x \in 0 .. y - 1 : IsBoundary(a, x)}
    BY <1>1
  <2> QED BY <2>1 DEF CountCodePoints
<1> HIDE DEF A, B, E
<1> DEFINE wrong == {y \in Nat : y \in 0 .. n /\ E(m + y) # A(m) + B(y)}
<1>5. wrong = {}
  <2> SUFFICES ASSUME wrong # {} PROVE FALSE
    OBVIOUS
  <2>1. \E k \in wrong : \A y \in wrong : k <= y
    <3>1. wrong \in SUBSET Nat
      OBVIOUS
    <3> HIDE DEF wrong
    <3> QED BY <3>1, NatHasLeast
  <2>2. PICK k \in wrong : \A y \in wrong : k <= y
    BY <2>1
  <2>3. k \in 0 .. n /\ E(m + k) # A(m) + B(k) /\ k \in Nat
    BY <2>2
  <2>4. k # 0
    <3>1. E(m) = A(m) /\ m + 0 = m /\ A(m) \in Int
      BY <1>1, <1>2, <1>4
    <3> QED BY <1>3, <2>3, <3>1
  <2>5. k - 1 \in 0 .. n /\ k - 1 \in Nat /\ ~(k <= k - 1)
    BY <1>1, <2>3, <2>4
  <2>6. k - 1 \notin wrong
    <3> HIDE DEF wrong
    <3> QED BY <2>2, <2>5
  <2>7. E(m + (k - 1)) = A(m) + B(k - 1)
    BY <2>5, <2>6
  <2>8. /\ B((k - 1) + 1) = B(k - 1) + IF IsBoundary(b, k - 1) THEN 1 ELSE 0
        /\ E((m + (k - 1)) + 1) =
             E(m + (k - 1)) + IF IsBoundary(e, m + (k - 1)) THEN 1 ELSE 0
        /\ B(k - 1) \in Int /\ A(m) \in Int
    <3>1. m + (k - 1) \in Nat
      BY <1>1, <2>5
    <3> QED BY <1>1, <1>2, <2>5, <3>1
  <2>9. IsBoundary(e, m + (k - 1)) <=> IsBoundary(b, k - 1)
    BY <1>1, <2>5
  <2>10. (k - 1) + 1 = k /\ (m + (k - 1)) + 1 = m + k
    BY <1>1, <2>3
  <2> QED BY <2>3, <2>7, <2>8, <2>9, <2>10
<1>6. ASSUME NEW y \in 0 .. n PROVE E(m + y) = A(m) + B(y)
  <2>1. y \in Nat
    BY <1>1
  <2> QED BY <1>5, <2>1
<1> QED BY <1>4, <1>6 DEF A, B, E, m, n

(* And the code points are those of the one and of the other.              *)
LEMMA JoinedCodePoints ==
  ASSUME NEW e, NEW a, NEW b, Joined(e, a, b)
  PROVE  CodePoints(e) = CodePoints(a) \o CodePoints(b)
<1> DEFINE p == CodePoints(a)
           q == CodePoints(b)
           r == CodePoints(e)
           m == Len(a)
           n == Len(b)
           A(y) == CountCodePoints(a, 0, y)
           B(y) == CountCodePoints(b, 0, y)
           E(y) == CountCodePoints(e, 0, y)
<1>1. /\ e \in Seq(Nat) /\ a \in Seq(Nat) /\ b \in Seq(Nat)
      /\ Len(e) = m + n /\ m \in Nat /\ n \in Nat
      /\ \A x \in 0 .. m - 1 : CodePointAt(e, x) = CodePointAt(a, x)
      /\ \A x \in 0 .. n - 1 : CodePointAt(e, m + x) = CodePointAt(b, x)
  BY DEF Joined
<1>2. /\ \A x \in 0 .. m : IsBoundary(e, x) <=> IsBoundary(a, x)
      /\ \A x \in 0 .. n : IsBoundary(e, m + x) <=> IsBoundary(b, x)
  BY JoinedBoundaries
<1>3. /\ \A y \in 0 .. m : E(y) = A(y)
      /\ \A y \in 0 .. n : E(m + y) = A(m) + B(y)
  BY JoinedCounts
<1>4. /\ p \in Seq(Int) /\ Len(p) = A(m)
      /\ \A x \in 0 .. m - 1 : IsBoundary(a, x) => p[A(x) + 1] = CodePointAt(a, x)
  BY <1>1, CodePointsAtBoundaries
<1>5. /\ q \in Seq(Int) /\ Len(q) = B(n)
      /\ \A x \in 0 .. n - 1 : IsBoundary(b, x) => q[B(x) + 1] = CodePointAt(b, x)
  BY <1>1, CodePointsAtBoundaries
<1>6. /\ r \in Seq(Int) /\ Len(r) = E(Len(e))
      /\ \A x \in 0 .. Len(e) - 1 :
           IsBoundary(e, x) => r[E(x) + 1] = CodePointAt(e, x)
  BY <1>1, CodePointsAtBoundaries
<1>7. \A j \in 0 .. Len(r) - 1 : \E x \in 0 .. Len(e) - 1 :
        IsBoundary(e, x) /\ E(x) = j
  BY <1>1, <1>6, EveryCodePointHasBoundary
<1>8. /\ p \o q \in Seq(Int) /\ Len(p \o q) = Len(p) + Len(q)
      /\ \A j \in 1 .. Len(p) : (p \o q)[j] = p[j]
      /\ \A j \in 1 .. Len(q) : (p \o q)[Len(p) + j] = q[j]
  <2>1. \A s, t \in Seq(Int) :
          /\ s \o t \in Seq(Int) /\ Len(s \o t) = Len(s) + Len(t)
          /\ \A i \in 1 .. Len(s) : (s \o t)[i] = s[i]
          /\ \A i \in 1 .. Len(t) : (s \o t)[Len(s) + i] = t[i]
    BY ConcatUnits
  <2> QED BY <1>4, <1>5, <2>1, Zenon
<1> DEFINE c == p \o q
<1>9. /\ c \in Seq(Int) /\ Len(c) = Len(p) + Len(q)
      /\ \A j \in 1 .. Len(p) : c[j] = p[j]
      /\ \A j \in 1 .. Len(q) : c[Len(p) + j] = q[j]
      /\ Len(p) \in Nat /\ Len(q) \in Nat
  BY <1>4, <1>5, <1>8, SMTT(30)
<1>10. Len(r) = Len(p) + Len(q)
  <2>1. n \in 0 .. n
    BY <1>1
  <2> QED BY <1>1, <1>3, <1>4, <1>5, <1>6, <2>1
<1> HIDE DEF p, q, r, c
<1>11. ASSUME NEW j \in 1 .. Len(r) PROVE r[j] = c[j]
  <2>1. j - 1 \in 0 .. Len(r) - 1 /\ (j - 1) + 1 = j /\ j \in Int
    BY <1>9, <1>10
  <2>2. PICK x \in 0 .. Len(e) - 1 : IsBoundary(e, x) /\ E(x) = j - 1
    BY <1>7, <2>1
  <2>3. r[j] = CodePointAt(e, x)
    BY <1>6, <2>1, <2>2
  <2> HIDE DEF m, n
  <2>4. CASE x < m
    <3>1. x \in 0 .. m - 1 /\ x \in 0 .. m /\ x \in Nat
      BY <1>1, <2>2, <2>4
    <3>2. A(x) = j - 1 /\ IsBoundary(a, x) /\ CodePointAt(e, x) = CodePointAt(a, x)
      BY <1>1, <1>2, <1>3, <2>2, <3>1
    <3>3. p[j] = CodePointAt(a, x)
      BY <1>4, <2>1, <3>1, <3>2
    <3>4. A(x) + 1 <= A(m)
      BY <1>1, <2>4, <3>1, <3>2, CountOfBoundary
    <3>5. j \in 1 .. Len(p)
      <4> HIDE DEF A, B, E
      <4> QED BY <1>4, <1>9, <2>1, <3>2, <3>4
    <3> QED BY <1>9, <2>3, <3>2, <3>3, <3>5
  <2>5. CASE ~(x < m)
    <3> DEFINE y == x - m
    <3>1. y \in 0 .. n - 1 /\ y \in 0 .. n /\ m + y = x /\ y \in Nat /\ y < n
      BY <1>1, <2>2, <2>5
    <3> HIDE DEF y
    <3>2. /\ A(m) + B(y) = j - 1 /\ IsBoundary(b, y)
          /\ CodePointAt(e, x) = CodePointAt(b, y)
      BY <1>1, <1>2, <1>3, <2>2, <3>1
    <3>3. q[B(y) + 1] = CodePointAt(b, y)
      BY <1>5, <3>1, <3>2
    <3>4. B(y) + 1 <= B(n)
      BY <1>1, <3>1, <3>2, CountOfBoundary
    <3>5. B(y) \in 0 .. y - 0
      BY <3>1, CountType
    <3>6. B(y) \in Nat
      BY <1>1, <3>1, <3>5
    <3> HIDE DEF A, B, E
    <3>7. Len(p) = A(m) /\ Len(q) = B(n) /\ Len(p) \in Nat /\ Len(q) \in Nat
      BY <1>4, <1>5, <1>9
    <3>8. B(y) + 1 \in 1 .. Len(q)
      BY <3>4, <3>6, <3>7
    <3>9. Len(p) + (B(y) + 1) = j
      BY <2>1, <3>2, <3>6, <3>7
    <3> QED BY <1>9, <2>3, <3>2, <3>3, <3>8, <3>9
  <2> QED BY <2>4, <2>5
<1>12. r = c
  BY <1>6, <1>9, <1>10, <1>11, SeqEqual
<1> QED BY <1>12 DEF p, q, r, c

-----------------------------------------------------------------------------
(* A string is well-formed if and only if both of its parts are.           *)
LEMMA JoinedWellFormed ==
  ASSUME NEW e, NEW a, NEW b, Joined(e, a, b)
  PROVE  IsWellFormed(e) <=> IsWellFormed(a) /\ IsWellFormed(b)
<1> DEFINE m == Len(a)
           n == Len(b)
<1>1. /\ m \in Nat /\ n \in Nat /\ Len(e) = m + n
      /\ \A x \in 1 .. m : e[x] = a[x]
      /\ \A x \in 1 .. n : e[m + x] = b[x]
      /\ \A x \in 0 .. m - 1 : StartsPair(e, x) <=> StartsPair(a, x)
      /\ \A x \in 0 .. n : StartsPair(e, m + x) <=> StartsPair(b, x)
  BY DEF Joined
<1>2. ~StartsPair(a, m - 1)
  BY <1>1 DEF StartsPair
<1> HIDE DEF m, n
<1> DEFINE Paired(s, x) == StartsPair(s, x) \/ (x > 0 /\ StartsPair(s, x - 1))
<1>3. ASSUME NEW x \in 0 .. m - 1
      PROVE  e[x + 1] = a[x + 1] /\ (Paired(e, x) <=> Paired(a, x))
  <2>1. x + 1 \in 1 .. m /\ (x > 0 => x - 1 \in 0 .. m - 1)
    BY <1>1
  <2> QED BY <1>1, <2>1
<1>4. ASSUME NEW x \in 0 .. n - 1
      PROVE  e[(m + x) + 1] = b[x + 1] /\ (Paired(e, m + x) <=> Paired(b, x))
  <2>1. /\ x + 1 \in 1 .. n /\ (m + x) + 1 = m + (x + 1) /\ x \in 0 .. n
        /\ x > 0 => x - 1 \in 0 .. n /\ (m + x) - 1 = m + (x - 1) /\ m + x > 0
        /\ x = 0 /\ m > 0 => m - 1 \in 0 .. m - 1
        /\ x = 0 => m + x = m
    BY <1>1
  <2>2. CASE x > 0
    BY <1>1, <2>1, <2>2
  <2>3. CASE x = 0
    BY <1>1, <1>2, <2>1, <2>3
  <2> QED BY <1>1, <2>2, <2>3
<1> HIDE DEF Paired
<1>5. \A s : IsWellFormed(s) <=>
        \A x \in 0 .. Len(s) - 1 : IsSurrogate(s[x + 1]) => Paired(s, x)
  BY Zenon DEF IsWellFormed, Paired
<1>6. ASSUME IsWellFormed(e) PROVE IsWellFormed(a) /\ IsWellFormed(b)
  <2>1. \A x \in 0 .. m - 1 : IsSurrogate(a[x + 1]) => Paired(a, x)
    <3>1. \A x \in 0 .. m - 1 : x \in 0 .. Len(e) - 1
      BY <1>1
    <3> QED BY <1>3, <1>5, <1>6, <3>1
  <2>2. \A x \in 0 .. n - 1 : IsSurrogate(b[x + 1]) => Paired(b, x)
    <3>1. \A x \in 0 .. n - 1 : m + x \in 0 .. Len(e) - 1
      BY <1>1
    <3> QED BY <1>4, <1>5, <1>6, <3>1
  <2> QED BY <1>5, <2>1, <2>2 DEF m, n
<1>7. ASSUME IsWellFormed(a), IsWellFormed(b) PROVE IsWellFormed(e)
  <2> SUFFICES ASSUME NEW x \in 0 .. Len(e) - 1, IsSurrogate(e[x + 1])
               PROVE  Paired(e, x)
    BY <1>5
  <2>1. CASE x < m
    <3>1. x \in 0 .. m - 1
      BY <1>1, <2>1
    <3>2. IsSurrogate(a[x + 1])
      BY <1>3, <3>1
    <3> QED BY <1>3, <1>5, <1>7, <3>1, <3>2 DEF m
  <2>2. CASE ~(x < m)
    <3>1. x - m \in 0 .. n - 1 /\ m + (x - m) = x
      BY <1>1, <2>2
    <3>2. IsSurrogate(b[(x - m) + 1])
      BY <1>4, <3>1
    <3>3. Paired(b, x - m)
      BY <1>5, <1>7, <3>1, <3>2 DEF n
    <3> QED BY <1>4, <3>1, <3>3
  <2> QED BY <2>1, <2>2
<1> QED BY <1>6, <1>7

(* Well-formed strings can be put one behind the other.                    *)
LEMMA WellFormedConcat ==
  ASSUME NEW a \in Seq(Nat), NEW b \in Seq(Nat), NEW e, e = a \o b,
         IsWellFormed(a)
  PROVE  Joined(e, a, b)
<1>1. IsBoundary(e, Len(a))
  <2> SUFFICES ASSUME Len(a) > 0, StartsPair(e, Len(a) - 1) PROVE FALSE
    BY DEF IsBoundary
  <2>1. Len(a) \in Nat /\ \A x \in 1 .. Len(a) : a[x] \in Nat
    OBVIOUS
  <2> DEFINE m == Len(a)
  <2>2. m \in Nat /\ m > 0 /\ a[m] \in Nat /\ e[m] = a[m]
    BY <2>1
  <2>3. IsLead(a[m])
    <3>1. (m - 1) + 1 = m
      BY <2>2
    <3> HIDE DEF m
    <3> QED BY <2>2, <3>1 DEF StartsPair, m
  <2>4. IsSurrogate(a[m]) /\ ~IsTrail(a[m])
    BY <2>2, <2>3, SurrogateLayout DEF IsLead, IsTrail, IsSurrogate
  <2>5. ~StartsPair(a, m - 1)
    BY <2>2 DEF StartsPair
  <2>6. ~StartsPair(a, (m - 1) - 1)
    <3>1. ((m - 1) - 1) + 2 = m
      BY <2>2
    <3> HIDE DEF m
    <3> QED BY <2>4, <3>1 DEF StartsPair
  <2>7. m - 1 \in 0 .. Len(a) - 1 /\ (m - 1) + 1 = m
    BY <2>2
  <2> HIDE DEF m
  <2> QED BY <2>4, <2>5, <2>6, <2>7 DEF IsWellFormed
<1> QED BY <1>1, ConcatIsJoined

-----------------------------------------------------------------------------
(* The code points of UTF-16 are code points.                              *)
LEMMA CodePointsType ==
  ASSUME NEW s \in Seq(0 .. FirstSupplementary - 1)
  PROVE  CodePoints(s) \in Seq(0 .. MaxCodePoint)
<1>1. s \in Seq(Nat) /\ Len(s) \in Nat
  BY SurrogateLayout
<1>2. /\ CodePoints(s) \in Seq(Int)
      /\ Len(CodePoints(s)) = CountCodePoints(s, 0, Len(s))
      /\ \A x \in 0 .. Len(s) - 1 :
           IsBoundary(s, x) =>
             CodePoints(s)[CountCodePoints(s, 0, x) + 1] = CodePointAt(s, x)
  BY <1>1, CodePointsAtBoundaries
<1> DEFINE c == CodePoints(s)
<1> HIDE DEF c
<1>3. ASSUME NEW k \in 1 .. Len(c) PROVE c[k] \in 0 .. MaxCodePoint
  <2>1. k - 1 \in 0 .. CountCodePoints(s, 0, Len(s)) - 1 /\ (k - 1) + 1 = k
    BY <1>2 DEF c
  <2>2. PICK x \in 0 .. Len(s) - 1 :
          IsBoundary(s, x) /\ CountCodePoints(s, 0, x) = k - 1
    BY <1>1, <2>1, EveryCodePointHasBoundary
  <2>3. c[k] = CodePointAt(s, x)
    BY <1>2, <2>1, <2>2 DEF c
  <2> QED BY <2>3, CodePointAtRange
<1>4. c \in Seq(Int)
  BY <1>2 DEF c
<1>5. c \in Seq(0 .. MaxCodePoint)
  <2> DEFINE S == 0 .. MaxCodePoint
             m == Len(c)
  <2> HIDE DEF S
  <2>1. m \in Nat /\ c = [x \in 1 .. m |-> c[x]]
    BY <1>4
  <2>2. [x \in 1 .. m |-> c[x]] \in [1 .. m -> S]
    BY <1>3 DEF S
  <2> HIDE DEF m
  <2>3. c \in [1 .. m -> S]
    BY <2>1, <2>2, Zenon
  <2>4. c \in Seq(S)
    BY <2>1, <2>3, SeqDef, Zenon
  <2> QED BY <2>4 DEF S
<1> QED BY <1>5 DEF c

(* Two surrogate pairs of the same code point are the same.                *)
LEMMA PairOfCodePoint ==
  ASSUME NEW a \in Nat, NEW b \in Nat, IsLead(a), IsTrail(b),
         NEW c \in Nat, NEW d \in Nat, IsLead(c), IsTrail(d),
         U16_GET_SUPPLEMENTARY(a, b) = U16_GET_SUPPLEMENTARY(c, d)
  PROVE  a = c /\ b = d
<1> DEFINE x == a - FirstLead
           y == c - FirstLead
           p == b - FirstTrail
           q == d - FirstTrail
<1>1. /\ x \in Nat /\ y \in Nat /\ TrailCount \in Nat
      /\ p \in 0 .. TrailCount - 1 /\ q \in 0 .. TrailCount - 1
      /\ x * TrailCount + p = y * TrailCount + q
  BY SurrogateLayout DEF IsLead, IsTrail, U16_GET_SUPPLEMENTARY
<1>2. x = y /\ p = q
  <2> HIDE DEF x, y, p, q
  <2>1. \A m, z \in Nat : m < z => m * TrailCount + TrailCount <= z * TrailCount
    <3> SUFFICES ASSUME NEW m \in Nat, NEW z \in Nat, m < z
                 PROVE  m * TrailCount + TrailCount <= z * TrailCount
      OBVIOUS
    <3>1. m + 1 <= z
      OBVIOUS
    <3>2. (m + 1) * TrailCount <= z * TrailCount
      BY <1>1, <3>1
    <3>3. (m + 1) * TrailCount = m * TrailCount + TrailCount
      BY <1>1
    <3> QED BY <3>2, <3>3
  <2>2. x * TrailCount \in Nat /\ y * TrailCount \in Nat
    BY <1>1
  <2> DEFINE e == x * TrailCount
             f == y * TrailCount
  <2>3. /\ e \in Nat /\ f \in Nat /\ e + p = f + q
        /\ x < y => e + TrailCount <= f
        /\ y < x => f + TrailCount <= e
    BY <1>1, <2>1, <2>2
  <2>4. x = y
    <3> HIDE DEF e, f
    <3> QED BY <1>1, <2>3
  <2> QED BY <1>1, <2>3, <2>4
<1> QED BY <1>2, SurrogateLayout

(* Two strings that go on with the same code point at an index go on with  *)
(* the same units.                                                         *)
LEMMA SameNextUnits ==
  ASSUME NEW s \in Seq(0 .. FirstSupplementary - 1),
         NEW t \in Seq(0 .. FirstSupplementary - 1),
         NEW j \in 0 .. Len(s) - 1, j < Len(t),
         CodePointAt(s, j) = CodePointAt(t, j)
  PROVE  /\ StartsPair(s, j) <=> StartsPair(t, j)
         /\ s[j + 1] = t[j + 1]
         /\ StartsPair(s, j) => s[j + 2] = t[j + 2]
<1>1. /\ j \in Nat /\ FirstSupplementary \in Nat
      /\ s[j + 1] \in 0 .. FirstSupplementary - 1
      /\ t[j + 1] \in 0 .. FirstSupplementary - 1
  BY SurrogateLayout
<1>2. StartsPair(s, j) => s[j + 2] \in Nat
  BY <1>1, SMTT(30) DEF StartsPair
<1>3. StartsPair(t, j) => t[j + 2] \in Nat
  BY <1>1, SMTT(30) DEF StartsPair
<1>4. StartsPair(s, j) => CodePointAt(s, j) \in FirstSupplementary .. MaxCodePoint
  BY <1>1, <1>2, PairIsSupplementary, SMTT(30) DEF StartsPair, CodePointAt
<1>5. StartsPair(t, j) => CodePointAt(t, j) \in FirstSupplementary .. MaxCodePoint
  BY <1>1, <1>3, PairIsSupplementary, SMTT(30) DEF StartsPair, CodePointAt
<1>6. StartsPair(s, j) <=> StartsPair(t, j)
  BY <1>1, <1>4, <1>5 DEF CodePointAt
<1>7. CASE StartsPair(s, j)
  <2>1. /\ s[j + 1] \in Nat /\ s[j + 2] \in Nat /\ t[j + 1] \in Nat /\ t[j + 2] \in Nat
        /\ IsLead(s[j + 1]) /\ IsTrail(s[j + 2])
        /\ IsLead(t[j + 1]) /\ IsTrail(t[j + 2])
    BY <1>1, <1>2, <1>3, <1>6, <1>7 DEF StartsPair
  <2>2. U16_GET_SUPPLEMENTARY(s[j + 1], s[j + 2])
          = U16_GET_SUPPLEMENTARY(t[j + 1], t[j + 2])
    BY <1>6, <1>7 DEF CodePointAt
  <2>3. s[j + 1] = t[j + 1] /\ s[j + 2] = t[j + 2]
    BY <2>1, <2>2, PairOfCodePoint
  <2> QED BY <1>6, <2>3
<1>8. CASE ~StartsPair(s, j)
  BY <1>6, <1>8 DEF CodePointAt
<1> QED BY <1>6, <1>7, <1>8

(* How the code points are counted from one boundary to the next.          *)
LEMMA NextBoundaryCount ==
  ASSUME NEW s \in Seq(Nat), NEW j \in 0 .. Len(s) - 1, IsBoundary(s, j)
  PROVE  CountCodePoints(s, 0, NextIndex(s, j)) = CountCodePoints(s, 0, j) + 1
<1> DEFINE Count(x) == CountCodePoints(s, 0, x)
<1>1. \A k \in Nat : /\ Count(k) \in Int
                     /\ Count(k + 1) = Count(k) + IF IsBoundary(s, k) THEN 1 ELSE 0
  BY CountUp, Zenon
<1>2. j \in Nat /\ j + 1 \in Nat /\ (j + 1) + 1 = j + 2 /\ (j + 1) - 1 = j /\ j + 1 > 0
  OBVIOUS
<1>3. Count(j + 1) = Count(j) + 1 /\ Count(j) \in Int
  BY <1>1, <1>2
<1>4. CASE StartsPair(s, j)
  <2>1. ~IsBoundary(s, j + 1)
    BY <1>2, <1>4 DEF IsBoundary
  <2>2. Count(j + 2) = Count(j + 1)
    <3> HIDE DEF Count
    <3> QED BY <1>1, <1>2, <1>3, <2>1
  <2> QED BY <1>3, <1>4, <2>2 DEF NextIndex
<1>5. CASE ~StartsPair(s, j)
  BY <1>3, <1>5 DEF NextIndex
<1> QED BY <1>4, <1>5

(* Two strings of the same code points are the same.                       *)
LEMMA CodePointsTellStrings ==
  ASSUME NEW s \in Seq(0 .. FirstSupplementary - 1),
         NEW t \in Seq(0 .. FirstSupplementary - 1), CodePoints(s) = CodePoints(t)
  PROVE  s = t
<1> DEFINE Count(u, x) == CountCodePoints(u, 0, x)
           Right(i) == /\ i <= Len(t) /\ IsBoundary(t, i) /\ Count(t, i) = Count(s, i)
                       /\ \A x \in 1 .. i : s[x] = t[x]
           wrong == {i \in 0 .. Len(s) : IsBoundary(s, i) /\ ~Right(i)}
<1>1. s \in Seq(Nat) /\ t \in Seq(Nat) /\ Len(s) \in Nat /\ Len(t) \in Nat
  BY SurrogateLayout
<1>2. wrong = {}
  <2> SUFFICES ASSUME wrong # {} PROVE FALSE
    OBVIOUS
  <2>1. PICK i \in wrong : \A y \in wrong : i <= y
    <3>1. wrong \in SUBSET Nat
      BY <1>1
    <3> HIDE DEF wrong
    <3> QED BY <3>1, NatHasLeast
  <2>2. i \in 0 .. Len(s) /\ IsBoundary(s, i) /\ ~Right(i)
    BY <2>1
  <2>3. i # 0
    <3>1. Right(0)
      <4>1. Count(t, 0) = 0 /\ Count(s, 0) = 0
        BY CountStep
      <4> QED BY <1>1, <4>1, EndsAreBoundaries
    <3> QED BY <2>2, <3>1
  <2>4. i \in 1 .. Len(s)
    BY <1>1, <2>2, <2>3
  <2> DEFINE j == PreviousIndex(s, i)
  <2>5. /\ j \in 0 .. i - 1 /\ IsBoundary(s, j)
        /\ Count(s, i) = Count(s, j) + 1
        /\ Count(s, i) \in 1 .. Len(CodePoints(s))
        /\ CodePointAt(s, j) = CodePoints(s)[Count(s, i)]
    BY <1>1, <2>2, <2>4, PreviousCodePoint
  <2>6. i = NextIndex(s, j)
    <3>1. i > 0 /\ ~StartsPair(s, i - 1)
      BY <1>1, <2>2, <2>4 DEF IsBoundary
    <3>2. CASE i >= 2 /\ StartsPair(s, i - 2)
      BY <1>1, <2>4, <3>2 DEF PreviousIndex, NextIndex
    <3>3. CASE ~(i >= 2 /\ StartsPair(s, i - 2))
      BY <1>1, <2>4, <3>1, <3>3 DEF PreviousIndex, NextIndex
    <3> QED BY <3>2, <3>3
  <2> HIDE DEF j
  <2>7. Right(j)
    <3>1. j \in 0 .. Len(s) /\ j < i
      BY <1>1, <2>4, <2>5
    <3>2. j \notin wrong
      <4> HIDE DEF wrong
      <4> QED BY <2>1, <2>4, <3>1
    <3> HIDE DEF Right
    <3> QED BY <2>5, <3>1, <3>2
  <2>8. j \in 0 .. Len(s) - 1 /\ j \in 0 .. Len(t) - 1
    <3>1. j # Len(t)
      <4>1. Len(CodePoints(s)) = Count(t, Len(t))
        BY <1>1, CodePointsAtBoundaries
      <4>2. Count(s, j) \in Int
        BY CountUp, <2>5
      <4> QED BY <2>5, <2>7, <4>1, <4>2
    <3>2. j \in Nat /\ j < i /\ i <= Len(s) /\ i \in Nat /\ j <= Len(t)
      BY <1>1, <2>4, <2>5, <2>7
    <3>3. Len(s) \in Nat /\ Len(t) \in Nat
      BY <1>1
    <3> HIDE DEF wrong, Right
    <3> QED BY <3>1, <3>2, <3>3
  <2>9. CodePointAt(s, j) = CodePointAt(t, j)
    <3>1. CodePoints(t)[Count(t, j) + 1] = CodePointAt(t, j)
      BY <1>1, <2>7, <2>8, CodePointsAtBoundaries
    <3> QED BY <2>5, <2>7, <3>1
  <2>10. /\ StartsPair(s, j) <=> StartsPair(t, j)
         /\ s[j + 1] = t[j + 1]
         /\ StartsPair(s, j) => s[j + 2] = t[j + 2]
    <3>1. j \in 0 .. Len(s) - 1 /\ j < Len(t)
      BY <1>1, <2>8
    <3> HIDE DEF wrong, Right
    <3> QED BY <2>9, <3>1, SameNextUnits
  <2>11. i = NextIndex(t, j)
    BY <2>6, <2>10 DEF NextIndex
  <2>12. i \in j + 1 .. Len(t) /\ IsBoundary(t, i)
    BY <1>1, <2>7, <2>8, <2>11, NextIndexIsBoundary
  <2>13. Count(t, i) = Count(s, i)
    BY <1>1, <2>5, <2>7, <2>8, <2>11, NextBoundaryCount
  <2>14. \A x \in 1 .. i : s[x] = t[x]
    <3>1. CASE StartsPair(s, j)
      <4>1. i = j + 2
        BY <2>6, <3>1 DEF NextIndex
      <4>2. \A x \in 1 .. i : x \in 1 .. j \/ x = j + 1 \/ x = j + 2
        BY <2>8, <4>1
      <4> QED BY <2>7, <2>10, <3>1, <4>2
    <3>2. CASE ~StartsPair(s, j)
      <4>1. i = j + 1
        BY <2>6, <3>2 DEF NextIndex
      <4>2. \A x \in 1 .. i : x \in 1 .. j \/ x = j + 1
        BY <2>8, <4>1
      <4> QED BY <2>7, <2>10, <3>2, <4>2
    <3> QED BY <3>1, <3>2
  <2>15. i <= Len(t)
    BY <1>1, <2>8, <2>12
  <2> QED BY <2>2, <2>12, <2>13, <2>14, <2>15
<1>3. Right(Len(s))
  <2>1. Len(s) \in 0 .. Len(s) /\ IsBoundary(s, Len(s))
    BY <1>1, EndsAreBoundaries
  <2> HIDE DEF Right
  <2> QED BY <1>2, <2>1
<1>4. Len(s) = Len(t)
  <2> SUFFICES ASSUME Len(s) < Len(t) PROVE FALSE
    BY <1>1, <1>3
  <2>1. Count(t, Len(s)) + 1 <= Count(t, Len(t))
    BY <1>1, <1>3, CountOfBoundary
  <2>2. Count(t, Len(t)) = Count(s, Len(s)) /\ Count(s, Len(s)) \in Int
    BY <1>1, CodePointsAtBoundaries, CountUp
  <2> QED BY <1>3, <2>1, <2>2
<1>5. \A x \in 1 .. Len(s) : s[x] = t[x]
  BY <1>3
<1>6. s = [x \in 1 .. Len(s) |-> s[x]] /\ t = [x \in 1 .. Len(t) |-> t[x]]
  BY <1>1
<1>7. [x \in 1 .. Len(s) |-> s[x]] = [x \in 1 .. Len(t) |-> t[x]]
  BY <1>4, <1>5, Zenon
<1> HIDE DEF wrong, Right
<1> QED BY <1>6, <1>7, Zenon
=============================================================================
