---------------------------- MODULE LookupProofs ----------------------------
(***************************************************************************)
(* Lookup: no conversion between UTF-8 and UTF-16 leaves its arrays, each  *)
(* writes what the standard demands, nothing is put behind the end of the  *)
(* caller's array, and a call that reports no failure has put all of the   *)
(* result there that fits, for every call, every size of the arrays and    *)
(* every outcome of the allocations.  The lemmas on a character bound what *)
(* one round reads and writes; those on the steps of a conversion make of  *)
(* that what the counter of a block promises; those on the phases of a     *)
(* call put the pieces of the result together again.                       *)
(***************************************************************************)
EXTENDS Lookup, ErrorNames, StringSearch, UTF16Proofs

(* A unit of 16 bits, among them the bytes.                                *)
Unit == {x \in Nat : x <= 65535}

(* The surrogates of UTF-16: the limits of UTF-8's lengths are its.        *)
RealSurrogates ==
  /\ FirstLead = 55296 /\ FirstTrail = 56320
  /\ TrailCount = 1024 /\ FirstSupplementary = 65536

(* What the calls are made of.  A length goes no farther than the array,   *)
(* and what is mapped is a text again.                                     *)
LookupInputs ==
  \A c \in Calls :
    /\ c.length \in Int /\ c.capacity \in Int /\ c.error \in Int
    /\ c.src # None => c.src \in Seq(Unit) /\ c.length <= Len(c.src)
    /\ \A s \in Seq(Unit) : Mapped(s, c) \in Seq(Unit)

(* The first number of more than 16 and of more than 21 bits.              *)
Beyond16 == 65536
Beyond21 == 2097152

(* The code points end at U+10FFFF.                                        *)
LastCodePoint == 1114111

ConversionSet ==
  [dir : {"from", "to"}, src : Seq(Unit), capacity : Nat, i : Nat, dest : Seq(Unit),
   count : Int, reqLength : Nat, status : Int,
   pc : {"block", "fast", "slow", "preflight", "returned"}]

(* The counter of a block, in units or bytes of the two arrays.            *)
CounterFits(k) ==
  IF k.dir = "from" THEN k.count <= Room(k) /\ 3 * k.count <= Left(k)
                    ELSE 3 * k.count <= Room(k) /\ k.count <= Left(k)

ConversionOK(k) ==
  /\ k \in ConversionSet
  /\ k.i <= Len(k.src) /\ Len(k.dest) <= k.capacity
  /\ k.pc = "fast" => CounterFits(k)

-----------------------------------------------------------------------------
(* The lesser of two numbers.                                              *)
LEMMA MinOfTwo ==
  ASSUME NEW a \in Int, NEW b \in Int
  PROVE  Min({a, b}) = IF a <= b THEN a ELSE b
<1> DEFINE m == IF a <= b THEN a ELSE b
<1>1. m \in {a, b} /\ \A y \in {a, b} : m =< y
  OBVIOUS
<1>2. \A x \in {a, b} : (\A y \in {a, b} : x =< y) => x = m
  OBVIOUS
<1> HIDE DEF m
<1>3. Min({a, b}) = m
  BY <1>1, <1>2 DEF Min
<1> QED BY <1>3 DEF m

(* The greatest of a set of numbers with an upper bound is in it.          *)
LEMMA MaxIsElement ==
  ASSUME NEW n \in Int, NEW S \in SUBSET (0 .. n), S # {}
  PROVE  Max(S) \in S
<1>1. \E m \in S : \A y \in S : y <= m
  BY RangeHasGreatest
<1>2. \A x, y \in S : y <= x <=> x >= y
  OBVIOUS
<1> QED BY <1>1, <1>2 DEF Max

(* A part of a text is a text.                                             *)
LEMMA PartOfText ==
  ASSUME NEW s \in Seq(Unit), NEW m \in Nat, m >= 1, NEW n \in Int, n <= Len(s)
  PROVE  /\ SubSeq(s, m, n) \in Seq(Unit)
         /\ Len(SubSeq(s, m, n)) = IF n < m THEN 0 ELSE n - m + 1
<1> DEFINE U == Unit
<1>1. s \in Seq(U) /\ Len(s) \in Nat
  OBVIOUS
<1> HIDE DEF U
<1>2. CASE n < m
  BY <1>1, <1>2, SubSeqProperties, EmptySeq
<1>3. CASE n >= m
  BY <1>1, <1>3, SubSeqProperties
<1> QED BY <1>1, <1>2, <1>3 DEF U

-----------------------------------------------------------------------------
(* A sequence of bytes is no longer than its lead byte says, and does not  *)
(* reach behind the source.                                                *)
LEMMA ValidLengthFits ==
  ASSUME NEW s \in Seq(Unit), NEW i \in 0 .. Len(s) - 1
  PROVE  /\ ValidLength(s, i, Len(s)) \in 1 .. SequenceLength(ByteAt(s, i))
         /\ i + ValidLength(s, i, Len(s)) <= Len(s)
<1> DEFINE n == SequenceLength(ByteAt(s, i))
           S == {x \in 1 .. n :
                   /\ x = 1 \/ i + x <= Len(s)
                   /\ x > 1 => MayFollow(ByteAt(s, i), ByteAt(s, i + 1))
                   /\ \A k \in 2 .. x - 1 : IsTrailByte(ByteAt(s, i + k))}
<1>1. n \in 1 .. 4
  BY DEF SequenceLength
<1>2. ValidLength(s, i, Len(s)) = Max(S)
  BY DEF ValidLength
<1>3. 1 \in S
  <2>1. 2 .. 1 - 1 = {}
    OBVIOUS
  <2> QED BY <1>1, <2>1
<1>4. S \in SUBSET (0 .. n)
  BY <1>1
<1>5. Max(S) \in S
  <2> HIDE DEF S, n
  <2>1. n \in Int /\ S # {}
    BY <1>1, <1>3
  <2> QED BY <1>4, <2>1, MaxIsElement, Zenon
<1>6. Max(S) \in 1 .. n /\ (Max(S) = 1 \/ i + Max(S) <= Len(s))
  BY <1>5
<1> HIDE DEF S, n
<1>7. i + Max(S) <= Len(s)
  BY <1>1, <1>6
<1> QED BY <1>2, <1>6, <1>7 DEF n

(* A code point of 16 bits is a unit, any other one two.                   *)
LEMMA UnitsOfCodePoint ==
  ASSUME RealSurrogates, NEW c \in Nat, c < Beyond21
  PROVE  /\ CodeUnits(c) \in Seq(Unit)
         /\ Len(CodeUnits(c)) = IF c < Beyond16 THEN 1 ELSE 2
<1>1. CASE c < Beyond16
  BY <1>1, SMT DEF Beyond16, CodeUnits, U16_LENGTH, RealSurrogates, Unit
<1>2. CASE ~(c < Beyond16)
  <2>1. /\ (c - 65536) \div 1024 \in Nat /\ (c - 65536) \div 1024 <= 1983
        /\ (c - 65536) % 1024 \in 0 .. 1023
    BY <1>2, SMT DEF Beyond16, Beyond21
  <2>2. U16_LEAD(c) \in Unit /\ U16_TRAIL(c) \in Unit
    BY <2>1, SMT DEF U16_LEAD, U16_TRAIL, RealSurrogates, Unit
  <2> QED BY <1>2, <2>2, SMT DEF Beyond16, CodeUnits, U16_LENGTH, RealSurrogates
<1> QED BY <1>1, <1>2, SMT

(* Behind the end stands a number, too.                                    *)
LEMMA ByteIsUnit ==
  ASSUME NEW s \in Seq(Unit), NEW i \in Nat
  PROVE  ByteAt(s, i) \in Unit
<1>1. 0 \in Unit
  BY DEF Unit
<1>2. i < Len(s) => s[i + 1] \in Unit
  <2>1. i < Len(s) => i + 1 \in 1 .. Len(s)
    OBVIOUS
  <2> QED BY <2>1, ElementOfSeq
<1> QED BY <1>1, <1>2, SMT DEF ByteAt

(* A remainder, without an interval.                                       *)
LEMMA RemainderIsLess ==
  ASSUME NEW a \in Nat, NEW d \in Nat, d > 0
  PROVE  a % d \in Nat /\ a % d < d
OBVIOUS

(* Three bytes have 16 bits, four have 21.                                 *)
LEMMA ValueFits ==
  ASSUME NEW s \in Seq(Unit), NEW i \in Nat, NEW n \in 1 .. 4
  PROVE  /\ ValueOf(s, i, n) \in Nat /\ ValueOf(s, i, n) < Beyond21
         /\ n < 4 => ValueOf(s, i, n) < Beyond16
<1> DEFINE lead == ByteAt(s, i)
           b1 == ByteAt(s, i + 1) % 64
           b2 == ByteAt(s, i + 2) % 64
           b3 == ByteAt(s, i + 3) % 64
           v == ValueOf(s, i, n)
<1>1. /\ lead \in Nat /\ ByteAt(s, i + 1) \in Nat
      /\ ByteAt(s, i + 2) \in Nat /\ ByteAt(s, i + 3) \in Nat
  <2>1. i + 1 \in Nat /\ i + 2 \in Nat /\ i + 3 \in Nat
    OBVIOUS
  <2>2. /\ ByteAt(s, i) \in Unit /\ ByteAt(s, i + 1) \in Unit
        /\ ByteAt(s, i + 2) \in Unit /\ ByteAt(s, i + 3) \in Unit
    BY <2>1, ByteIsUnit
  <2> QED BY <2>2 DEF Unit
<1>2. b1 \in Nat /\ b1 < 64 /\ b2 \in Nat /\ b2 < 64 /\ b3 \in Nat /\ b3 < 64
  BY <1>1, RemainderIsLess
<1>3. \A d \in {8, 16, 32, 128} : lead % d \in Nat /\ lead % d < d
  BY <1>1, RemainderIsLess
<1>4. v = CASE n = 1 -> lead % 128
            [] n = 2 -> (lead % 32) * 64 + b1
            [] n = 3 -> (lead % 16) * 4096 + b1 * 64 + b2
            [] OTHER -> (lead % 8) * 262144 + b1 * 4096 + b2 * 64 + b3
  BY DEF ValueOf
<1> HIDE DEF b1, b2, b3, lead, v
<1>5. CASE n = 1
  <2> DEFINE q == lead % 128
  <2>1. q \in Nat /\ q < 128
    BY <1>3
  <2>2. v = q
    BY <1>4, <1>5
  <2> HIDE DEF q
  <2>3. v \in Nat /\ v < Beyond21 /\ (n < 4 => v < Beyond16)
    BY <1>2, <1>5, <2>1, <2>2, SMT DEF Beyond16, Beyond21
  <2> QED BY <2>3 DEF v
<1>6. CASE n = 2
  <2> DEFINE q == lead % 32
  <2>1. q \in Nat /\ q < 32
    BY <1>3
  <2>2. v = q * 64 + b1
    BY <1>4, <1>6
  <2> HIDE DEF q
  <2>3. v \in Nat /\ v < Beyond21 /\ (n < 4 => v < Beyond16)
    BY <1>2, <1>6, <2>1, <2>2, SMT DEF Beyond16, Beyond21
  <2> QED BY <2>3 DEF v
<1>7. CASE n = 3
  <2> DEFINE q == lead % 16
  <2>1. q \in Nat /\ q < 16
    BY <1>3
  <2>2. v = q * 4096 + b1 * 64 + b2
    BY <1>4, <1>7
  <2> HIDE DEF q
  <2>3. v \in Nat /\ v < Beyond21 /\ (n < 4 => v < Beyond16)
    BY <1>2, <1>7, <2>1, <2>2, SMT DEF Beyond16, Beyond21
  <2> QED BY <2>3 DEF v
<1>8. CASE n = 4
  <2> DEFINE q == lead % 8
  <2>1. q \in Nat /\ q < 8
    BY <1>3
  <2>2. v = q * 262144 + b1 * 4096 + b2 * 64 + b3
    BY <1>4, <1>8
  <2> HIDE DEF q
  <2>3. v \in Nat /\ v < Beyond21 /\ (n < 4 => v < Beyond16)
    BY <1>2, <1>8, <2>1, <2>2, SMT DEF Beyond16, Beyond21
  <2> QED BY <2>3 DEF v
<1> QED BY <1>5, <1>6, <1>7, <1>8

(* What a piece of the source is for the loops.                            *)
Reads(next, double, s, i, most, mostOfDouble) ==
  /\ next \in Nat /\ i < next /\ next <= Len(s)
  /\ next <= i + mostOfDouble /\ (double \/ next <= i + most)

Writes(units, double, most, mostOfDouble) ==
  /\ units \in Seq(Unit) /\ 0 < Len(units)
  /\ Len(units) <= mostOfDouble /\ (double \/ Len(units) <= most)

Fits(piece, s, i, read, readTwo, written, writtenTwo) ==
  /\ piece.double \in BOOLEAN
  /\ Reads(piece.next, piece.double, s, i, read, readTwo)
  /\ Writes(piece.text, piece.double, written, writtenTwo)

(* From UTF-8: three bytes become a unit, but four bytes two.              *)
LEMMA PieceOfUTF8 ==
  ASSUME RealSurrogates, NEW s \in Seq(Unit), NEW i \in 0 .. Len(s) - 1
  PROVE  Fits(NextOfUTF8(s, i, Len(s)), s, i, 3, 4, 1, 2)
<1> DEFINE lead == ByteAt(s, i)
           n == ValidLength(s, i, Len(s))
           whole == n = SequenceLength(lead) /\ (n > 1 \/ lead < 128)
           c == IF whole THEN ValueOf(s, i, n) ELSE REPLACEMENT
           units == CodeUnits(c)
           double == lead >= 240
<1>1. NextOfUTF8(s, i, Len(s)) = [next |-> i + n, text |-> units, double |-> double]
  BY DEF NextOfUTF8
<1>2. i \in Nat /\ Len(s) \in Nat /\ lead \in Nat
  <2>1. lead \in Unit
    BY ByteIsUnit
  <2> QED BY <2>1 DEF Unit
<1>3. /\ SequenceLength(lead) \in 1 .. 4
      /\ lead < 240 => SequenceLength(lead) \in 1 .. 3
  BY <1>2, SMT DEF SequenceLength
<1>4. n \in 1 .. SequenceLength(lead) /\ i + n <= Len(s)
  BY ValidLengthFits, SMT
<1>5. n \in 1 .. 4 /\ (lead < 240 => n <= 3)
  <2> HIDE DEF n, lead
  <2> QED BY <1>3, <1>4, SMT
<1>6. c \in Nat /\ c < Beyond21 /\ (lead < 240 => c < Beyond16)
  <2> DEFINE v == ValueOf(s, i, n)
  <2>1. v \in Nat /\ v < Beyond21 /\ (n < 4 => v < Beyond16)
    <3> HIDE DEF n
    <3> QED BY <1>2, <1>5, ValueFits
  <2>2. c = v \/ c = REPLACEMENT
    OBVIOUS
  <2> HIDE DEF v, c, n, lead
  <2> QED BY <1>5, <2>1, <2>2, SMT DEF REPLACEMENT, Beyond16, Beyond21
<1>7. /\ units \in Seq(Unit) /\ 0 < Len(units) /\ Len(units) <= 2
      /\ lead < 240 => Len(units) <= 1
  <2> HIDE DEF c, lead
  <2>1. units \in Seq(Unit) /\ Len(units) = IF c < Beyond16 THEN 1 ELSE 2
    BY <1>6, UnitsOfCodePoint
  <2> HIDE DEF units
  <2> QED BY <1>6, <2>1
<1> HIDE DEF n, c, lead, units
<1>8. Reads(i + n, double, s, i, 3, 4)
  BY <1>2, <1>4, <1>5, SMT DEF Reads
<1>9. Writes(units, double, 1, 2)
  <2>1. lead < 240 \/ double
    BY <1>2
  <2>2. 0 < Len(units) /\ Len(units) <= 2 /\ (double \/ Len(units) <= 1)
    <3> HIDE DEF double
    <3> QED BY <1>7, <2>1
  <2> HIDE DEF double
  <2> QED BY <1>7, <2>2 DEF Writes
<1>10. double \in BOOLEAN
  OBVIOUS
<1> HIDE DEF double
<1> QED BY <1>1, <1>8, <1>9, <1>10 DEF Fits

(* The quotient of a number below a product.                               *)
LEMMA QuotientFits ==
  ASSUME NEW a \in Nat, NEW d \in Nat, d > 0, NEW m \in Nat, a < m * d
  PROVE  a \div d \in Nat /\ a \div d < m
OBVIOUS

(* The bytes of a code point.                                              *)
LEMMA BytesOfCodePoint ==
  ASSUME NEW c \in Nat, c <= LastCodePoint
  PROVE  /\ AppendUTF8(c) \in Seq(Unit)
         /\ 0 < Len(AppendUTF8(c)) /\ Len(AppendUTF8(c)) <= 4
         /\ c < Beyond16 => Len(AppendUTF8(c)) <= 3
<1> DEFINE bits(d) == 128 + ((c \div d) % 64)
<1>1. \A d \in {1, 64, 4096} : bits(d) \in Unit
  <2> SUFFICES ASSUME NEW d \in {1, 64, 4096} PROVE bits(d) \in Unit
    OBVIOUS
  <2>1. c \div d \in Nat
    BY QuotientIsNat
  <2>2. (c \div d) % 64 \in 0 .. 63
    <3> DEFINE q == c \div d
    <3> HIDE DEF q
    <3>1. q % 64 \in 0 .. 63
      BY <2>1 DEF q
    <3> QED BY <3>1 DEF q
  <2> QED BY <2>2, SMT DEF Unit, Beyond16
<1>2. AppendUTF8(c) =
        IF c < 128        THEN <<c>>
        ELSE IF c < 2048  THEN <<192 + (c \div 64), bits(1)>>
        ELSE IF c < 65536 THEN <<224 + (c \div 4096), bits(64), bits(1)>>
        ELSE <<240 + (c \div 262144), bits(4096), bits(64), bits(1)>>
  BY SMT DEF AppendUTF8
<1> HIDE DEF bits
<1>3. CASE c < 128
  BY <1>2, <1>3, SMT DEF Unit, Beyond16
<1>4. CASE c >= 128 /\ c < 2048
  <2>1. 192 + (c \div 64) \in Unit
    <3>1. c < 32 * 64
      BY <1>4, SMT
    <3> DEFINE q == c \div 64
    <3>2. q \in Nat /\ q < 32
      BY <3>1, QuotientFits, SMT
    <3> HIDE DEF q
    <3>3. 192 + q \in Unit
      BY <3>2, SMT DEF Unit
    <3> QED BY <3>3 DEF q
  <2> HIDE DEF Unit
  <2> QED BY <1>1, <1>2, <1>4, <2>1, SMT DEF Beyond16
<1>5. CASE c >= 2048 /\ c < 65536
  <2>1. 224 + (c \div 4096) \in Unit
    <3>1. c < 16 * 4096
      BY <1>5, SMT
    <3> DEFINE q == c \div 4096
    <3>2. q \in Nat /\ q < 16
      BY <3>1, QuotientFits, SMT
    <3> HIDE DEF q
    <3>3. 224 + q \in Unit
      BY <3>2, SMT DEF Unit
    <3> QED BY <3>3 DEF q
  <2> QED BY <1>1, <1>2, <1>5, <2>1, SMT DEF Beyond16
<1>6. CASE c >= 65536
  <2>1. 240 + (c \div 262144) \in Unit
    <3>1. c < 5 * 262144
      BY SMT DEF LastCodePoint
    <3> DEFINE q == c \div 262144
    <3>2. q \in Nat /\ q < 5
      BY <3>1, QuotientFits, SMT
    <3> HIDE DEF q
    <3>3. 240 + q \in Unit
      BY <3>2, SMT DEF Unit
    <3> QED BY <3>3 DEF q
  <2> QED BY <1>1, <1>2, <1>6, <2>1, SMT DEF Beyond16
<1> QED BY <1>3, <1>4, <1>5, <1>6

(* What is read is a code point.                                           *)
LEMMA CodePointIsOne ==
  ASSUME RealSurrogates, NEW s \in Seq(Unit), NEW i \in 0 .. Len(s) - 1
  PROVE  /\ CodePointAt(s, i) \in Nat /\ CodePointAt(s, i) <= LastCodePoint
         /\ i + U16_LENGTH(CodePointAt(s, i)) <= Len(s)
<1> DEFINE c == CodePointAt(s, i)
           n == U16_LENGTH(c)
<1>1. MaxCodePoint = LastCodePoint
  BY SMT DEF RealSurrogates, MaxCodePoint, LastCodePoint
<1>2. 0 .. FirstSupplementary - 1 = Unit
  <2>1. \A x : x \in 0 .. FirstSupplementary - 1
               <=> x \in Nat /\ x <= FirstSupplementary - 1
    BY SurrogateLayout, SMT
  <2>2. FirstSupplementary - 1 = 65535
    BY SMT DEF RealSurrogates
  <2> QED BY <2>1, <2>2, SMT DEF Unit
<1>3. c \in 0 .. MaxCodePoint /\ i + n <= Len(s)
  BY <1>2, CodePointAtRange
<1> HIDE DEF c, n
<1>4. c \in Nat /\ c <= MaxCodePoint
  BY <1>3, MaxCodePointIsNat, SMT
<1>5. c <= LastCodePoint
  BY <1>1, <1>4
<1> QED BY <1>3, <1>4, <1>5 DEF c, n

(* To UTF-8: a unit becomes three bytes, but two units four.               *)
LEMMA PieceOfUTF16 ==
  ASSUME RealSurrogates, NEW s \in Seq(Unit), NEW i \in 0 .. Len(s) - 1
  PROVE  Fits(NextOfUTF16(s, i), s, i, 1, 2, 3, 4)
<1> DEFINE c == CodePointAt(s, i)
           b == IF IsSurrogate(c) THEN REPLACEMENT ELSE c
           n == U16_LENGTH(c)
           unit == s[i + 1]
           units == AppendUTF8(b)
           double == IsSurrogate(unit)
<1>1. NextOfUTF16(s, i) = [next |-> i + n, text |-> units, double |-> double]
  BY DEF NextOfUTF16
<1>2. i \in Nat /\ Len(s) \in Nat
  OBVIOUS
<1>3. c \in Nat /\ c <= LastCodePoint /\ i + n <= Len(s)
  BY CodePointIsOne
<1>4. unit \in Nat /\ unit < Beyond16
  <2>1. unit = ByteAt(s, i)
    BY DEF ByteAt
  <2>2. unit \in Unit
    BY <1>2, <2>1, ByteIsUnit
  <2> HIDE DEF unit
  <2> QED BY <2>2, SMT DEF Unit, Beyond16
<1>5. ~double => c = unit
  <2>1. c = unit \/ IsLead(unit)
    BY DEF CodePointAt, StartsPair
  <2> HIDE DEF c, unit
  <2> QED BY <1>4, <2>1, SurrogateLayout DEF IsLead, IsSurrogate
<1>6. n \in 1 .. 2 /\ (c < Beyond16 => n = 1)
  <2> HIDE DEF c
  <2> QED BY <1>3, SMT DEF U16_LENGTH, RealSurrogates, Beyond16
<1>7. b = REPLACEMENT \/ b = c
  OBVIOUS
<1>8. double \in BOOLEAN
  BY DEF IsSurrogate
<1> HIDE DEF b, c, n, unit, double
<1>9. b \in Nat /\ b <= LastCodePoint /\ (c < Beyond16 => b < Beyond16)
  BY <1>3, <1>7, SMT DEF REPLACEMENT, Beyond16, LastCodePoint
<1>10. double \/ c < Beyond16
  BY <1>4, <1>5
<1>11. Reads(i + n, double, s, i, 1, 2)
  BY <1>2, <1>3, <1>6, <1>10, SMT DEF Reads
<1>12. Writes(units, double, 3, 4)
  <2>1. /\ units \in Seq(Unit)
        /\ 0 < Len(units) /\ Len(units) <= 4
        /\ b < Beyond16 => Len(units) <= 3
    BY <1>9, BytesOfCodePoint
  <2> HIDE DEF units
  <2>2. 0 < Len(units) /\ Len(units) <= 4 /\ (double \/ Len(units) <= 3)
    BY <1>9, <1>10, <2>1
  <2> QED BY <2>1, <2>2 DEF Writes
<1> HIDE DEF units
<1> QED BY <1>1, <1>8, <1>11, <1>12 DEF Fits

-----------------------------------------------------------------------------
(* A step of a conversion, as a change of its record.                      *)
Moved(k, next, units, count, reqLength, status, at) ==
  [k EXCEPT !.i = next, !.dest = k.dest \o units, !.count = count,
            !.reqLength = reqLength, !.status = status, !.pc = at]

(* What is in bounds stays so when what is read and written fits.          *)
LEMMA MovedIsOK ==
  ASSUME NEW k, ConversionOK(k),
         NEW next \in Nat, next <= Len(k.src),
         NEW units \in Seq(Unit), Len(units) <= Room(k),
         NEW count \in Int, NEW reqLength \in Nat, NEW status \in Int,
         NEW at \in {"block", "fast", "slow", "preflight", "returned"},
         at = "fast" => IF k.dir = "from"
                        THEN count <= Room(k) - Len(units) /\ 3 * count <= Len(k.src) - next
                        ELSE 3 * count <= Room(k) - Len(units) /\ count <= Len(k.src) - next
  PROVE  ConversionOK(Moved(k, next, units, count, reqLength, status, at))
<1> DEFINE m == Moved(k, next, units, count, reqLength, status, at)
<1>1. /\ k \in ConversionSet /\ k.src \in Seq(Unit) /\ k.dest \in Seq(Unit)
      /\ k.capacity \in Nat /\ k.i \in Nat /\ k.dir \in {"from", "to"}
  BY DEF ConversionOK, ConversionSet
<1>2. /\ k.dest \o units \in Seq(Unit)
      /\ Len(k.dest \o units) = Len(k.dest) + Len(units)
      /\ Len(k.dest) \in Nat /\ Len(units) \in Nat /\ Len(k.src) \in Nat
  BY <1>1, ConcatProperties
<1>3. /\ m.dir = k.dir /\ m.src = k.src /\ m.capacity = k.capacity
      /\ m.i = next /\ m.dest = k.dest \o units /\ m.count = count /\ m.pc = at
  BY <1>1 DEF Moved, ConversionSet
<1>4. m \in ConversionSet
  <2> DEFINE d == k.dest \o units
  <2>1. d \in Seq(Unit)
    BY <1>2
  <2> HIDE DEF d
  <2>2. [k EXCEPT !.i = next, !.dest = d, !.count = count, !.reqLength = reqLength,
                  !.status = status, !.pc = at] \in ConversionSet
    BY <1>1, <2>1 DEF ConversionSet
  <2> QED BY <2>2 DEF Moved, d
<1> HIDE DEF m
<1>5. Room(m) = Room(k) - Len(units) /\ Left(m) = Len(k.src) - next
  BY <1>1, <1>2, <1>3 DEF Room, Left
<1>6. m.i <= Len(m.src) /\ Len(m.dest) <= m.capacity
  BY <1>1, <1>2, <1>3 DEF Room
<1>7. m.pc = "fast" => CounterFits(m)
  BY <1>3, <1>5 DEF CounterFits
<1> QED BY <1>4, <1>6, <1>7 DEF ConversionOK, m

(* A conversion begins and rests in bounds.                                *)
LEMMA BeginsOK ==
  ASSUME NEW dir \in {"from", "to"}, NEW src \in Seq(Unit), NEW capacity \in Nat
  PROVE  ConversionOK(Begins(dir, src, capacity))
<1>1. /\ <<>> \in Seq(Unit) /\ Len(<<>>) = 0 /\ Len(src) \in Nat
      /\ U_ZERO_ERROR \in Int
  BY EmptySeq DEF U_ZERO_ERROR
<1>2. Begins(dir, src, capacity) \in ConversionSet
  BY <1>1 DEF Begins, ConversionSet
<1> QED BY <1>1, <1>2 DEF Begins, ConversionOK

(* So does one that nobody has asked for.                                  *)
LEMMA IdleOK == ConversionOK(Idle)
<1> DEFINE k == Begins("from", <<>>, 0)
<1>1. ConversionOK(k)
  BY BeginsOK, EmptySeq
<1>2. k \in ConversionSet /\ k.dest = <<>> /\ k.src = <<>> /\ k.i = 0 /\ k.capacity = 0
  BY <1>1 DEF ConversionOK, Begins
<1> HIDE DEF k
<1>3. /\ Idle \in ConversionSet /\ Idle.pc = "returned" /\ Idle.i = k.i
      /\ Idle.src = k.src /\ Idle.dest = k.dest /\ Idle.capacity = k.capacity
  <2>1. U_STRING_NOT_TERMINATED_WARNING \in Int
    BY DEF U_STRING_NOT_TERMINATED_WARNING
  <2>2. Idle = [k EXCEPT !.pc = "returned", !.status = U_STRING_NOT_TERMINATED_WARNING]
    BY DEF Idle, k
  <2> QED BY <1>2, <2>1, <2>2 DEF ConversionSet
<1> QED BY <1>1, <1>3 DEF ConversionOK

(* What the next character reads and writes.                               *)
LEMMA NextPieceFits ==
  ASSUME RealSurrogates, NEW k, ConversionOK(k), Left(k) > 0
  PROVE  /\ k.dir = "from" => Fits(NextPiece(k), k.src, k.i, 3, 4, 1, 2)
         /\ k.dir = "to"   => Fits(NextPiece(k), k.src, k.i, 1, 2, 3, 4)
<1>1. k.src \in Seq(Unit) /\ k.i \in Nat /\ k.dir \in {"from", "to"}
  BY DEF ConversionOK, ConversionSet
<1>2. k.i \in 0 .. Len(k.src) - 1
  BY <1>1 DEF Left
<1>3. CASE k.dir = "from"
  BY <1>1, <1>2, <1>3, PieceOfUTF8 DEF NextPiece
<1>4. CASE k.dir = "to"
  <2>1. k.dir # "from"
    BY <1>4
  <2> QED BY <1>1, <1>2, <1>4, <2>1, PieceOfUTF16 DEF NextPiece
<1> QED BY <1>1, <1>3, <1>4

(* What is left is never less than nothing.                                *)
LEMMA LeftAndRoom ==
  ASSUME NEW k, ConversionOK(k)
  PROVE  /\ Left(k) \in Nat /\ Left(k) = Len(k.src) - k.i
         /\ Room(k) \in Nat /\ Room(k) = k.capacity - Len(k.dest)
         /\ k.i \in Nat /\ Len(k.src) \in Nat /\ k.count \in Int
         /\ k.reqLength \in Nat /\ k.status \in Int /\ k.dir \in {"from", "to"}
BY DEF ConversionOK, ConversionSet, Left, Room

(* A block begins with as many rounds as both arrays have room for.        *)
LEMMA RoundsFit ==
  ASSUME NEW k, ConversionOK(k)
  PROVE  /\ Rounds(k) \in Int
         /\ k.dir = "from" => Rounds(k) <= Room(k) /\ 3 * Rounds(k) <= Left(k)
         /\ k.dir = "to" => 3 * Rounds(k) <= Room(k) /\ Rounds(k) <= Left(k)
<1>1. Left(k) \in Nat /\ Room(k) \in Nat /\ k.dir \in {"from", "to"}
  BY LeftAndRoom
<1> DEFINE l == Left(k)
           r == Room(k)
<1> HIDE DEF l, r
<1>2. l \in Nat /\ r \in Nat
  BY <1>1 DEF l, r
<1>3. l \div 3 \in Nat /\ 3 * (l \div 3) <= l /\ r \div 3 \in Nat /\ 3 * (r \div 3) <= r
  BY <1>2
<1>4. CASE k.dir = "from"
  <2>1. Rounds(k) = Min({r, l \div 3})
    BY <1>4 DEF Rounds, l, r
  <2>2. Rounds(k) = IF r <= l \div 3 THEN r ELSE l \div 3
    BY <1>2, <1>3, <2>1, MinOfTwo
  <2>3. Rounds(k) \in Int /\ Rounds(k) <= r /\ 3 * Rounds(k) <= l
    BY <1>2, <1>3, <2>2
  <2> QED BY <1>4, <2>3 DEF l, r
<1>5. CASE k.dir = "to"
  <2>1. Rounds(k) = Min({r \div 3, l})
    BY <1>5 DEF Rounds, l, r
  <2>2. Rounds(k) = IF r \div 3 <= l THEN r \div 3 ELSE l
    BY <1>2, <1>3, <2>1, MinOfTwo
  <2>3. Rounds(k) \in Int /\ 3 * Rounds(k) <= r /\ Rounds(k) <= l
    BY <1>2, <1>3, <2>2
  <2> QED BY <1>5, <2>3 DEF l, r
<1> QED BY <1>1, <1>4, <1>5

(* A step that reads and writes nothing.                                   *)
LEMMA StandingIsOK ==
  ASSUME NEW k, ConversionOK(k), NEW count \in Int, NEW reqLength \in Nat, NEW status \in Int,
         NEW at \in {"block", "fast", "slow", "preflight", "returned"},
         at = "fast" => IF k.dir = "from" THEN count <= Room(k) /\ 3 * count <= Left(k)
                                          ELSE 3 * count <= Room(k) /\ count <= Left(k),
         NEW m, m = [k EXCEPT !.count = count, !.reqLength = reqLength, !.status = status,
                              !.pc = at]
  PROVE  ConversionOK(m)
<1>1. <<>> \in Seq(Unit) /\ Len(<<>>) = 0
  BY EmptySeq
<1>2. m = Moved(k, k.i, <<>>, count, reqLength, status, at)
  <2>1. k \in ConversionSet /\ k.dest \in Seq(Unit) /\ k.dest \o <<>> = k.dest
    BY DEF ConversionOK, ConversionSet
  <2> QED BY <2>1 DEF Moved, ConversionSet
<1>3. k.i <= Len(k.src)
  BY DEF ConversionOK
<1> DEFINE none == <<>>
<1>4. none \in Seq(Unit) /\ Len(none) <= Room(k) /\ Room(k) - Len(none) = Room(k)
      /\ Left(k) = Len(k.src) - k.i /\ k.i \in Nat
  BY <1>1, LeftAndRoom
<1> HIDE DEF none
<1>5. ConversionOK(Moved(k, k.i, none, count, reqLength, status, at))
  BY <1>3, <1>4, MovedIsOK
<1> QED BY <1>2, <1>5 DEF none

(* BeginBlock, BackOut, EndSlow and ReturnLength.                          *)
LEMMA StandingSteps ==
  ASSUME ConversionOK(conv), BeginBlock \/ BackOut \/ EndSlow \/ ReturnLength
  PROVE  ConversionOK(conv')
<1> DEFINE k == conv
<1>1. /\ k \in ConversionSet /\ k.count \in Int /\ k.reqLength \in Nat /\ k.status \in Int
      /\ k.dir \in {"from", "to"} /\ Room(k) \in Nat /\ Left(k) \in Nat
  BY LeftAndRoom DEF ConversionOK
<1>2. CASE BeginBlock
  <2> DEFINE n == Rounds(k)
  <2>1. n \in Int /\ Phase(n) \in {"fast", "slow"}
    BY RoundsFit DEF Phase
  <2>2. IF k.dir = "from" THEN n <= Room(k) /\ 3 * n <= Left(k)
                          ELSE 3 * n <= Room(k) /\ n <= Left(k)
    BY <1>1, RoundsFit
  <2>3. conv' = [k EXCEPT !.count = n, !.pc = Phase(n)]
    BY <1>2 DEF BeginBlock
  <2> HIDE DEF n
  <2>4. conv' = [k EXCEPT !.count = n, !.reqLength = k.reqLength, !.status = k.status,
                          !.pc = Phase(n)]
    BY <1>1, <2>3 DEF ConversionSet
  <2> HIDE DEF k
  <2>5. ConversionOK(k)
    BY DEF k
  <2> QED BY <1>1, <2>1, <2>2, <2>4, <2>5, StandingIsOK
<1>3. CASE BackOut
  <2>1. conv' = [k EXCEPT !.count = k.count, !.reqLength = k.reqLength, !.status = k.status,
                          !.pc = "block"]
    BY <1>1, <1>3 DEF BackOut, ConversionSet
  <2> QED BY <1>1, <2>1, StandingIsOK
<1>4. CASE EndSlow
  <2>1. conv' = [k EXCEPT !.count = k.count, !.reqLength = k.reqLength, !.status = k.status,
                          !.pc = "preflight"]
    BY <1>1, <1>4 DEF EndSlow, ConversionSet
  <2> QED BY <1>1, <2>1, StandingIsOK
<1>5. CASE ReturnLength
  <2> DEFINE n == RequiredLength(k)
             code == TerminateStatus(k.capacity, n, U_ZERO_ERROR)
  <2>1. n \in Nat
    BY <1>1 DEF RequiredLength, ConversionSet
  <2>2. code \in Int
    BY DEF TerminateStatus, U_STRING_NOT_TERMINATED_WARNING, U_ZERO_ERROR,
           U_BUFFER_OVERFLOW_ERROR
  <2>3. conv' = [k EXCEPT !.reqLength = n, !.status = code, !.pc = "returned"]
    BY <1>5 DEF ReturnLength
  <2> HIDE DEF n, code
  <2>4. conv' = [k EXCEPT !.count = k.count, !.reqLength = n, !.status = code,
                          !.pc = "returned"]
    BY <1>1, <2>3 DEF ConversionSet
  <2> QED BY <1>1, <2>1, <2>2, <2>4, StandingIsOK
<1> QED BY <1>2, <1>3, <1>4, <1>5

(* A round of a fast loop: its character costs the counter no less than it *)
(* takes from either array.                                                *)
LEMMA FastStep ==
  ASSUME RealSurrogates, ConversionOK(conv), ConvertFast
  PROVE  ConversionOK(conv')
<1> DEFINE k == conv
           piece == NextPiece(k)
           cost == Cost(piece)
           next == piece.next
           units == piece.text
           double == piece.double
           count == k.count - cost
           at == IF k.count = cost THEN "block" ELSE "fast"
<1>1. /\ k.pc = "fast" /\ k.count >= cost
      /\ conv' = [k EXCEPT !.i = next, !.dest = @ \o units, !.count = @ - cost, !.pc = at]
  BY DEF ConvertFast
<1>2. /\ k \in ConversionSet /\ k.count \in Int /\ k.reqLength \in Nat /\ k.status \in Int
      /\ k.dir \in {"from", "to"} /\ Room(k) \in Nat /\ Left(k) \in Nat
      /\ Left(k) = Len(k.src) - k.i /\ Len(k.src) \in Nat /\ k.i \in Nat
  BY LeftAndRoom DEF ConversionOK
<1>3. CounterFits(k)
  BY <1>1 DEF ConversionOK
<1>4. cost = (IF double THEN 2 ELSE 1) /\ cost \in Nat /\ cost >= 1
  BY DEF Cost
<1> HIDE DEF cost, at
<1>5. Left(k) > 0
  BY <1>1, <1>2, <1>3, <1>4 DEF CounterFits
<1>6. /\ k.dir = "from" => Fits(piece, k.src, k.i, 3, 4, 1, 2)
      /\ k.dir = "to"   => Fits(piece, k.src, k.i, 1, 2, 3, 4)
  BY <1>5, NextPieceFits
<1> HIDE DEF piece
<1>7. /\ units \in Seq(Unit) /\ next \in Nat /\ next <= Len(k.src) /\ k.i < next
      /\ k.dir = "from" => next <= k.i + 4 /\ Len(units) <= 2
                           /\ (double \/ next <= k.i + 3) /\ (double \/ Len(units) <= 1)
      /\ k.dir = "to" => next <= k.i + 2 /\ Len(units) <= 4
                         /\ (double \/ next <= k.i + 1) /\ (double \/ Len(units) <= 3)
  BY <1>2, <1>6 DEF Fits, Reads, Writes
<1>8. Len(units) \in Nat
  BY <1>7
<1> HIDE DEF units, next, double, k
<1> DEFINE n == Len(units)
           l == Left(k)
           r == Room(k)
           c == k.count
           i == k.i
           e == Len(k.src)
<1>9. k.dir = "from" => n <= r /\ c - cost <= r - n /\ 3 * (c - cost) <= e - next
  <2> HAVE k.dir = "from"
  <2>1. c <= r /\ 3 * c <= l
    BY <1>3 DEF CounterFits
  <2>2. n <= cost /\ next <= i + 3 * cost
    BY <1>2, <1>4, <1>7, <1>8
  <2>3. c \in Int /\ r \in Nat /\ l \in Nat /\ l = e - i /\ i \in Nat /\ e \in Nat
        /\ next \in Nat /\ n \in Nat /\ c >= cost /\ cost \in Nat
    BY <1>1, <1>2, <1>4, <1>7, <1>8 DEF k
  <2> HIDE DEF n, l, r, c, i, e
  <2>4. n <= r /\ c - cost <= r - n /\ 3 * (c - cost) <= e - next
    BY <2>1, <2>2, <2>3
  <2> QED BY <2>4
<1>10. k.dir = "to" => n <= r /\ 3 * (c - cost) <= r - n /\ c - cost <= e - next
  <2> HAVE k.dir = "to"
  <2>1. 3 * c <= r /\ c <= l
    BY <1>3 DEF CounterFits
  <2>2. n <= 3 * cost /\ next <= i + cost
    BY <1>2, <1>4, <1>7, <1>8
  <2>3. c \in Int /\ r \in Nat /\ l \in Nat /\ l = e - i /\ i \in Nat /\ e \in Nat
        /\ next \in Nat /\ n \in Nat /\ c >= cost /\ cost \in Nat
    BY <1>1, <1>2, <1>4, <1>7, <1>8 DEF k
  <2> HIDE DEF n, l, r, c, i, e
  <2>4. n <= r /\ 3 * (c - cost) <= r - n /\ c - cost <= e - next
    BY <2>1, <2>2, <2>3
  <2> QED BY <2>4
<1>11. conv' = Moved(k, next, units, c - cost, k.reqLength, k.status, at)
  BY <1>1, <1>2 DEF Moved, ConversionSet, k
<1>12. /\ c - cost \in Int /\ at \in {"block", "fast", "slow", "preflight", "returned"}
       /\ ConversionOK(k)
  BY <1>2, <1>4 DEF at, k
<1> HIDE DEF c
<1>13. IF k.dir = "from" THEN c - cost <= Room(k) - Len(units) /\ 3 * (c - cost) <= Len(k.src) - next
                         ELSE 3 * (c - cost) <= Room(k) - Len(units) /\ c - cost <= Len(k.src) - next
  BY <1>2, <1>9, <1>10
<1>14. Len(units) <= Room(k)
  BY <1>2, <1>9, <1>10
<1> DEFINE left == c - cost
<1> HIDE DEF left
<1>15. ConversionOK(Moved(k, next, units, left, k.reqLength, k.status, at))
  <2>1. /\ left \in Int
        /\ IF k.dir = "from" THEN left <= Room(k) - Len(units) /\ 3 * left <= Len(k.src) - next
                             ELSE 3 * left <= Room(k) - Len(units) /\ left <= Len(k.src) - next
    BY <1>12, <1>13 DEF left
  <2> QED BY <1>2, <1>7, <1>12, <1>14, <2>1, MovedIsOK
<1> QED BY <1>11, <1>15 DEF left

(* The loops that test the ends, and the count of what does not fit.       *)
LEMMA SlowSteps ==
  ASSUME RealSurrogates, ConversionOK(conv), ConvertSlow \/ ConvertSplit \/ Preflight
  PROVE  ConversionOK(conv')
<1> DEFINE k == conv
           piece == NextPiece(k)
           next == piece.next
           units == piece.text
<1>1. /\ k \in ConversionSet /\ k.count \in Int /\ k.reqLength \in Nat /\ k.status \in Int
      /\ k.dir \in {"from", "to"} /\ Room(k) \in Nat
      /\ Len(k.src) \in Nat /\ k.i \in Nat
  BY LeftAndRoom DEF ConversionOK
<1>2. Left(k) > 0
  BY DEF ConvertSlow, ConvertSplit, Preflight, GoesOn
<1>3. /\ k.dir = "from" => Fits(piece, k.src, k.i, 3, 4, 1, 2)
      /\ k.dir = "to"   => Fits(piece, k.src, k.i, 1, 2, 3, 4)
  BY <1>2, NextPieceFits
<1>4. units \in Seq(Unit) /\ next \in Nat /\ next <= Len(k.src) /\ Len(units) \in Nat
  <2> HIDE DEF piece
  <2> QED BY <1>1, <1>3 DEF Fits, Reads, Writes
<1>5. CASE ConvertSlow
  <2>1. Len(units) <= Room(k) /\ conv.pc = "slow"
        /\ conv' = [k EXCEPT !.i = next, !.dest = @ \o units]
    BY <1>5 DEF ConvertSlow
  <2> HIDE DEF piece, units, next, k
  <2>2. conv' = Moved(k, next, units, k.count, k.reqLength, k.status, "slow")
    BY <1>1, <2>1 DEF Moved, ConversionSet, k
  <2>3. ConversionOK(k)
    BY DEF k
  <2> DEFINE at == "slow"
  <2>4. at \in {"block", "fast", "slow", "preflight", "returned"} /\ at # "fast"
        /\ Len(units) <= Room(k)
    BY <2>1
  <2> HIDE DEF at
  <2>5. ConversionOK(Moved(k, next, units, k.count, k.reqLength, k.status, at))
    BY <1>1, <1>4, <2>3, <2>4, MovedIsOK
  <2> QED BY <2>2, <2>5 DEF at
<1>6. CASE ConvertSplit
  <2> DEFINE n == Split(k, units)
             written == SubSeq(units, 1, n)
             rest == Len(units) - n
  <2>1. Len(units) > Room(k)
        /\ conv' = [k EXCEPT !.i = next, !.dest = @ \o written, !.reqLength = rest,
                             !.pc = "preflight"]
    BY <1>6 DEF ConvertSplit
  <2>2. n \in Nat /\ n <= Room(k) /\ n <= Len(units)
    <3> DEFINE r == Room(k)
               l == Len(units)
    <3>1. n = (IF k.dir = "from" THEN Min({r, l}) ELSE 0)
      BY DEF Split
    <3>2. r \in Nat /\ l \in Nat
      BY <1>1, <1>4
    <3> HIDE DEF n, r, l
    <3>3. n \in Nat /\ n <= r /\ n <= l
      BY <3>1, <3>2, MinOfTwo
    <3> QED BY <3>3 DEF r, l
  <2> HIDE DEF n, piece, units, next, k
  <2>3. written \in Seq(Unit) /\ Len(written) <= Room(k)
    BY <1>1, <1>4, <2>2, PartOfText
  <2>4. rest \in Nat
    BY <1>4, <2>2
  <2> HIDE DEF written, rest
  <2>5. conv' = Moved(k, next, written, k.count, rest, k.status, "preflight")
    BY <1>1, <2>1 DEF Moved, ConversionSet, k
  <2>6. ConversionOK(k)
    BY DEF k
  <2> QED BY <1>1, <1>4, <2>3, <2>4, <2>5, <2>6, MovedIsOK
<1>7. CASE Preflight
  <2> DEFINE rest == k.reqLength + Len(units)
             none == <<>>
  <2>1. conv.pc = "preflight" /\ conv' = [k EXCEPT !.i = next, !.reqLength = @ + Len(units)]
    BY <1>7 DEF Preflight
  <2>2. none \in Seq(Unit) /\ Len(none) <= Room(k) /\ rest \in Nat
    BY <1>1, <1>4, EmptySeq
  <2>3. k.dest \o none = k.dest
    BY <1>1 DEF ConversionSet
  <2> HIDE DEF piece, units, next, none, k
  <2>4. conv' = Moved(k, next, none, k.count, rest, k.status, "preflight")
    BY <1>1, <2>1, <2>3 DEF Moved, ConversionSet, k
  <2>5. ConversionOK(k)
    BY DEF k
  <2> HIDE DEF rest
  <2> QED BY <1>1, <1>4, <2>2, <2>4, <2>5, MovedIsOK
<1> QED BY <1>5, <1>6, <1>7

(* Every step of a conversion.                                             *)
LEMMA ConvertOK ==
  ASSUME RealSurrogates, ConversionOK(conv), Convert
  PROVE  ConversionOK(conv')
BY StandingSteps, FastStep, SlowSteps DEF Convert

-----------------------------------------------------------------------------
(* The result in the caller's array ends where the array does.             *)
SinkStaysInArray == sink.bytes = <<>> \/ Len(sink.bytes) <= Capacity

(* The call around the conversions, by its parts.                          *)
AsciiInv == ascii \in Seq(Unit) /\ labelStart \in 0 .. Len(ascii)

TextInv ==
  /\ text \in Seq(Unit) \cup {None}
  /\ pc \in {"first", "second"} => text \in Seq(Unit)

SinkInv ==
  /\ sink \in [bytes : Seq(Unit), appended : Nat]
  /\ SinkStaysInArray

LookupInv ==
  /\ ConversionOK(conv)
  /\ call \in Calls
  /\ AsciiInv
  /\ TextInv
  /\ SinkInv

(* The text of a call is a text, and its array has a size.                 *)
LEMMA CallType ==
  ASSUME LookupInputs, call \in Calls
  PROVE  Src \in Seq(Unit) /\ Capacity \in Int
<1> DEFINE s == call.src
           nuls == {x \in DOMAIN s : s[x] = 0}
           least == Min(nuls)
<1>1. /\ call.length \in Int /\ call.capacity \in Int
      /\ s # None => s \in Seq(Unit) /\ call.length <= Len(s)
  BY DEF LookupInputs
<1>2. Capacity \in Int
  BY <1>1, SizesAssumption DEF Capacity
<1>3. Src = IF s = None THEN <<>>
            ELSE IF call.length >= 0 THEN SubSeq(s, 1, call.length)
            ELSE IF nuls = {} THEN s
            ELSE SubSeq(s, 1, least - 1)
  BY DEF Src
<1>4. s \in Seq(Unit) => nuls \in SUBSET (1 .. Len(s))
  OBVIOUS
<1>5. s \in Seq(Unit) /\ nuls # {} => least \in 1 .. Len(s)
  <2> HAVE s \in Seq(Unit) /\ nuls # {}
  <2> HIDE DEF s, nuls
  <2>1. nuls \in SUBSET Nat
    BY <1>4
  <2>2. \E m \in nuls : \A y \in nuls : m <= y
    BY <2>1, NatHasLeast
  <2>3. least \in nuls
    BY <2>2 DEF Min
  <2> QED BY <1>4, <2>3
<1> DEFINE n == least - 1
<1> HIDE DEF s, nuls, least
<1>6. s \in Seq(Unit) /\ nuls # {} => n \in Int /\ n <= Len(s)
  BY <1>5
<1> HIDE DEF n
<1>7. <<>> \in Seq(Unit)
  BY EmptySeq
<1>8. s \in Seq(Unit) /\ nuls # {} => SubSeq(s, 1, n) \in Seq(Unit)
  BY <1>6, PartOfText
<1>9. s \in Seq(Unit) /\ call.length <= Len(s) => SubSeq(s, 1, call.length) \in Seq(Unit)
  BY <1>1, PartOfText
<1>10. Src \in Seq(Unit)
  <2>1. SubSeq(s, 1, n) = SubSeq(s, 1, least - 1)
    BY DEF n
  <2> HIDE DEF Src
  <2> QED BY <1>1, <1>3, <1>7, <1>8, <1>9, <2>1, Zenon
<1> QED BY <1>2, <1>10

(* The array of a string of any length.                                    *)
LEMMA FromUTF8OK ==
  ASSUME NEW bytes \in Seq(Unit), FromUTF8(bytes)
  PROVE  ConversionOK(conv')
<1> DEFINE n == Len(bytes)
<1>1. n \in Nat
  OBVIOUS
<1> HIDE DEF n
<1>2. UTF16Capacities(n) \subseteq Nat
  <2> DEFINE c == (16 * ((2 * (n + 2) + 19) \div 16) - 4) \div 2
  <2>1. c \in Nat
    <3> DEFINE q == (2 * (n + 2) + 19) \div 16
    <3>1. q \in Nat /\ q >= 1
      BY <1>1
    <3> HIDE DEF q
    <3>2. (16 * q - 4) \div 2 \in Nat
      BY <3>1
    <3> QED BY <3>2 DEF q
  <2> QED BY <2>1, SizesAssumption DEF UTF16Capacities
<1>3. PICK capacity \in UTF16Capacities(n) : conv' = Begins("from", bytes, capacity)
  BY DEF FromUTF8, n
<1> QED BY <1>2, <1>3, BeginsOK

(* What the sink takes fits.                                               *)
LEMMA Append8Fits ==
  ASSUME LookupInputs, call \in Calls, SinkInv,
         NEW bytes \in Seq(Unit), sink' = Append8(sink, bytes), call' = call
  PROVE  SinkInv'
<1> DEFINE held == Len(sink.bytes)
           left == Len(bytes)
           n == Min({Capacity - held, left})
           part == SubSeq(bytes, 1, n)
<1>1. Capacity \in Int /\ held \in Nat /\ left \in Nat /\ Capacity' = Capacity
      /\ sink.bytes \in Seq(Unit) /\ sink.appended \in Nat
  BY CallType DEF Capacity, SinkInv
<1>2. n \in Int /\ n <= left /\ n <= Capacity - held
  <2> HIDE DEF held, left
  <2> QED BY <1>1, MinOfTwo
<1>3. sink' = [bytes |-> sink.bytes \o part, appended |-> sink.appended + left]
  BY DEF Append8
<1> HIDE DEF n
<1>4. part \in Seq(Unit) /\ Len(part) = IF n < 1 THEN 0 ELSE n
  BY <1>2, PartOfText
<1> HIDE DEF part
<1>5. sink.bytes \o part \in Seq(Unit) /\ Len(sink.bytes \o part) = held + Len(part)
  BY <1>1, <1>4, ConcatProperties
<1>6. sink' \in [bytes : Seq(Unit), appended : Nat]
  BY <1>1, <1>3, <1>5
<1>7. CASE n < 1
  <2>1. part = <<>>
    BY <1>4, <1>7, EmptySeq
  <2>2. sink'.bytes = sink.bytes
    BY <1>1, <1>3, <2>1
  <2> QED BY <1>1, <1>6, <2>2 DEF SinkStaysInArray, SinkInv
<1>8. CASE n >= 1
  <2> HIDE DEF held
  <2> DEFINE new == Len(sink'.bytes)
             size == Capacity
  <2>1. size \in Int /\ held \in Nat /\ n \in Int /\ n <= size - held /\ new = held + n
    BY <1>1, <1>2, <1>3, <1>4, <1>5, <1>8
  <2> HIDE DEF new, size
  <2>2. new <= size
    BY <2>1
  <2>3. Len(sink'.bytes) <= Capacity'
    BY <1>1, <2>2 DEF new, size
  <2> QED BY <1>6, <2>3 DEF SinkStaysInArray, SinkInv
<1> QED BY <1>2, <1>7, <1>8

(* The sink that is left alone.                                            *)
LEMMA SinkUnchanged ==
  ASSUME SinkInv, sink' = sink, call' = call
  PROVE  SinkInv'
BY DEF SinkInv, SinkStaysInArray, Capacity

(* The result of a conversion, which may be a bogus string.                *)
LEMMA ResultType ==
  ASSUME ConversionOK(conv)
  PROVE  Result16 \in Seq(Unit) \cup {None}
BY DEF ConversionOK, ConversionSet, Result16

(* What is mapped stays a text.                                            *)
LEMMA MappedType ==
  ASSUME LookupInputs, call \in Calls, NEW s \in Seq(Unit)
  PROVE  MappedText(s) \in Seq(Unit)
BY DEF LookupInputs, MappedText

(* The byte in lower case.                                                 *)
LEMMA LowerIsUnit ==
  ASSUME NEW b \in Unit
  PROVE  Lower(b) \in Unit
BY SMT DEF Lower, IsUpper, Unit

-----------------------------------------------------------------------------
(* The start of a call.                                                    *)
LEMMA LookupInvInit ==
  ASSUME Init
  PROVE  LookupInv
<1>1. ConversionOK(conv)
  BY IdleOK DEF Init
<1>2. <<>> \in Seq(Unit) /\ Len(<<>>) = 0
  BY EmptySeq
<1>3. AsciiInv
  BY <1>2 DEF Init, AsciiInv
<1>4. TextInv
  BY <1>2 DEF Init, TextInv
<1>5. SinkInv
  BY <1>2 DEF Init, SinkInv, SinkStaysInArray
<1> QED BY <1>1, <1>3, <1>4, <1>5 DEF Init, LookupInv

(* The steps that touch neither a conversion nor the result.               *)
LEMMA BareSteps ==
  ASSUME LookupInv, UNCHANGED <<conv, call, ascii, labelStart, text, sink>>,
         pc' \notin {"first", "second"} \/ pc' = pc
  PROVE  LookupInv'
<1>1. ConversionOK(conv')
  BY DEF LookupInv
<1>2. AsciiInv'
  BY DEF LookupInv, AsciiInv
<1>3. TextInv'
  BY DEF LookupInv, TextInv
<1>4. SinkInv'
  BY SinkUnchanged DEF LookupInv
<1> QED BY <1>1, <1>2, <1>3, <1>4 DEF LookupInv

(* The steps that begin a conversion to UTF-16 or go on in one.            *)
LEMMA ConversionSteps ==
  ASSUME LookupInv, ConversionOK(conv'), UNCHANGED <<call, ascii, labelStart, text, sink>>,
         \/ pc' \notin {"first", "second"} \/ pc' = pc \/ text \in Seq(Unit)
  PROVE  LookupInv'
<1>1. AsciiInv'
  BY DEF LookupInv, AsciiInv
<1>2. TextInv'
  BY DEF LookupInv, TextInv
<1>3. SinkInv'
  BY SinkUnchanged DEF LookupInv
<1> QED BY <1>1, <1>2, <1>3 DEF LookupInv

(* CallProcess.                                                            *)
LEMMA CallProcessStep ==
  ASSUME LookupInputs, LookupInv, CallProcess
  PROVE  LookupInv'
<1>1. Src \in Seq(Unit) /\ ConversionOK(conv)
  BY CallType DEF LookupInv
<1>2. ConversionOK(conv')
  <2>1. conv' = conv \/ FromUTF8(Src)
    BY DEF CallProcess
  <2> QED BY <1>1, <2>1, FromUTF8OK
<1>3. UNCHANGED <<call, ascii, labelStart, text, sink>> /\ pc' \notin {"first", "second"}
  BY DEF CallProcess
<1> QED BY <1>2, <1>3, ConversionSteps

(* Process16: the array the string still stands on is long enough.         *)
LEMMA Process16Step ==
  ASSUME LookupInputs, LookupInv, Process16
  PROVE  LookupInv'
<1> DEFINE mapped == MappedText(Src)
           a == Len(Src)
           b == Len(text')
           most == Max({a, b})
           size == Capacity
<1>1. call \in Calls /\ Src \in Seq(Unit) /\ size \in Int /\ SinkInv /\ AsciiInv
      /\ ConversionOK(conv)
  BY CallType DEF LookupInv
<1>2. mapped \in Seq(Unit)
  BY <1>1, MappedType
<1>3. UNCHANGED <<conv, call, ascii, labelStart>> /\ pc' = "extract" /\ Capacity' = Capacity
  BY DEF Process16, Capacity
<1>4. sink' = IF inPlace' THEN [sink EXCEPT !.bytes = text'] ELSE sink
  BY DEF Process16
<1>5. text' = mapped \/ text' = None
  BY DEF Process16, Fails
<1>6. inPlace' => text' = mapped /\ most <= size
  BY DEF Process16
<1> HIDE DEF mapped, size
<1>7. TextInv'
  BY <1>2, <1>3, <1>5 DEF TextInv
<1>8. CASE ~inPlace'
  <2>1. sink' = sink
    BY <1>4, <1>8
  <2>2. SinkInv'
    BY <1>1, <1>3, <2>1, SinkUnchanged
  <2> QED BY <1>1, <1>3, <1>7, <2>2 DEF LookupInv, AsciiInv
<1>9. CASE inPlace'
  <2>1. text' \in Seq(Unit)
    BY <1>2, <1>6, <1>9, Zenon
  <2>2. sink' = [sink EXCEPT !.bytes = text'] /\ most <= size
    BY <1>4, <1>6, <1>9, Zenon
  <2>3. sink' \in [bytes : Seq(Unit), appended : Nat] /\ sink'.bytes = text'
    BY <1>1, <2>1, <2>2 DEF SinkInv
  <2>4. a \in Nat /\ b \in Nat
    BY <1>1, <2>1
  <2> HIDE DEF a, b
  <2>5. most \in {a, b} /\ \A y \in {a, b} : most >= y
    <3>1. \E m \in {a, b} : \A y \in {a, b} : m >= y
      <4>1. CASE a >= b
        BY <2>4, <4>1
      <4>2. CASE ~(a >= b)
        BY <2>4, <4>2
      <4> QED BY <4>1, <4>2
    <3> QED BY <3>1 DEF Max
  <2> HIDE DEF most
  <2>6. b <= size
    BY <1>1, <2>2, <2>4, <2>5
  <2>7. SinkInv'
    BY <1>3, <2>3, <2>6 DEF SinkInv, SinkStaysInArray, b, size
  <2> QED BY <1>1, <1>3, <1>7, <2>7 DEF LookupInv, AsciiInv
<1> QED BY <1>8, <1>9

(* Extract: only what fits is copied.                                      *)
LEMMA ExtractStep ==
  ASSUME LookupInputs, LookupInv, Extract
  PROVE  LookupInv'
<1> DEFINE length == IF text = None THEN 0 ELSE Len(text)
           copied == U_SUCCESS(error) /\ text # None /\ length <= Capacity /\ ~inPlace
<1>1. /\ sink' = [bytes |-> IF copied THEN text ELSE sink.bytes, appended |-> length]
      /\ pc' = "returned" /\ UNCHANGED <<conv, call, ascii, labelStart, text>>
  BY DEF Extract
<1>2. SinkInv /\ AsciiInv /\ TextInv /\ ConversionOK(conv) /\ call \in Calls
  BY DEF LookupInv
<1>3. text = None \/ text \in Seq(Unit)
  BY <1>2 DEF TextInv
<1>4. length \in Nat
  BY <1>3
<1>5. copied => text \in Seq(Unit) /\ Len(text) <= Capacity
  BY <1>3
<1> HIDE DEF length, copied
<1>6. sink' \in [bytes : Seq(Unit), appended : Nat]
  BY <1>1, <1>2, <1>4, <1>5 DEF SinkInv
<1>7. Capacity' = Capacity
  BY <1>1 DEF Capacity
<1>8. SinkStaysInArray'
  <2>1. CASE copied
    BY <1>1, <1>5, <1>7, <2>1 DEF SinkStaysInArray
  <2>2. CASE ~copied
    BY <1>1, <1>2, <1>7, <2>2 DEF SinkStaysInArray, SinkInv
  <2> QED BY <2>1, <2>2
<1>9. AsciiInv' /\ TextInv' /\ ConversionOK(conv') /\ call' \in Calls
  BY <1>1, <1>2 DEF AsciiInv, TextInv
<1> QED BY <1>6, <1>8, <1>9 DEF LookupInv, SinkInv

(* AsciiByte.                                                              *)
LEMMA AsciiByteStep ==
  ASSUME LookupInputs, LookupInv, AsciiByte
  PROVE  LookupInv'
<1> DEFINE b == Src[Len(ascii) + 1]
           c == Lower(b)
<1>1. /\ Len(ascii) < Len(Src) /\ ascii' = Append(ascii, c)
      /\ labelStart' = IF b = Dot THEN Len(ascii) + 1 ELSE labelStart
      /\ UNCHANGED <<conv, call, pc, text, sink>>
  BY DEF AsciiByte
<1>2. Src \in Seq(Unit) /\ ascii \in Seq(Unit) /\ labelStart \in 0 .. Len(ascii)
  BY CallType DEF LookupInv, AsciiInv
<1>3. c \in Unit
  <2>1. Len(ascii) + 1 \in 1 .. Len(Src)
    BY <1>1, <1>2
  <2>2. b \in Unit
    BY <1>2, <2>1, ElementOfSeq
  <2> QED BY <2>2, LowerIsUnit
<1> HIDE DEF c
<1>4. Append(ascii, c) \in Seq(Unit) /\ Len(Append(ascii, c)) = Len(ascii) + 1
  BY <1>2, <1>3, AppendProperties
<1>5. AsciiInv'
  <2>1. labelStart' \in 0 .. Len(ascii) + 1
    BY <1>1, <1>2
  <2> QED BY <1>1, <1>4, <2>1 DEF AsciiInv
<1>6. SinkInv' /\ TextInv' /\ ConversionOK(conv') /\ call' \in Calls
  <2>1. SinkInv'
    BY <1>1, SinkUnchanged DEF LookupInv
  <2> QED BY <1>1, <2>1 DEF LookupInv, TextInv
<1> QED BY <1>5, <1>6 DEF LookupInv

(* AsciiEnd and AppendConverted: something is appended.                    *)
LEMMA AppendSteps ==
  ASSUME LookupInputs, LookupInv, AsciiEnd \/ AppendConverted
  PROVE  LookupInv'
<1>1. PICK bytes \in {ascii, conv.dest} : sink' = Append8(sink, bytes)
  BY DEF AsciiEnd, AppendConverted
<1>2. /\ UNCHANGED <<call, ascii, labelStart, text>> /\ pc' = "terminate"
      /\ conv' = conv \/ conv' = Idle
  BY DEF AsciiEnd, AppendConverted
<1>3. bytes \in Seq(Unit)
  BY <1>1 DEF LookupInv, AsciiInv, ConversionOK, ConversionSet
<1>4. SinkInv'
  BY <1>1, <1>2, <1>3, Append8Fits DEF LookupInv
<1>5. ConversionOK(conv')
  BY <1>2, IdleOK DEF LookupInv
<1>6. AsciiInv' /\ TextInv'
  BY <1>2 DEF LookupInv, AsciiInv, TextInv
<1> QED BY <1>2, <1>4, <1>5, <1>6 DEF LookupInv

(* AsciiBreak: the label that has begun is converted again.                *)
LEMMA AsciiBreakStep ==
  ASSUME LookupInputs, LookupInv, AsciiBreak
  PROVE  LookupInv'
<1> DEFINE label == SubSeq(ascii, labelStart + 1, Len(ascii))
<1>1. ascii \in Seq(Unit) /\ labelStart \in Nat /\ Len(ascii) \in Nat
  BY DEF LookupInv, AsciiInv
<1>2. label \in Seq(Unit)
  BY <1>1, PartOfText
<1>3. FromUTF8(label) /\ UNCHANGED <<call, ascii, labelStart, text, sink>> /\ pc' = "prefix"
  BY DEF AsciiBreak
<1> HIDE DEF label
<1>4. ConversionOK(conv')
  BY <1>2, <1>3, FromUTF8OK
<1> QED BY <1>3, <1>4, ConversionSteps

(* PrefixConverted.                                                        *)
LEMMA PrefixConvertedStep ==
  ASSUME LookupInputs, LookupInv, PrefixConverted
  PROVE  LookupInv'
<1>1. /\ text' = Result16 /\ sink' = Append8(sink, DoneLabels) /\ FromUTF8(Rest)
      /\ pc' = "rest" /\ UNCHANGED <<call, ascii, labelStart>>
  BY DEF PrefixConverted
<1>2. /\ ascii \in Seq(Unit) /\ labelStart \in Nat /\ labelStart <= Len(ascii)
      /\ Len(ascii) \in Nat /\ Src \in Seq(Unit) /\ Len(Src) \in Nat
  BY CallType DEF LookupInv, AsciiInv
<1>3. DoneLabels \in Seq(Unit) /\ Rest \in Seq(Unit)
  <2>1. DoneLabels \in Seq(Unit)
    BY <1>2, PartOfText DEF DoneLabels
  <2> DEFINE s == Src
  <2>2. s \in Seq(Unit) /\ Len(s) \in Nat
    BY <1>2
  <2>3. Rest = SubSeq(s, labelStart + 1, Len(s))
    BY DEF Rest
  <2> HIDE DEF s
  <2>4. Rest \in Seq(Unit)
    BY <1>2, <2>2, <2>3, PartOfText
  <2> QED BY <2>1, <2>4
<1>4. SinkInv'
  BY <1>1, <1>3, Append8Fits DEF LookupInv
<1>5. ConversionOK(conv')
  BY <1>1, <1>3, FromUTF8OK
<1>6. TextInv'
  BY <1>1, ResultType DEF LookupInv, TextInv
<1>7. AsciiInv' /\ call' \in Calls
  BY <1>1 DEF LookupInv, AsciiInv
<1> QED BY <1>4, <1>5, <1>6, <1>7 DEF LookupInv

(* Process: the text grows by what is mapped, or is left, or is lost.      *)
LEMMA ProcessStep ==
  ASSUME LookupInputs, LookupInv, Process
  PROVE  LookupInv'
<1> DEFINE start == Len(ascii) - labelStart
           rest == SubSeq(Result16, start + 1, Len(Result16))
<1>1. /\ pc' = "sink" /\ conv' = Idle /\ UNCHANGED <<call, ascii, labelStart, sink>>
      /\ \/ text' \in {None, text}
         \/ Result16 # None /\ text # None /\ text' = MappedText(text \o rest)
  BY DEF Process, Fails, LabelLength
<1>2. /\ start \in Nat /\ call \in Calls /\ text \in Seq(Unit) \cup {None}
      /\ Result16 \in Seq(Unit) \cup {None}
  BY ResultType DEF LookupInv, AsciiInv, TextInv
<1>3. TextInv'
  <2>1. CASE text' \in {None, text}
    BY <1>1, <1>2, <2>1 DEF TextInv
  <2>2. CASE Result16 # None /\ text # None /\ text' = MappedText(text \o rest)
    <3> DEFINE r == Result16
    <3>1. r \in Seq(Unit) /\ text \in Seq(Unit) /\ Len(r) \in Nat
      BY <1>2, <2>2
    <3>2. rest = SubSeq(r, start + 1, Len(r))
      OBVIOUS
    <3> HIDE DEF r, start, rest
    <3>3. rest \in Seq(Unit)
      BY <1>2, <3>1, <3>2, PartOfText
    <3>4. text \o rest \in Seq(Unit)
      BY <3>1, <3>3, ConcatProperties
    <3>5. text' \in Seq(Unit)
      BY <1>2, <2>2, <3>4, MappedType
    <3> QED BY <1>1, <3>5 DEF TextInv
  <2> QED BY <1>1, <2>1, <2>2
<1>4. SinkInv'
  BY <1>1, SinkUnchanged DEF LookupInv
<1>5. ConversionOK(conv') /\ AsciiInv' /\ call' \in Calls
  BY <1>1, IdleOK DEF LookupInv, AsciiInv
<1> QED BY <1>3, <1>4, <1>5 DEF LookupInv

(* GetAppendBuffer, ConvertAgain and LoseText: the conversion to UTF-8.    *)
LEMMA ToUTF8Steps ==
  ASSUME LookupInputs, LookupInv, GetAppendBuffer \/ ConvertAgain \/ LoseText
  PROVE  LookupInv'
<1>1. /\ UNCHANGED <<call, ascii, labelStart, text, sink>>
      /\ text \in Seq(Unit) \cup {None} /\ (pc \in {"first", "second"} => text \in Seq(Unit))
      /\ ConversionOK(conv) /\ SinkInv /\ call \in Calls
  BY DEF GetAppendBuffer, ConvertAgain, LoseText, LookupInv, TextInv
<1>2. CASE GetAppendBuffer
  <2> DEFINE n == Len(text)
             min == Min({n, ScratchSize})
             capacity == AppendCapacity(min)
  <2>1. text \in Seq(Unit) /\ conv' = Begins("to", text, capacity)
    BY <1>1, <1>2 DEF GetAppendBuffer
  <2>2. min \in Nat
    <3>1. n \in Nat /\ ScratchSize \in Nat
      BY <2>1, SizesAssumption
    <3> HIDE DEF n
    <3>2. min = IF n <= ScratchSize THEN n ELSE ScratchSize
      BY <3>1, MinOfTwo
    <3> HIDE DEF min
    <3> QED BY <3>1, <3>2
  <2> HIDE DEF min
  <2>3. capacity \in Nat
    <3> DEFINE room == Available
    <3>1. room \in Int
      BY <1>1, CallType DEF Available, SinkInv
    <3>2. capacity = IF room >= min THEN room ELSE ScratchSize
      BY DEF AppendCapacity
    <3> HIDE DEF room, capacity
    <3> QED BY <2>2, <3>1, <3>2, SizesAssumption
  <2> HIDE DEF capacity
  <2>4. ConversionOK(conv')
    BY <2>1, <2>3, BeginsOK
  <2> QED BY <1>1, <2>1, <2>4, ConversionSteps
<1>3. CASE ConvertAgain
  <2> DEFINE n == conv.reqLength
  <2>1. text \in Seq(Unit) /\ n \in Nat /\ conv' = Begins("to", text, n)
    BY <1>1, <1>3 DEF ConvertAgain, ConversionOK, ConversionSet
  <2> HIDE DEF n
  <2>2. ConversionOK(conv')
    BY <2>1, BeginsOK
  <2> QED BY <1>1, <2>1, <2>2, ConversionSteps
<1>4. CASE LoseText
  <2>1. ConversionOK(conv') /\ pc' = "terminate"
    BY <1>4, IdleOK DEF LoseText
  <2> QED BY <1>1, <2>1, ConversionSteps
<1> QED BY <1>2, <1>3, <1>4

(* ConvertStep.                                                            *)
LEMMA ConvertStepStep ==
  ASSUME RealSurrogates, LookupInv, ConvertStep
  PROVE  LookupInv'
<1>1. Convert /\ UNCHANGED <<call, ascii, labelStart, text, sink>> /\ pc' = pc
  BY DEF ConvertStep
<1>2. ConversionOK(conv')
  BY <1>1, ConvertOK DEF LookupInv
<1> QED BY <1>1, <1>2, ConversionSteps

(* Every step of a call.                                                   *)
LEMMA LookupInvStep ==
  ASSUME RealSurrogates, LookupInputs, LookupInv, [Next]_vars
  PROVE  LookupInv'
<1>1. CASE CallWithNull \/ Enter \/ Refuse \/ NothingToAppend \/ Terminate
  <2>1. UNCHANGED <<conv, call, ascii, labelStart, text, sink>>
        /\ pc' \notin {"first", "second"}
    BY <1>1 DEF CallWithNull, Enter, Refuse, NothingToAppend, Terminate
  <2> QED BY <2>1, BareSteps
<1>2. CASE HandOver \/ GiveUp \/ CallerFrees
  <2>1. UNCHANGED <<conv, call, ascii, labelStart, text, sink>>
        /\ pc' \notin {"first", "second"}
    BY <1>2 DEF HandOver, GiveUp, CallerFrees
  <2> QED BY <2>1, BareSteps
<1>3. CASE Done \/ UNCHANGED vars
  <2>1. UNCHANGED <<conv, call, ascii, labelStart, text, sink>> /\ pc' = pc
    BY <1>3 DEF Done, vars
  <2> QED BY <2>1, BareSteps
<1>4. CASE CallProcess
  BY <1>4, CallProcessStep
<1>5. CASE Process16
  BY <1>5, Process16Step
<1>6. CASE Extract
  BY <1>6, ExtractStep
<1>7. CASE AsciiByte
  BY <1>7, AsciiByteStep
<1>8. CASE AsciiEnd \/ AppendConverted
  BY <1>8, AppendSteps
<1>9. CASE AsciiBreak
  BY <1>9, AsciiBreakStep
<1>10. CASE PrefixConverted
  BY <1>10, PrefixConvertedStep
<1>11. CASE Process
  BY <1>11, ProcessStep
<1>12. CASE GetAppendBuffer \/ ConvertAgain \/ LoseText
  BY <1>12, ToUTF8Steps
<1>13. CASE ConvertStep
  BY <1>13, ConvertStepStep
<1> QED BY <1>1, <1>2, <1>3, <1>4, <1>5, <1>6, <1>7, <1>8, <1>9, <1>10, <1>11, <1>12, <1>13
        DEF Next

-----------------------------------------------------------------------------
(* What is promised of a counter is what the rounds of a block allow.      *)
LEMMA CounterWithinRounds ==
  ASSUME NEW k, ConversionOK(k), CounterFits(k)
  PROVE  k.count <= Rounds(k)
<1> DEFINE r == Room(k)
           l == Left(k)
           c == k.count
<1>1. r \in Nat /\ l \in Nat /\ c \in Int /\ k.dir \in {"from", "to"}
  BY LeftAndRoom DEF ConversionOK, ConversionSet
<1>2. Rounds(k) = IF k.dir = "from" THEN Min({r, l \div 3}) ELSE Min({r \div 3, l})
  BY DEF Rounds
<1>3. IF k.dir = "from" THEN c <= r /\ 3 * c <= l ELSE 3 * c <= r /\ c <= l
  BY DEF CounterFits
<1> HIDE DEF r, l, c
<1>4. CASE k.dir = "from"
  <2> DEFINE q == l \div 3
  <2>1. q \in Int /\ c <= q /\ c <= r
    BY <1>1, <1>3, <1>4
  <2> HIDE DEF q
  <2>2. c <= Min({r, q})
    BY <1>1, <2>1, MinOfTwo
  <2> QED BY <1>2, <1>4, <2>2 DEF q, c
<1>5. CASE k.dir = "to"
  <2> DEFINE q == r \div 3
  <2>1. q \in Int /\ c <= q /\ c <= l
    BY <1>1, <1>3, <1>5
  <2> HIDE DEF q
  <2>2. c <= Min({q, l})
    BY <1>1, <2>1, MinOfTwo
  <2> QED BY <1>2, <1>5, <2>2 DEF q, c
<1> QED BY <1>1, <1>4, <1>5

(* The invariant has the property in it.                                   *)
LEMMA LookupInvBounds ==
  ASSUME LookupInv
  PROVE  StaysInBounds /\ SinkStaysInArray
<1>1. ConversionOK(conv) /\ SinkInv
  BY DEF LookupInv
<1>2. Left(conv) \in Nat /\ Room(conv) \in Nat
  BY <1>1, LeftAndRoom
<1>3. conv.pc = "fast" => conv.count <= Rounds(conv)
  <2> HAVE conv.pc = "fast"
  <2>1. CounterFits(conv)
    BY <1>1 DEF ConversionOK
  <2> QED BY <1>1, <2>1, CounterWithinRounds
<1>4. /\ conv.dir \in {"from", "to"} /\ conv.status \in Int
      /\ conv.pc \in {"block", "fast", "slow", "preflight", "returned"}
  BY <1>1 DEF ConversionOK, ConversionSet
<1>5. Left(conv) >= 0 /\ Room(conv) >= 0
  BY <1>2
<1> QED BY <1>1, <1>3, <1>4, <1>5 DEF StaysInBounds, SinkInv

(* In u_strFromUTF8WithSub() and u_strToUTF8WithSub(), called with texts   *)
(* and arrays of any size, the fast loops need no test of an end: their    *)
(* counter never promises more rounds than both arrays have, so that no    *)
(* index leaves its array.                                                 *)
THEOREM LookupStaysInBounds ==
  ASSUME RealSurrogates, LookupInputs
  PROVE  Spec => []StaysInBounds
<1>1. Init => LookupInv
  BY LookupInvInit
<1>2. LookupInv /\ [Next]_vars => LookupInv'
  BY LookupInvStep
<1>3. LookupInv => StaysInBounds
  BY LookupInvBounds
<1> QED BY <1>1, <1>2, <1>3, PTL DEF Spec

(* No function, neither through the byte sink nor through the string that  *)
(* begins on the caller's array, puts anything behind the array's end.     *)
THEOREM ResultStaysInArray ==
  ASSUME RealSurrogates, LookupInputs
  PROVE  Spec => []SinkStaysInArray
<1>1. Init => LookupInv
  BY LookupInvInit
<1>2. LookupInv /\ [Next]_vars => LookupInv'
  BY LookupInvStep
<1>3. LookupInv => SinkStaysInArray
  BY LookupInvBounds
<1> QED BY <1>1, <1>2, <1>3, PTL DEF Spec

-----------------------------------------------------------------------------
(* What a conversion writes.  The definitions and the loops are recursive  *)
(* in ways of their own; so that they can be compared, each is shown to be *)
(* the text that the characters from index 0 on are converted to.          *)

(* The character at an index, in either direction.                         *)
PieceAt(dir, s, i) == IF dir = "from" THEN NextOfUTF8(s, i, Len(s)) ELSE NextOfUTF16(s, i)

(* What the characters from every index on are converted to.               *)
TextFrom(dir, s) ==
  LET f[i \in 0 .. Len(s)] ==
        IF i = Len(s) THEN <<>>
        ELSE PieceAt(dir, s, i).text \o f[PieceAt(dir, s, i).next]
  IN  f

WholeText(k) == TextFrom(k.dir, k.src)[0]

(* Nothing but the end of the array keeps the next character out.          *)
CutAtCapacity(k) ==
  \/ Len(k.dest) = Len(WholeText(k))
  \/ IF k.dir = "from" THEN Len(k.dest) = k.capacity
     ELSE Len(k.dest) + SequenceLength(WholeText(k)[Len(k.dest) + 1]) > k.capacity

(* What is written is the beginning of the whole text.                    *)
BeginsWhole(k) == k.dest = SubSeq(WholeText(k), 1, Len(k.dest))

(* The whole text is what is written and what is left; from the end of the *)
(* array on only the length of what is left is kept.                       *)
WrittenInv(k) ==
  /\ k.pc \in {"block", "fast", "slow"} =>
       k.reqLength = 0 /\ WholeText(k) = k.dest \o TextFrom(k.dir, k.src)[k.i]
  /\ k.pc = "preflight" =>
       /\ BeginsWhole(k) /\ CutAtCapacity(k)
       /\ Len(WholeText(k)) =
            Len(k.dest) + k.reqLength + Len(TextFrom(k.dir, k.src)[k.i])
  /\ k.pc = "returned" =>
       /\ BeginsWhole(k) /\ CutAtCapacity(k)
       /\ k.reqLength = Len(WholeText(k))
       /\ k.status = TerminateStatus(k.capacity, Len(WholeText(k)), U_ZERO_ERROR)

(* A text by its pieces: each index tells where the next piece begins.     *)
IsChain(f, L, next, piece) ==
  /\ f[L] = <<>>
  /\ \A i \in 0 .. L - 1 : f[i] = piece[i] \o f[next[i]]

Forward(next, L) ==
  /\ next \in [0 .. L - 1 -> Nat]
  /\ \A i \in 0 .. L - 1 : i < next[i] /\ next[i] <= L

(* There is such a text.                                                   *)
LEMMA ChainExists ==
  ASSUME NEW S, NEW L \in Nat, NEW next, Forward(next, L),
         NEW piece \in [0 .. L - 1 -> Seq(S)]
  PROVE  \E f \in [0 .. L -> Seq(S)] : IsChain(f, L, next, piece)
<1> DEFINE Part(m, f) ==
             /\ f \in [m .. L -> Seq(S)] /\ f[L] = <<>>
             /\ \A i \in m .. L - 1 : f[i] = piece[i] \o f[next[i]]
           bad == {d \in 0 .. L : ~\E f : Part(L - d, f)}
<1> HIDE DEF Part
<1>1. SUFFICES bad = {}
  <2>1. L \in 0 .. L /\ L - L = 0
    OBVIOUS
  <2>2. \E f : Part(0, f)
    BY <1>1, <2>1
  <2> QED BY <2>2 DEF IsChain, Part
<1>2. SUFFICES ASSUME bad # {} PROVE FALSE
  OBVIOUS
<1>3. PICK d \in bad : \A y \in bad : d <= y
  <2>1. bad \in SUBSET Nat
    OBVIOUS
  <2> HIDE DEF bad
  <2> QED BY <1>2, <2>1, NatHasLeast
<1>4. d \in 0 .. L /\ ~\E f : Part(L - d, f)
  BY <1>3
<1>5. d # 0
  <2> DEFINE f == [i \in L .. L |-> <<>>]
  <2>1. Part(L, f)
    <3>1. f \in [L .. L -> Seq(S)] /\ f[L] = <<>> /\ L .. L - 1 = {}
      BY EmptySeq
    <3> QED BY <3>1 DEF Part
  <2>2. L - 0 = L
    OBVIOUS
  <2> HIDE DEF f
  <2> QED BY <1>4, <2>1, <2>2
<1> DEFINE m == L - d
<1>6. m \in Nat /\ m < L /\ L - (d - 1) = m + 1 /\ d - 1 \in 0 .. L
  BY <1>4, <1>5
<1>7. PICK f : Part(m + 1, f)
  <2>1. d - 1 \notin bad
    <3>1. d \in Nat /\ ~(d <= d - 1)
      BY <1>4
    <3> HIDE DEF bad
    <3> QED BY <1>3, <3>1
  <2> QED BY <1>6, <2>1
<1> HIDE DEF bad, m
<1> DEFINE g == [i \in m .. L |-> IF i = m THEN piece[m] \o f[next[m]] ELSE f[i]]
<1>8. /\ f \in [m + 1 .. L -> Seq(S)] /\ f[L] = <<>>
      /\ \A i \in m + 1 .. L - 1 : f[i] = piece[i] \o f[next[i]]
  BY <1>7 DEF Part
<1>9. \A i \in m .. L - 1 : i \in 0 .. L - 1 /\ next[i] \in m + 1 .. L /\ piece[i] \in Seq(S)
  BY <1>6 DEF Forward
<1>10. \A i \in m + 1 .. L : g[i] = f[i] /\ g[i] \in Seq(S)
  <2> SUFFICES ASSUME NEW i \in m + 1 .. L PROVE g[i] = f[i] /\ g[i] \in Seq(S)
    OBVIOUS
  <2>1. i \in m .. L /\ i # m
    BY <1>6
  <2>2. g[i] = f[i]
    BY <2>1
  <2> HIDE DEF g
  <2> QED BY <1>8, <2>2
<1>11. g[m] = piece[m] \o f[next[m]] /\ g[m] \in Seq(S)
  <2>1. m \in m .. L /\ m \in m .. L - 1
    BY <1>6
  <2>2. piece[m] \in Seq(S) /\ f[next[m]] \in Seq(S)
    BY <1>8, <1>9, <2>1
  <2>3. piece[m] \o f[next[m]] \in Seq(S)
    BY <2>2, ConcatProperties
  <2> QED BY <2>1, <2>3
<1>12. g \in [m .. L -> Seq(S)]
  <2>1. \A i \in m .. L : i = m \/ i \in m + 1 .. L
    BY <1>6
  <2>2. \A i \in m .. L : g[i] \in Seq(S)
    BY <1>10, <1>11, <2>1, Zenon
  <2>3. DOMAIN g = m .. L /\ g = [i \in m .. L |-> g[i]]
    OBVIOUS
  <2> HIDE DEF g
  <2> QED BY <2>2, <2>3
<1>13. \A i \in m .. L - 1 : g[i] = piece[i] \o g[next[i]]
  <2> SUFFICES ASSUME NEW i \in m .. L - 1 PROVE g[i] = piece[i] \o g[next[i]]
    OBVIOUS
  <2>1. g[next[i]] = f[next[i]]
    BY <1>9, <1>10
  <2>2. i = m \/ i \in m + 1 .. L - 1
    BY <1>6
  <2>3. i \in m + 1 .. L - 1 => g[i] = f[i]
    BY <1>6, <1>10
  <2> HIDE DEF g
  <2> QED BY <1>8, <1>11, <2>1, <2>2, <2>3, Zenon
<1>14. g[L] = <<>>
  <2>1. L \in m + 1 .. L
    BY <1>6
  <2> HIDE DEF g
  <2> QED BY <1>8, <1>10, <2>1
<1>15. Part(m, g)
  <2> HIDE DEF g
  <2> QED BY <1>12, <1>13, <1>14 DEF Part
<1> QED BY <1>4, <1>15 DEF m

(* There is only one.                                                      *)
LEMMA ChainIsUnique ==
  ASSUME NEW L \in Nat, NEW next, Forward(next, L), NEW piece
  PROVE  \A f, g : IsChain(f, L, next, piece) /\ IsChain(g, L, next, piece)
                     => \A i \in 0 .. L : f[i] = g[i]
<1> SUFFICES ASSUME NEW f, NEW g, IsChain(f, L, next, piece), IsChain(g, L, next, piece)
             PROVE  \A i \in 0 .. L : f[i] = g[i]
  OBVIOUS
<1> DEFINE bad == {i \in 0 .. L : f[i] # g[i]}
<1>1. SUFFICES ASSUME bad # {} PROVE FALSE
  OBVIOUS
<1>2. \E i \in bad : \A y \in bad : y <= i
  <2>1. bad \in SUBSET (0 .. L) /\ L \in Int
    OBVIOUS
  <2> HIDE DEF bad
  <2> QED BY <1>1, <2>1, RangeHasGreatest
<1>3. PICK i \in bad : \A y \in bad : y <= i
  BY <1>2
<1>4. i \in 0 .. L /\ f[i] # g[i]
  BY <1>3
<1>5. i # L
  BY <1>4 DEF IsChain
<1>6. i \in 0 .. L - 1 /\ next[i] \in 0 .. L /\ next[i] > i
  BY <1>4, <1>5 DEF Forward
<1>7. next[i] \notin bad
  <2>1. ~(next[i] <= i)
    BY <1>4, <1>6
  <2> HIDE DEF bad
  <2> QED BY <1>3, <2>1
<1>8. f[next[i]] = g[next[i]]
  BY <1>6, <1>7
<1> QED BY <1>4, <1>6, <1>8 DEF IsChain

(* A piece leads on and is not empty.                                      *)
LEMMA PieceLeadsOn ==
  ASSUME RealSurrogates, NEW dir \in {"from", "to"}, NEW s \in Seq(Unit),
         NEW i \in 0 .. Len(s) - 1
  PROVE  /\ PieceAt(dir, s, i).next \in Nat
         /\ i < PieceAt(dir, s, i).next /\ PieceAt(dir, s, i).next <= Len(s)
         /\ PieceAt(dir, s, i).text \in Seq(Unit) /\ Len(PieceAt(dir, s, i).text) > 0
<1>1. CASE dir = "from"
  <2>1. Fits(NextOfUTF8(s, i, Len(s)), s, i, 3, 4, 1, 2)
    BY PieceOfUTF8
  <2>2. PieceAt(dir, s, i) = NextOfUTF8(s, i, Len(s))
    BY <1>1 DEF PieceAt
  <2> QED BY <2>1, <2>2 DEF Fits, Reads, Writes
<1>2. CASE dir = "to"
  <2>1. Fits(NextOfUTF16(s, i), s, i, 1, 2, 3, 4)
    BY PieceOfUTF16
  <2>2. PieceAt(dir, s, i) = NextOfUTF16(s, i)
    BY <1>2 DEF PieceAt
  <2> QED BY <2>1, <2>2 DEF Fits, Reads, Writes
<1> QED BY <1>1, <1>2

(* The text of a conversion by its pieces, as the lemmas on chains say it. *)
Nexts(dir, s) == [i \in 0 .. Len(s) - 1 |-> PieceAt(dir, s, i).next]
PieceTexts(dir, s) == [i \in 0 .. Len(s) - 1 |-> PieceAt(dir, s, i).text]

(* Every character of either encoding leads on to a later index.           *)
LEMMA PiecesAreForward ==
  ASSUME RealSurrogates, NEW dir \in {"from", "to"}, NEW s \in Seq(Unit)
  PROVE  /\ PieceTexts(dir, s) \in [0 .. Len(s) - 1 -> Seq(Unit)]
         /\ Forward(Nexts(dir, s), Len(s))
         /\ \A i \in 0 .. Len(s) - 1 : /\ Nexts(dir, s)[i] = PieceAt(dir, s, i).next
                                       /\ PieceTexts(dir, s)[i] = PieceAt(dir, s, i).text
<1>1. \A i \in 0 .. Len(s) - 1 :
        /\ PieceAt(dir, s, i).next \in Nat
        /\ i < PieceAt(dir, s, i).next /\ PieceAt(dir, s, i).next <= Len(s)
        /\ PieceAt(dir, s, i).text \in Seq(Unit)
  BY PieceLeadsOn
<1> QED BY <1>1 DEF Nexts, PieceTexts, Forward

(* TextFrom() is that chain.                                               *)
LEMMA TextIsChain ==
  ASSUME RealSurrogates, NEW dir \in {"from", "to"}, NEW s \in Seq(Unit)
  PROVE  /\ TextFrom(dir, s) \in [0 .. Len(s) -> Seq(Unit)]
         /\ IsChain(TextFrom(dir, s), Len(s), Nexts(dir, s), PieceTexts(dir, s))
<1> DEFINE L == Len(s)
           IsText(f) == f = [i \in 0 .. Len(s) |->
                               IF i = Len(s) THEN <<>>
                               ELSE PieceAt(dir, s, i).text \o f[PieceAt(dir, s, i).next]]
           chain == CHOOSE f : IsText(f)
<1>1. L \in Nat
  OBVIOUS
<1>2. TextFrom(dir, s) = chain
  BY Zenon DEF TextFrom
<1>3. PICK f \in [0 .. L -> Seq(Unit)] : IsChain(f, L, Nexts(dir, s), PieceTexts(dir, s))
  BY <1>1, PiecesAreForward, ChainExists
<1>4. IsText(f)
  <2>1. \A i \in 0 .. L :
          f[i] = IF i = L THEN <<>>
                 ELSE PieceAt(dir, s, i).text \o f[PieceAt(dir, s, i).next]
    <3> SUFFICES ASSUME NEW i \in 0 .. L, i # L
                 PROVE  f[i] = PieceAt(dir, s, i).text \o f[PieceAt(dir, s, i).next]
      BY <1>3 DEF IsChain
    <3>1. i \in 0 .. L - 1
      BY <1>1
    <3> QED BY <1>3, <3>1, PiecesAreForward DEF IsChain
  <2>2. f = [i \in 0 .. L |-> f[i]]
    BY <1>3
  <2>3. f = [i \in 0 .. L |->
               IF i = L THEN <<>>
               ELSE PieceAt(dir, s, i).text \o f[PieceAt(dir, s, i).next]]
    BY <2>1, <2>2
  <2> QED BY <2>3, Zenon
<1>5. IsText(chain)
  <2> HIDE DEF IsText
  <2> QED BY <1>4
<1> DEFINE t == chain
<1> HIDE DEF chain, t
<1>6. \A i \in 0 .. L : t[i] = IF i = L THEN <<>>
                               ELSE PieceAt(dir, s, i).text \o t[PieceAt(dir, s, i).next]
  <2>1. t = [i \in 0 .. L |-> IF i = L THEN <<>>
                              ELSE PieceAt(dir, s, i).text \o t[PieceAt(dir, s, i).next]]
    BY <1>5, Zenon DEF t
  <2> QED BY <2>1
<1>7. IsChain(t, L, Nexts(dir, s), PieceTexts(dir, s))
  <2>1. t[L] = <<>>
    BY <1>1, <1>6
  <2>2. ASSUME NEW i \in 0 .. L - 1
        PROVE  t[i] = PieceTexts(dir, s)[i] \o t[Nexts(dir, s)[i]]
    <3>1. i \in 0 .. L /\ i # L
      BY <1>1
    <3>2. t[i] = PieceAt(dir, s, i).text \o t[PieceAt(dir, s, i).next]
      BY <1>6, <3>1, Zenon
    <3> QED BY <3>2, PiecesAreForward
  <2> QED BY <2>1, <2>2 DEF IsChain
<1>8. \A i \in 0 .. L : t[i] = f[i]
  <2>1. Forward(Nexts(dir, s), L)
    BY PiecesAreForward
  <2>2. IsChain(f, L, Nexts(dir, s), PieceTexts(dir, s))
    BY <1>3
  <2> DEFINE next == Nexts(dir, s)
             piece == PieceTexts(dir, s)
  <2>3. Forward(next, L)
    BY <2>1
  <2>4. IsChain(t, L, next, piece)
    BY <1>7
  <2>5. IsChain(f, L, next, piece)
    BY <2>2
  <2> HIDE DEF next, piece, L, IsText
  <2>6. \A h, g : IsChain(h, L, next, piece) /\ IsChain(g, L, next, piece)
                   => \A i \in 0 .. L : h[i] = g[i]
    BY <1>1, <2>3, ChainIsUnique
  <2> QED BY <2>4, <2>5, <2>6, Zenon
<1>9. t \in [0 .. L -> Seq(Unit)]
  <2>1. t = [i \in 0 .. L |-> IF i = L THEN <<>>
                              ELSE PieceAt(dir, s, i).text \o t[PieceAt(dir, s, i).next]]
    BY <1>5, Zenon DEF t
  <2>2. DOMAIN t = 0 .. L /\ t = [i \in 0 .. L |-> t[i]]
    BY <2>1
  <2> QED BY <1>3, <1>8, <2>2
<1> QED BY <1>2, <1>7, <1>9 DEF t

(* What the index of a conversion adds to the text that is left.           *)
LEMMA TextByPieces ==
  ASSUME RealSurrogates, NEW dir \in {"from", "to"}, NEW s \in Seq(Unit)
  PROVE  /\ TextFrom(dir, s)[Len(s)] = <<>>
         /\ \A i \in 0 .. Len(s) : TextFrom(dir, s)[i] \in Seq(Unit)
         /\ \A i \in 0 .. Len(s) - 1 :
              TextFrom(dir, s)[i] =
                PieceAt(dir, s, i).text \o TextFrom(dir, s)[PieceAt(dir, s, i).next]
<1> DEFINE f == TextFrom(dir, s)
           next == Nexts(dir, s)
           piece == PieceTexts(dir, s)
<1>1. f \in [0 .. Len(s) -> Seq(Unit)] /\ IsChain(f, Len(s), next, piece)
  BY TextIsChain
<1>2. \A i \in 0 .. Len(s) - 1 : /\ next[i] = PieceAt(dir, s, i).next
                                /\ piece[i] = PieceAt(dir, s, i).text
  BY PiecesAreForward
<1> HIDE DEF f, next, piece
<1>3. f[Len(s)] = <<>> /\ \A i \in 0 .. Len(s) - 1 : f[i] = piece[i] \o f[next[i]]
  BY <1>1 DEF IsChain
<1>4. \A i \in 0 .. Len(s) - 1 : f[i] = PieceAt(dir, s, i).text \o f[PieceAt(dir, s, i).next]
  BY <1>2, <1>3, Zenon
<1> QED BY <1>1, <1>3, <1>4 DEF f

-----------------------------------------------------------------------------
(* The table of well-formed sequences, against which DecodedText() reads,  *)
(* and the tests that ValidLength() makes.                                 *)
(* The tests on the first n bytes.                                         *)
MayStand(b, n) ==
  /\ n <= SequenceLength(b[1])
  /\ n > 1 => MayFollow(b[1], b[2])
  /\ n > 2 => IsTrailByte(b[3])
  /\ n > 3 => IsTrailByte(b[4])

RowFits(m, A1, A2, A3, A4, b, n) ==
  /\ n <= m /\ b[1] \in A1
  /\ (n > 1 => b[2] \in A2) /\ (n > 2 => b[3] \in A3) /\ (n > 3 => b[4] \in A4)

(* The rows of the table, one by one.                                      *)
LEMMA RowOfLength1 ==
  ASSUME NEW A1, NEW b, NEW n \in 1 .. 4
  PROVE  (n <= Len(<<A1>>) /\ \A k \in 1 .. n : b[k] \in <<A1>>[k])
           <=> RowFits(1, A1, {}, {}, {}, b, n)
<1> DEFINE r == <<A1>>
<1>1. Len(r) = 1 /\ r[1] = A1
  OBVIOUS
<1> HIDE DEF r
<1> SUFFICES (n <= Len(r) /\ \A k \in 1 .. n : b[k] \in r[k]) <=> RowFits(1, A1, {}, {}, {}, b, n)
  BY DEF r
<1> QED BY <1>1 DEF RowFits

(* The same for two bytes.                                                 *)
LEMMA RowOfLength2 ==
  ASSUME NEW A1, NEW A2, NEW b, NEW n \in 1 .. 4
  PROVE  (n <= Len(<<A1, A2>>) /\ \A k \in 1 .. n : b[k] \in <<A1, A2>>[k])
           <=> RowFits(2, A1, A2, {}, {}, b, n)
<1> DEFINE r == <<A1, A2>>
<1>1. Len(r) = 2 /\ r[1] = A1 /\ r[2] = A2
  OBVIOUS
<1> HIDE DEF r
<1> SUFFICES (n <= Len(r) /\ \A k \in 1 .. n : b[k] \in r[k]) <=> RowFits(2, A1, A2, {}, {}, b, n)
  BY DEF r
<1> QED BY <1>1 DEF RowFits

(* The same for three bytes.                                               *)
LEMMA RowOfLength3 ==
  ASSUME NEW A1, NEW A2, NEW A3, NEW b, NEW n \in 1 .. 4
  PROVE  (n <= Len(<<A1, A2, A3>>) /\ \A k \in 1 .. n : b[k] \in <<A1, A2, A3>>[k])
           <=> RowFits(3, A1, A2, A3, {}, b, n)
<1> DEFINE r == <<A1, A2, A3>>
<1>1. Len(r) = 3 /\ r[1] = A1 /\ r[2] = A2 /\ r[3] = A3
  OBVIOUS
<1> HIDE DEF r
<1> SUFFICES (n <= Len(r) /\ \A k \in 1 .. n : b[k] \in r[k]) <=> RowFits(3, A1, A2, A3, {}, b, n)
  BY DEF r
<1> QED BY <1>1 DEF RowFits

(* The same for four bytes.                                                *)
LEMMA RowOfLength4 ==
  ASSUME NEW A1, NEW A2, NEW A3, NEW A4, NEW b, NEW n \in 1 .. 4
  PROVE  (n <= Len(<<A1, A2, A3, A4>>) /\ \A k \in 1 .. n : b[k] \in <<A1, A2, A3, A4>>[k])
           <=> RowFits(4, A1, A2, A3, A4, b, n)
<1> DEFINE r == <<A1, A2, A3, A4>>
<1>1. Len(r) = 4 /\ r[1] = A1 /\ r[2] = A2 /\ r[3] = A3 /\ r[4] = A4
  OBVIOUS
<1> HIDE DEF r
<1> SUFFICES (n <= Len(r) /\ \A k \in 1 .. n : b[k] \in r[k]) <=> RowFits(4, A1, A2, A3, A4, b, n)
  BY DEF r
<1> QED BY <1>1 DEF RowFits

(* A sequence of the table begins with these bytes.                        *)
TableHas(b, n, m) ==
  \/ m = 1 /\ RowFits(1, 0 .. 127, {}, {}, {}, b, n)
  \/ m = 2 /\ RowFits(2, 194 .. 223, Trail, {}, {}, b, n)
  \/ m = 3 /\ RowFits(3, {224}, 160 .. 191, Trail, {}, b, n)
  \/ m = 3 /\ RowFits(3, 225 .. 236, Trail, Trail, {}, b, n)
  \/ m = 3 /\ RowFits(3, {237}, 128 .. 159, Trail, {}, b, n)
  \/ m = 3 /\ RowFits(3, 238 .. 239, Trail, Trail, {}, b, n)
  \/ m = 4 /\ RowFits(4, {240}, 144 .. 191, Trail, Trail, b, n)
  \/ m = 4 /\ RowFits(4, 241 .. 243, Trail, Trail, Trail, b, n)
  \/ m = 4 /\ RowFits(4, {244}, 128 .. 143, Trail, Trail, b, n)

(* The table as nine rows of four ranges of bytes.                         *)
LEMMA TableByRows ==
  ASSUME NEW b, NEW n \in 1 .. 4, NEW m \in 1 .. 4
  PROVE  (\E r \in WellFormedSequences :
            /\ n <= Len(r) /\ \A k \in 1 .. n : b[k] \in r[k]
            /\ Len(r) = m)
           <=> TableHas(b, n, m)
<1> DEFINE Row(r) == n <= Len(r) /\ \A k \in 1 .. n : b[k] \in r[k]
           T == Trail
<1> HIDE DEF T
<1>1. \A A1 : Len(<<A1>>) = 1 /\ (Row(<<A1>>) <=> RowFits(1, A1, {}, {}, {}, b, n))
  BY RowOfLength1
<1>2. \A A1, A2 : /\ Len(<<A1, A2>>) = 2
                  /\ Row(<<A1, A2>>) <=> RowFits(2, A1, A2, {}, {}, b, n)
  BY RowOfLength2
<1>3. \A A1, A2, A3 : /\ Len(<<A1, A2, A3>>) = 3
                      /\ Row(<<A1, A2, A3>>) <=> RowFits(3, A1, A2, A3, {}, b, n)
  BY RowOfLength3
<1>4. \A A1, A2, A3, A4 : /\ Len(<<A1, A2, A3, A4>>) = 4
                          /\ Row(<<A1, A2, A3, A4>>) <=> RowFits(4, A1, A2, A3, A4, b, n)
  BY RowOfLength4
<1> DEFINE r1 == <<0 .. 127>>
           r2 == <<194 .. 223, T>>
           r3 == <<{224}, 160 .. 191, T>>
           r4 == <<225 .. 236, T, T>>
           r5 == <<{237}, 128 .. 159, T>>
           r6 == <<238 .. 239, T, T>>
           r7 == <<{240}, 144 .. 191, T, T>>
           r8 == <<241 .. 243, T, T, T>>
           r9 == <<{244}, 128 .. 143, T, T>>
<1> HIDE DEF Row
<1>5. WellFormedSequences = {r1, r2, r3, r4, r5, r6, r7, r8, r9}
  BY Zenon DEF WellFormedSequences, T
<1>6. /\ Len(r1) = 1 /\ (Row(r1) <=> RowFits(1, 0 .. 127, {}, {}, {}, b, n))
      /\ Len(r2) = 2 /\ (Row(r2) <=> RowFits(2, 194 .. 223, T, {}, {}, b, n))
  BY <1>1, <1>2, Zenon
<1>7. /\ Len(r3) = 3 /\ (Row(r3) <=> RowFits(3, {224}, 160 .. 191, T, {}, b, n))
      /\ Len(r4) = 3 /\ (Row(r4) <=> RowFits(3, 225 .. 236, T, T, {}, b, n))
      /\ Len(r5) = 3 /\ (Row(r5) <=> RowFits(3, {237}, 128 .. 159, T, {}, b, n))
      /\ Len(r6) = 3 /\ (Row(r6) <=> RowFits(3, 238 .. 239, T, T, {}, b, n))
  BY <1>3, Zenon
<1>8. /\ Len(r7) = 4 /\ (Row(r7) <=> RowFits(4, {240}, 144 .. 191, T, T, b, n))
      /\ Len(r8) = 4 /\ (Row(r8) <=> RowFits(4, 241 .. 243, T, T, T, b, n))
      /\ Len(r9) = 4 /\ (Row(r9) <=> RowFits(4, {244}, 128 .. 143, T, T, b, n))
  BY <1>4, Zenon
<1> HIDE DEF r1, r2, r3, r4, r5, r6, r7, r8, r9
<1>9. (\E r \in WellFormedSequences : Row(r) /\ Len(r) = m) <=> TableHas(b, n, m)
  <2> DEFINE Has(r) == Row(r) /\ Len(r) = m
  <2>1. (\E r \in WellFormedSequences : Has(r)) <=>
          \/ Has(r1) \/ Has(r2) \/ Has(r3) \/ Has(r4) \/ Has(r5)
          \/ Has(r6) \/ Has(r7) \/ Has(r8) \/ Has(r9)
    <3> HIDE DEF Has
    <3> QED BY <1>5, Zenon
  <2>2. /\ Has(r1) <=> m = 1 /\ RowFits(1, 0 .. 127, {}, {}, {}, b, n)
        /\ Has(r2) <=> m = 2 /\ RowFits(2, 194 .. 223, T, {}, {}, b, n)
    BY <1>6, Zenon
  <2>3. /\ Has(r3) <=> m = 3 /\ RowFits(3, {224}, 160 .. 191, T, {}, b, n)
        /\ Has(r4) <=> m = 3 /\ RowFits(3, 225 .. 236, T, T, {}, b, n)
        /\ Has(r5) <=> m = 3 /\ RowFits(3, {237}, 128 .. 159, T, {}, b, n)
        /\ Has(r6) <=> m = 3 /\ RowFits(3, 238 .. 239, T, T, {}, b, n)
    BY <1>7, Zenon
  <2>4. /\ Has(r7) <=> m = 4 /\ RowFits(4, {240}, 144 .. 191, T, T, b, n)
        /\ Has(r8) <=> m = 4 /\ RowFits(4, 241 .. 243, T, T, T, b, n)
        /\ Has(r9) <=> m = 4 /\ RowFits(4, {244}, 128 .. 143, T, T, b, n)
    BY <1>8, Zenon
  <2>5. (\E r \in WellFormedSequences : Has(r)) <=> TableHas(b, n, m)
    <3> HIDE DEF Has
    <3>1. TableHas(b, n, m) <=>
            \/ Has(r1) \/ Has(r2) \/ Has(r3) \/ Has(r4) \/ Has(r5)
            \/ Has(r6) \/ Has(r7) \/ Has(r8) \/ Has(r9)
      BY <2>2, <2>3, <2>4 DEF TableHas, T
    <3> QED BY <2>1, <3>1
  <2> QED BY <2>5
<1> QED BY <1>9 DEF Row

(* A test on each byte tells the same as the rows.                         *)
LEMMA FollowersByRange ==
  ASSUME NEW x \in Nat, NEW y \in Nat
  PROVE  /\ x < 194 => SequenceLength(x) = 1
         /\ x > 244 => SequenceLength(x) = 1
         /\ x \in 194 .. 223 => SequenceLength(x) = 2 /\ (MayFollow(x, y) <=> y \in 128 .. 191)
         /\ x = 224 => SequenceLength(x) = 3 /\ (MayFollow(x, y) <=> y \in 160 .. 191)
         /\ x \in 225 .. 236 => SequenceLength(x) = 3 /\ (MayFollow(x, y) <=> y \in 128 .. 191)
         /\ x = 237 => SequenceLength(x) = 3 /\ (MayFollow(x, y) <=> y \in 128 .. 159)
         /\ x \in 238 .. 239 => SequenceLength(x) = 3 /\ (MayFollow(x, y) <=> y \in 128 .. 191)
         /\ x = 240 => SequenceLength(x) = 4 /\ (MayFollow(x, y) <=> y \in 144 .. 191)
         /\ x \in 241 .. 243 => SequenceLength(x) = 4 /\ (MayFollow(x, y) <=> y \in 128 .. 191)
         /\ x = 244 => SequenceLength(x) = 4 /\ (MayFollow(x, y) <=> y \in 128 .. 143)
<1>1. /\ x < 194 \/ x > 244 => SequenceLength(x) = 1
      /\ x \in 194 .. 223 => SequenceLength(x) = 2
      /\ x \in 224 .. 239 => SequenceLength(x) = 3
      /\ x \in 240 .. 244 => SequenceLength(x) = 4
  BY DEF SequenceLength
<1>2. x \in 194 .. 223 => (MayFollow(x, y) <=> y \in 128 .. 191)
  BY DEF MayFollow, IsTrailByte
<1>3. x \in 224 .. 239 => (MayFollow(x, y) <=> y \div 32 \in Lead3Trails(x))
  BY DEF MayFollow
<1>4. /\ x = 224 => Lead3Trails(x) = {5}
      /\ x = 237 => Lead3Trails(x) = {4}
      /\ x # 224 /\ x # 237 => Lead3Trails(x) = {4, 5}
  BY DEF Lead3Trails
<1>5. /\ y \div 32 = 5 <=> y \in 160 .. 191
      /\ y \div 32 = 4 <=> y \in 128 .. 159
  OBVIOUS
<1>6. /\ x = 224 => (MayFollow(x, y) <=> y \in 160 .. 191)
      /\ x = 237 => (MayFollow(x, y) <=> y \in 128 .. 159)
      /\ x \in 225 .. 236 \cup 238 .. 239 => (MayFollow(x, y) <=> y \in 128 .. 191)
  BY <1>3, <1>4, <1>5
<1>7. x >= 240 => (MayFollow(x, y) <=> x \in Lead4Leads(y))
  BY DEF MayFollow
<1>8. /\ y \div 16 = 8 => Lead4Leads(y) = 241 .. 244
      /\ y \div 16 \in 9 .. 11 => Lead4Leads(y) = 240 .. 243
      /\ y \div 16 # 8 /\ y \div 16 \notin 9 .. 11 => Lead4Leads(y) = {}
  BY DEF Lead4Leads
<1>9. /\ y \div 16 = 8 <=> y \in 128 .. 143
      /\ y \div 16 \in 9 .. 11 <=> y \in 144 .. 191
  OBVIOUS
<1>10. /\ x = 240 => (MayFollow(x, y) <=> y \in 144 .. 191)
       /\ x \in 241 .. 243 => (MayFollow(x, y) <=> y \in 128 .. 191)
       /\ x = 244 => (MayFollow(x, y) <=> y \in 128 .. 143)
  BY <1>7, <1>8, <1>9
<1> QED BY <1>1, <1>2, <1>6, <1>10

(* n bytes begin a row of the table exactly when the tests let them.       *)
LEMMA TableIsTests ==
  ASSUME NEW b, \A k \in 1 .. 4 : b[k] \in Nat, NEW n \in 1 .. 4
  PROVE  /\ n = 1 => ((\E m \in 1 .. 4 : TableHas(b, n, m)) => MayStand(b, n))
         /\ n > 1 => ((\E m \in 1 .. 4 : TableHas(b, n, m)) <=> MayStand(b, n))
         /\ TableHas(b, n, n) <=>
              MayStand(b, n) /\ n = SequenceLength(b[1]) /\ (n > 1 \/ b[1] < 128)
<1> DEFINE x == b[1]
           y == b[2]
           z == b[3]
           w == b[4]
           rest == (n > 2 => z \in 128 .. 191) /\ (n > 3 => w \in 128 .. 191)
<1>1. x \in Nat /\ y \in Nat /\ z \in Nat /\ w \in Nat
  OBVIOUS
<1>2. MayStand(b, n) <=> n <= SequenceLength(x) /\ (n > 1 => MayFollow(x, y)) /\ rest
  BY DEF MayStand, IsTrailByte
<1>3. \A m : TableHas(b, n, m) <=>
         \/ m = 1 /\ n <= 1 /\ x \in 0 .. 127
         \/ m = 2 /\ n <= 2 /\ x \in 194 .. 223 /\ (n > 1 => y \in 128 .. 191)
         \/ m = 3 /\ n <= 3 /\ x = 224 /\ (n > 1 => y \in 160 .. 191) /\ rest
         \/ m = 3 /\ n <= 3 /\ x \in 225 .. 236 /\ (n > 1 => y \in 128 .. 191) /\ rest
         \/ m = 3 /\ n <= 3 /\ x = 237 /\ (n > 1 => y \in 128 .. 159) /\ rest
         \/ m = 3 /\ n <= 3 /\ x \in 238 .. 239 /\ (n > 1 => y \in 128 .. 191) /\ rest
         \/ m = 4 /\ n <= 4 /\ x = 240 /\ (n > 1 => y \in 144 .. 191) /\ rest
         \/ m = 4 /\ n <= 4 /\ x \in 241 .. 243 /\ (n > 1 => y \in 128 .. 191) /\ rest
         \/ m = 4 /\ n <= 4 /\ x = 244 /\ (n > 1 => y \in 128 .. 143) /\ rest
  BY DEF TableHas, RowFits, Trail
<1> HIDE DEF x, y, z, w, rest
<1>4. n <= 2 => rest
  BY DEF rest
<1>5. n = 1 => MayStand(b, n)
  <2>1. SequenceLength(x) >= 1
    BY <1>1, FollowersByRange
  <2> QED BY <1>2, <1>4, <2>1
<1>6. n > 1 => ((\E m \in 1 .. 4 : TableHas(b, n, m)) <=> MayStand(b, n))
  BY <1>1, <1>2, <1>3, <1>4, FollowersByRange
<1>7. TableHas(b, n, n) <=> MayStand(b, n) /\ n = SequenceLength(x) /\ (n > 1 \/ x < 128)
  BY <1>1, <1>2, <1>3, <1>4, FollowersByRange
<1> QED BY <1>5, <1>6, <1>7 DEF x

FirstBytes(s, i) == [k \in 1 .. 4 |-> ByteAt(s, i + k - 1)]

(* What stands at an index are units as long as the text reaches.          *)
LEMMA FirstBytesAreUnits ==
  ASSUME NEW s \in Seq(Unit), NEW i \in 0 .. Len(s) - 1
  PROVE  /\ \A k \in 1 .. 4 : FirstBytes(s, i)[k] \in Nat
         /\ \A k \in 1 .. 4 : i + k <= Len(s) => FirstBytes(s, i)[k] = s[i + k]
         /\ FirstBytes(s, i)[1] = ByteAt(s, i) /\ FirstBytes(s, i)[2] = ByteAt(s, i + 1)
         /\ FirstBytes(s, i)[3] = ByteAt(s, i + 2) /\ FirstBytes(s, i)[4] = ByteAt(s, i + 3)
<1>1. ASSUME NEW k \in 1 .. 4 PROVE FirstBytes(s, i)[k] = ByteAt(s, i + k - 1)
  BY DEF FirstBytes
<1>2. ASSUME NEW k \in 1 .. 4 PROVE FirstBytes(s, i)[k] \in Nat
  <2>1. i + k - 1 \in Nat
    OBVIOUS
  <2>2. ByteAt(s, i + k - 1) \in Unit
    BY <2>1, ByteIsUnit
  <2>3. FirstBytes(s, i)[k] \in Unit
    BY <1>1, <2>2, Zenon
  <2> QED BY <2>3 DEF Unit
<1>3. ASSUME NEW k \in 1 .. 4, i + k <= Len(s) PROVE FirstBytes(s, i)[k] = s[i + k]
  <2>1. i + k - 1 < Len(s) /\ i + k - 1 + 1 = i + k
    BY <1>3
  <2> QED BY <1>1, <2>1 DEF ByteAt
<1>4. i + 1 - 1 = i /\ i + 2 - 1 = i + 1 /\ i + 3 - 1 = i + 2 /\ i + 4 - 1 = i + 3
  OBVIOUS
<1>5. /\ FirstBytes(s, i)[1] = ByteAt(s, i + 1 - 1) /\ FirstBytes(s, i)[2] = ByteAt(s, i + 2 - 1)
      /\ FirstBytes(s, i)[3] = ByteAt(s, i + 3 - 1) /\ FirstBytes(s, i)[4] = ByteAt(s, i + 4 - 1)
  BY DEF FirstBytes
<1> QED BY <1>2, <1>3, <1>4, <1>5

(* The sequences that n bytes of a text begin, by the tests.               *)
LEMMA SequencesByTable ==
  ASSUME NEW s \in Seq(Unit), NEW i \in 0 .. Len(s) - 1, NEW n \in 1 .. 4, i + n <= Len(s)
  PROVE  /\ SequencesWith(s, i, n) # {} <=> \E m \in 1 .. 4 : TableHas(FirstBytes(s, i), n, m)
         /\ (\E r \in SequencesWith(s, i, n) : Len(r) = n) <=> TableHas(FirstBytes(s, i), n, n)
<1> DEFINE b == FirstBytes(s, i)
           Row(r) == n <= Len(r) /\ \A k \in 1 .. n : b[k] \in r[k]
<1>1. \A k \in 1 .. n : b[k] = s[i + k]
  <2>1. \A k \in 1 .. n : k \in 1 .. 4 /\ i + k <= Len(s)
    OBVIOUS
  <2> QED BY <2>1, FirstBytesAreUnits
<1> HIDE DEF b
<1>2. SequencesWith(s, i, n) = {r \in WellFormedSequences : Row(r)}
  BY <1>1 DEF SequencesWith
<1>3. \A r \in WellFormedSequences : Len(r) \in 1 .. 4
  BY DEF WellFormedSequences
<1>4. \A m \in 1 .. 4 : (\E r \in WellFormedSequences : Row(r) /\ Len(r) = m) <=> TableHas(b, n, m)
  <2> TAKE m \in 1 .. 4
  <2>1. (\E r \in WellFormedSequences :
            /\ n <= Len(r) /\ \A k \in 1 .. n : b[k] \in r[k]
            /\ Len(r) = m)
           <=> TableHas(b, n, m)
    BY TableByRows
  <2> QED BY <2>1
<1> HIDE DEF Row
<1>5. SequencesWith(s, i, n) # {} <=> \E m \in 1 .. 4 : TableHas(b, n, m)
  BY <1>2, <1>3, <1>4, Zenon
<1>6. (\E r \in SequencesWith(s, i, n) : Len(r) = n) <=> TableHas(b, n, n)
  BY <1>2, <1>4, Zenon
<1> QED BY <1>5, <1>6 DEF b

(* The definition reads as far as the tests do.                            *)
LEMMA LengthsAgree ==
  ASSUME NEW s \in Seq(Unit), NEW i \in 0 .. Len(s) - 1
  PROVE  /\ DefinedLength(s, i) = ValidLength(s, i, Len(s))
         /\ MayStand(FirstBytes(s, i), DefinedLength(s, i))
<1> DEFINE b == FirstBytes(s, i)
           n == SequenceLength(ByteAt(s, i))
           S == {x \in 1 .. n :
                   /\ x = 1 \/ i + x <= Len(s)
                   /\ x > 1 => MayFollow(ByteAt(s, i), ByteAt(s, i + 1))
                   /\ \A k \in 2 .. x - 1 : IsTrailByte(ByteAt(s, i + k))}
           D == {1} \cup {x \in 1 .. Min({4, Len(s) - i}) : SequencesWith(s, i, x) # {}}
<1>1. i \in Nat /\ Len(s) \in Nat /\ i + 1 <= Len(s)
  OBVIOUS
<1>2. /\ \A k \in 1 .. 4 : b[k] \in Nat
      /\ b[1] = ByteAt(s, i) /\ b[2] = ByteAt(s, i + 1)
      /\ b[3] = ByteAt(s, i + 2) /\ b[4] = ByteAt(s, i + 3)
  BY FirstBytesAreUnits
<1>3. n \in 1 .. 4
  BY DEF SequenceLength
<1>4. Min({4, Len(s) - i}) = IF 4 <= Len(s) - i THEN 4 ELSE Len(s) - i
  BY <1>1, MinOfTwo
<1>5. ASSUME NEW x \in 1 .. 4 PROVE x \in S <=> (x = 1 \/ i + x <= Len(s)) /\ MayStand(b, x)
  <2>1. (\A k \in 2 .. x - 1 : IsTrailByte(ByteAt(s, i + k))) <=>
           (x > 2 => IsTrailByte(b[3])) /\ (x > 3 => IsTrailByte(b[4]))
    <3>1. \A k \in 2 .. x - 1 : (k = 2 /\ x > 2) \/ (k = 3 /\ x > 3)
      OBVIOUS
    <3>2. (x > 2 => 2 \in 2 .. x - 1) /\ (x > 3 => 3 \in 2 .. x - 1)
      OBVIOUS
    <3> HIDE DEF b
    <3> QED BY <1>2, <3>1, <3>2, Zenon
  <2>2. x \in S <=> /\ x <= n /\ (x = 1 \/ i + x <= Len(s))
                    /\ x > 1 => MayFollow(b[1], b[2])
                    /\ \A k \in 2 .. x - 1 : IsTrailByte(ByteAt(s, i + k))
    <3>1. x \in 1 .. n <=> x <= n
      BY <1>3
    <3> HIDE DEF n, b
    <3> QED BY <1>2, <3>1
  <2>3. MayStand(b, x) <=> /\ x <= n /\ (x > 1 => MayFollow(b[1], b[2]))
                           /\ (x > 2 => IsTrailByte(b[3])) /\ (x > 3 => IsTrailByte(b[4]))
    <3> HIDE DEF b
    <3> QED BY <1>2 DEF MayStand
  <2> HIDE DEF S, b, n
  <2> QED BY <2>1, <2>2, <2>3, Zenon
<1>6. ASSUME NEW x \in 1 .. 4 PROVE x \in D <=> (x = 1 \/ i + x <= Len(s)) /\ MayStand(b, x)
  <2>1. x \in D <=> x = 1 \/ (i + x <= Len(s) /\ SequencesWith(s, i, x) # {})
    <3>1. x \in 1 .. Min({4, Len(s) - i}) <=> i + x <= Len(s)
      BY <1>1, <1>4
    <3> QED BY <3>1, Zenon
  <2>2. i + x <= Len(s) => (SequencesWith(s, i, x) # {} <=> \E m \in 1 .. 4 : TableHas(b, x, m))
    BY SequencesByTable
  <2> HIDE DEF b, D
  <2>3. x > 1 => ((\E m \in 1 .. 4 : TableHas(b, x, m)) <=> MayStand(b, x))
    BY <1>2, TableIsTests
  <2>4. MayStand(b, 1)
    <3>1. \E m \in 1 .. 4 : 1 <= SequenceLength(b[1])
      BY <1>2, <1>3
    <3> QED BY <3>1 DEF MayStand
  <2>5. x = 1 \/ x > 1
    OBVIOUS
  <2> QED BY <2>1, <2>2, <2>3, <2>4, <2>5, Zenon
<1>7. S \in SUBSET (1 .. 4) /\ D \in SUBSET (1 .. 4)
  BY <1>1, <1>3, <1>4
<1>8. S = D
  <2> HIDE DEF S, D, b
  <2> QED BY <1>5, <1>6, <1>7
<1>9. ValidLength(s, i, Len(s)) = Max(S)
  BY DEF ValidLength
<1>10. DefinedLength(s, i) = Max(D)
  BY DEF DefinedLength
<1>11. MayStand(b, Max(D))
  <2>1. 1 \in D
    OBVIOUS
  <2> HIDE DEF D, S, b, n
  <2>2. D \in SUBSET (0 .. 4)
    BY <1>7
  <2>3. 4 \in Int /\ D # {}
    BY <2>1
  <2>4. Max(D) \in D
    BY <2>2, <2>3, MaxIsElement
  <2> QED BY <1>6, <1>7, <2>4
<1> QED BY <1>8, <1>9, <1>10, <1>11

(* The value of a trail byte, and the lead byte without its mark.          *)
LEMMA MarksAreTakenOff ==
  ASSUME NEW x \in Nat
  PROVE  /\ x < 128 => x % 128 = x
         /\ x \in 128 .. 191 => x % 64 = x - 128
         /\ x \in 194 .. 223 => x % 32 = x - 192
         /\ x \in 224 .. 239 => x % 16 = x - 224
         /\ x \in 240 .. 244 => x % 8 = x - 240
OBVIOUS

(* The bits of a whole sequence are the code point that is encoded so.     *)
LEMMA ValuesAgree ==
  ASSUME NEW s \in Seq(Unit), NEW i \in 0 .. Len(s) - 1, NEW n \in 1 .. 4, i + n <= Len(s),
         IsWhole(s, i, n)
  PROVE  DefinedValue(s, i, n) = ValueOf(s, i, n)
<1> DEFINE b == FirstBytes(s, i)
<1>1. \A k \in 1 .. 4 : b[k] \in Nat
  BY FirstBytesAreUnits
<1>2. TableHas(b, n, n)
  BY SequencesByTable DEF IsWhole
<1>3. /\ s[i + 1] = b[1] /\ (n > 1 => s[i + 2] = b[2])
      /\ (n > 2 => s[i + 3] = b[3]) /\ (n > 3 => s[i + 4] = b[4])
  <2>1. \A k \in 1 .. 4 : i + k <= Len(s) => b[k] = s[i + k]
    BY FirstBytesAreUnits
  <2>2. /\ i + 1 <= Len(s) /\ (n > 1 => i + 2 <= Len(s))
        /\ (n > 2 => i + 3 <= Len(s)) /\ (n > 3 => i + 4 <= Len(s))
    OBVIOUS
  <2> HIDE DEF b
  <2> QED BY <2>1, <2>2
<1>4. /\ ByteAt(s, i) = b[1] /\ ByteAt(s, i + 1) = b[2]
      /\ ByteAt(s, i + 2) = b[3] /\ ByteAt(s, i + 3) = b[4]
  BY FirstBytesAreUnits
<1> DEFINE x == ByteAt(s, i)
           y == ByteAt(s, i + 1)
           z == ByteAt(s, i + 2)
           w == ByteAt(s, i + 3)
<1>5. x = b[1] /\ y = b[2] /\ z = b[3] /\ w = b[4]
  BY <1>4
<1>6. /\ n = 1 => x \in 0 .. 127
      /\ n = 2 => x \in 194 .. 223 /\ y \in 128 .. 191
      /\ n = 3 => x \in 224 .. 239 /\ y \in 128 .. 191 /\ z \in 128 .. 191
      /\ n = 4 => x \in 240 .. 244 /\ y \in 128 .. 191 /\ z \in 128 .. 191 /\ w \in 128 .. 191
  <2> HIDE DEF b, x, y, z, w
  <2> QED BY <1>1, <1>2, <1>5 DEF TableHas, RowFits, Trail
<1>12. x \in Nat /\ y \in Nat /\ z \in Nat /\ w \in Nat
  BY <1>1, <1>5
<1> DEFINE v == ValueOf(s, i, n)
<1>7. v = CASE n = 1 -> x % 128
            [] n = 2 -> (x % 32) * 64 + (y % 64)
            [] n = 3 -> (x % 16) * 4096 + (y % 64) * 64 + (z % 64)
            [] OTHER -> (x % 8) * 262144 + (y % 64) * 4096 + (z % 64) * 64 + (w % 64)
  BY SMT DEF ValueOf
<1> HIDE DEF b, x, y, z, w, v
<1> SUFFICES DefinedValue(s, i, n) = v
  BY DEF v
<1>8. CASE n = 1
  <2>1. DefinedValue(s, i, n) = x
    BY <1>3, <1>5, <1>8, SMT DEF DefinedValue
  <2>2. x % 128 = x
    BY <1>12, <1>6, <1>8, MarksAreTakenOff, SMT
  <2> QED BY <1>7, <1>12, <1>8, <2>1, <2>2, SMT
<1>9. CASE n = 2
  <2>1. DefinedValue(s, i, n) = (x - 192) * 64 + y - 128
    BY <1>3, <1>5, <1>9, SMT DEF DefinedValue
  <2>2. x % 32 = x - 192 /\ y % 64 = y - 128
    BY <1>12, <1>6, <1>9, MarksAreTakenOff, SMT
  <2>3. v = (x - 192) * 64 + (y - 128)
    BY <1>7, <1>12, <1>9, <2>2, SMT
  <2> QED BY <1>12, <2>1, <2>3, SMT
<1>10. CASE n = 3
  <2>1. DefinedValue(s, i, n) = (x - 224) * 4096 + (y - 128) * 64 + z - 128
    BY <1>3, <1>5, <1>10, SMT DEF DefinedValue
  <2>2. x % 16 = x - 224 /\ y % 64 = y - 128 /\ z % 64 = z - 128
    BY <1>12, <1>6, <1>10, MarksAreTakenOff, SMT
  <2>3. v = (x - 224) * 4096 + (y - 128) * 64 + (z - 128)
    BY <1>7, <1>12, <1>10, <2>2, SMT
  <2> QED BY <1>12, <2>1, <2>3, SMT
<1>11. CASE n = 4
  <2>1. DefinedValue(s, i, n) =
          (x - 240) * 262144 + (y - 128) * 4096 + (z - 128) * 64 + w - 128
    BY <1>3, <1>5, <1>11, SMT DEF DefinedValue
  <2>2. x % 8 = x - 240 /\ y % 64 = y - 128 /\ z % 64 = z - 128 /\ w % 64 = w - 128
    BY <1>12, <1>6, <1>11, MarksAreTakenOff, SMT
  <2>3. v = (x - 240) * 262144 + (y - 128) * 4096 + (z - 128) * 64 + (w - 128)
    BY <1>7, <1>12, <1>11, <2>2, SMT
  <2> QED BY <1>12, <2>1, <2>3, SMT
<1>13. n = 1 \/ n = 2 \/ n = 3 \/ n = 4
  BY SMT
<1> QED BY <1>8, <1>9, <1>10, <1>11, <1>13

(* One character by the table is one character of the loops.               *)
LEMMA DecodesOneCharacter ==
  ASSUME NEW s \in Seq(Unit), NEW i \in 0 .. Len(s) - 1
  PROVE  LET n == DefinedLength(s, i)
         IN  /\ PieceAt("from", s, i).next = i + n
             /\ PieceAt("from", s, i).text =
                  CodeUnits(IF IsWhole(s, i, n) THEN DefinedValue(s, i, n) ELSE REPLACEMENT)
<1> DEFINE n == DefinedLength(s, i)
           lead == ByteAt(s, i)
           whole == n = SequenceLength(lead) /\ (n > 1 \/ lead < 128)
<1>1. n = ValidLength(s, i, Len(s))
  BY LengthsAgree
<1>2. n \in 1 .. 4 /\ i + n <= Len(s)
  <2>1. SequenceLength(lead) \in 1 .. 4
    BY DEF SequenceLength
  <2> HIDE DEF n, lead
  <2> QED BY <1>1, <2>1, ValidLengthFits DEF lead
<1>3. PieceAt("from", s, i) =
        [next |-> i + n,
         text |-> CodeUnits(IF whole THEN ValueOf(s, i, n) ELSE REPLACEMENT),
         double |-> lead >= 240]
  <2> HIDE DEF n
  <2> QED BY <1>1, Zenon DEF PieceAt, NextOfUTF8
<1> HIDE DEF n
<1>4. IsWhole(s, i, n) <=> whole
  <2> DEFINE b == FirstBytes(s, i)
  <2>1. IsWhole(s, i, n) <=> TableHas(b, n, n)
    BY <1>2, SequencesByTable DEF IsWhole
  <2>2. (\A k \in 1 .. 4 : b[k] \in Nat) /\ b[1] = lead
    BY FirstBytesAreUnits
  <2>3. MayStand(b, n)
    BY LengthsAgree DEF n
  <2> HIDE DEF b, lead
  <2>4. TableHas(b, n, n) <=>
          MayStand(b, n) /\ n = SequenceLength(b[1]) /\ (n > 1 \/ b[1] < 128)
    BY <1>2, <2>2, TableIsTests
  <2> QED BY <2>1, <2>2, <2>3, <2>4, Zenon
<1>5. IsWhole(s, i, n) => ValueOf(s, i, n) = DefinedValue(s, i, n)
  BY <1>2, ValuesAgree
<1> HIDE DEF whole, lead
<1>6. /\ PieceAt("from", s, i).next = i + n
      /\ PieceAt("from", s, i).text =
           CodeUnits(IF IsWhole(s, i, n) THEN DefinedValue(s, i, n) ELSE REPLACEMENT)
  BY <1>3, <1>4, <1>5
<1> QED BY <1>6 DEF n

(* The text of the table is the text of the loops.                         *)
LEMMA DecodedTextFrom ==
  ASSUME RealSurrogates, NEW s \in Seq(Unit)
  PROVE  DecodedText(s) = TextFrom("from", s)[0]
<1> DEFINE L == Len(s)
           piece(i) ==
             CodeUnits(IF IsWhole(s, i, DefinedLength(s, i))
                       THEN DefinedValue(s, i, DefinedLength(s, i)) ELSE REPLACEMENT)
           IsText(f) == f = [i \in 0 .. Len(s) |->
                               IF i = Len(s) THEN <<>>
                               ELSE piece(i) \o f[i + DefinedLength(s, i)]]
           chain == CHOOSE f : IsText(f)
           next == Nexts("from", s)
           pieces == PieceTexts("from", s)
<1>1. L \in Nat
  OBVIOUS
<1>2. DecodedText(s) = chain[0]
  BY Zenon DEF DecodedText
<1>3. \A i \in 0 .. L - 1 : next[i] = i + DefinedLength(s, i) /\ pieces[i] = piece(i)
  <2> TAKE i \in 0 .. L - 1
  <2>1. PieceAt("from", s, i).next = i + DefinedLength(s, i) /\ PieceAt("from", s, i).text = piece(i)
    BY DecodesOneCharacter
  <2>2. next[i] = PieceAt("from", s, i).next /\ pieces[i] = PieceAt("from", s, i).text
    BY PiecesAreForward
  <2> QED BY <2>1, <2>2
<1> HIDE DEF piece
<1> DEFINE t == TextFrom("from", s)
<1>4. t \in [0 .. L -> Seq(Unit)] /\ IsChain(t, L, next, pieces)
  BY TextIsChain
<1>5. Forward(next, L)
  BY PiecesAreForward
<1> HIDE DEF t, next, pieces
<1>6. IsText(t)
  <2>1. \A i \in 0 .. L : t[i] = IF i = L THEN <<>> ELSE piece(i) \o t[i + DefinedLength(s, i)]
    <3>1. \A i \in 0 .. L : i = L \/ i \in 0 .. L - 1
      BY <1>1
    <3>2. t[L] = <<>> /\ \A i \in 0 .. L - 1 : t[i] = pieces[i] \o t[next[i]]
      BY <1>4 DEF IsChain
    <3> QED BY <1>3, <3>1, <3>2
  <2>2. t = [i \in 0 .. L |-> t[i]]
    BY <1>4
  <2>3. t = [i \in 0 .. L |-> IF i = L THEN <<>> ELSE piece(i) \o t[i + DefinedLength(s, i)]]
    BY <2>1, <2>2
  <2> QED BY <2>3, Zenon
<1>7. IsText(chain)
  <2> HIDE DEF IsText
  <2> QED BY <1>6
<1> HIDE DEF chain
<1>8. IsChain(chain, L, next, pieces)
  <2>1. \A i \in 0 .. L : chain[i] = IF i = L THEN <<>>
                                    ELSE piece(i) \o chain[i + DefinedLength(s, i)]
    BY <1>7
  <2>2. chain[L] = <<>>
    BY <1>1, <2>1
  <2>3. \A i \in 0 .. L - 1 : i \in 0 .. L /\ i # L
    BY <1>1
  <2>4. \A i \in 0 .. L - 1 : chain[i] = pieces[i] \o chain[next[i]]
    BY <1>3, <2>1, <2>3, Zenon
  <2> QED BY <2>2, <2>4 DEF IsChain
<1> HIDE DEF L, IsText
<1>9. \A f, g : IsChain(f, L, next, pieces) /\ IsChain(g, L, next, pieces)
                  => \A i \in 0 .. L : f[i] = g[i]
  BY <1>1, <1>5, ChainIsUnique
<1>10. 0 \in 0 .. L
  BY <1>1
<1>11. chain[0] = t[0]
  BY <1>4, <1>8, <1>9, <1>10, Zenon
<1> QED BY <1>2, <1>11 DEF t

(* The prefixes of a sequence of texts, each one behind the one before.    *)
ArePrefixes(f, n, seqs) ==
  \A i \in 1 .. n : f[i] = IF i = 1 THEN seqs[i] ELSE f[i - 1] \o seqs[i]

(* There are such prefixes: the least length without would have one.       *)
LEMMA PrefixesExist ==
  ASSUME NEW S, NEW n \in Nat, NEW seqs \in [1 .. n -> Seq(S)]
  PROVE  \E f \in [1 .. n -> Seq(S)] : ArePrefixes(f, n, seqs)
<1> DEFINE Some(m) == \E f \in [1 .. m -> Seq(S)] : ArePrefixes(f, m, seqs)
           bad == {m \in 0 .. n : ~Some(m)}
<1>1. SUFFICES bad = {}
  <2>1. n \in 0 .. n
    OBVIOUS
  <2> HIDE DEF Some
  <2>2. Some(n)
    BY <1>1, <2>1
  <2> QED BY <2>2 DEF Some
<1>2. SUFFICES ASSUME bad # {} PROVE FALSE
  OBVIOUS
<1>3. PICK m \in bad : \A y \in bad : m <= y
  <2>1. bad \in SUBSET Nat
    OBVIOUS
  <2> HIDE DEF bad
  <2> QED BY <1>2, <2>1, NatHasLeast
<1> HIDE DEF Some
<1>4. m \in 0 .. n /\ ~Some(m)
  BY <1>3
<1>5. m # 0
  <2>1. [i \in 1 .. 0 |-> <<>>] \in [1 .. 0 -> Seq(S)]
    BY EmptySeq
  <2>2. ArePrefixes([i \in 1 .. 0 |-> <<>>], 0, seqs)
    BY DEF ArePrefixes
  <2>3. Some(0)
    BY <2>1, <2>2, Zenon DEF Some
  <2> QED BY <1>4, <2>3
<1>6. m \in Nat /\ m >= 1 /\ m <= n /\ m - 1 \in 0 .. n /\ ~(m <= m - 1)
  BY <1>4, <1>5
<1>7. Some(m - 1)
  <2>1. m - 1 \notin bad
    <3> HIDE DEF bad
    <3> QED BY <1>3, <1>6
  <2> QED BY <1>6, <2>1
<1>8. PICK f \in [1 .. m - 1 -> Seq(S)] : ArePrefixes(f, m - 1, seqs)
  BY <1>7 DEF Some
<1> DEFINE last == IF m = 1 THEN seqs[m] ELSE f[m - 1] \o seqs[m]
           g == [i \in 1 .. m |-> IF i = m THEN last ELSE f[i]]
<1>9. last \in Seq(S)
  <2>1. seqs[m] \in Seq(S)
    BY <1>6
  <2>2. m # 1 => f[m - 1] \in Seq(S)
    BY <1>6
  <2> QED BY <2>1, <2>2, ConcatProperties
<1>10. \A i \in 1 .. m : i = m \/ i \in 1 .. m - 1
  BY <1>6
<1>11. g[m] = last /\ \A i \in 1 .. m - 1 : g[i] = f[i]
  BY <1>6
<1>12. g \in [1 .. m -> Seq(S)]
  BY <1>9, <1>10
<1>13. ArePrefixes(g, m, seqs)
  <2>1. ASSUME NEW i \in 1 .. m PROVE g[i] = IF i = 1 THEN seqs[i] ELSE g[i - 1] \o seqs[i]
    <3>1. i # 1 => i - 1 \in 1 .. m - 1
      BY <1>6
    <3>2. i # 1 => g[i - 1] = f[i - 1]
      BY <1>11, <3>1
    <3>3. i \in 1 .. m - 1 => f[i] = IF i = 1 THEN seqs[i] ELSE f[i - 1] \o seqs[i]
      BY <1>8 DEF ArePrefixes
    <3> HIDE DEF g
    <3> QED BY <1>10, <1>11, <3>2, <3>3
  <2> HIDE DEF g
  <2> QED BY <2>1 DEF ArePrefixes
<1> HIDE DEF g
<1>14. Some(m)
  BY <1>12, <1>13 DEF Some
<1> QED BY <1>4, <1>14

(* FlattenSeq() ends with such a prefix.                                   *)
LEMMA FlattenIsPrefix ==
  ASSUME NEW S, NEW seqs \in Seq(Seq(S)), Len(seqs) > 0
  PROVE  \E f : ArePrefixes(f, Len(seqs), seqs) /\ FlattenSeq(seqs) = f[Len(seqs)]
<1> DEFINE n == Len(seqs)
           IsFlat(f) == f = [i \in 1 .. Len(seqs) |->
                               IF i = 1 THEN seqs[i] ELSE f[i - 1] \o seqs[i]]
           flat == CHOOSE f : IsFlat(f)
<1>1. n \in Nat /\ n # 0 /\ seqs \in [1 .. n -> Seq(S)]
  BY LenProperties
<1>2. FlattenSeq(seqs) = flat[n]
  BY <1>1, Zenon DEF FlattenSeq
<1>3. PICK f \in [1 .. n -> Seq(S)] : ArePrefixes(f, n, seqs)
  <2> HIDE DEF n
  <2> QED BY <1>1, PrefixesExist
<1>4. IsFlat(f)
  <2>1. f = [i \in 1 .. n |-> f[i]]
    OBVIOUS
  <2>2. f = [i \in 1 .. n |-> IF i = 1 THEN seqs[i] ELSE f[i - 1] \o seqs[i]]
    BY <1>3, <2>1 DEF ArePrefixes
  <2> QED BY <2>2
<1>5. IsFlat(flat)
  <2> HIDE DEF IsFlat
  <2> QED BY <1>4
<1> HIDE DEF flat
<1>6. ArePrefixes(flat, n, seqs)
  BY <1>5 DEF ArePrefixes
<1> QED BY <1>2, <1>6

(* Texts behind each other, put together in either order.                  *)
LEMMA TextsInARow ==
  \A S : \A a, b, c \in Seq(S) : (a \o b) \o c = a \o (b \o c)
<1> TAKE S
<1> TAKE a, b, c \in Seq(S)
<1> QED BY ConcatAssociative

(* A code point takes two units if it is a pair.                           *)
LEMMA LengthOfCodePointAt ==
  ASSUME RealSurrogates, NEW s \in Seq(Unit), NEW i \in 0 .. Len(s) - 1
  PROVE  U16_LENGTH(CodePointAt(s, i)) = IF StartsPair(s, i) THEN 2 ELSE 1
<1>1. \A k \in 1 .. Len(s) : s[k] \in Nat /\ s[k] < FirstSupplementary
  <2> TAKE k \in 1 .. Len(s)
  <2>1. s[k] \in Unit
    BY ElementOfSeq
  <2> QED BY <2>1, SMT DEF Unit, RealSurrogates
<1>2. CASE StartsPair(s, i)
  <2>1. i + 1 \in 1 .. Len(s) /\ i + 2 \in 1 .. Len(s) /\ IsLead(s[i + 1]) /\ IsTrail(s[i + 2])
    BY <1>2 DEF StartsPair
  <2>2. U16_GET_SUPPLEMENTARY(s[i + 1], s[i + 2]) \in FirstSupplementary .. MaxCodePoint
    BY <1>1, <2>1, PairIsSupplementary
  <2>3. CodePointAt(s, i) >= FirstSupplementary /\ CodePointAt(s, i) \in Int
    BY <1>2, <2>2, SurrogateLayout, MaxCodePointIsNat DEF CodePointAt
  <2> QED BY <1>2, <2>3, SurrogateLayout DEF U16_LENGTH
<1>3. CASE ~StartsPair(s, i)
  <2>1. i + 1 \in 1 .. Len(s)
    OBVIOUS
  <2> QED BY <1>1, <1>3, <2>1 DEF CodePointAt, U16_LENGTH
<1> QED BY <1>2, <1>3

(* The text by code points is the text of the loops: in front of each      *)
(* boundary stands what the code points before it are encoded to.          *)
LEMMA EncodedTextFrom ==
  ASSUME RealSurrogates, NEW s \in Seq(Unit)
  PROVE  EncodedText(s) = TextFrom("to", s)[0]
<1> DEFINE points == CodePoints(s)
           bytes(c) == AppendUTF8(IF IsSurrogate(c) THEN REPLACEMENT ELSE c)
           seqs == [k \in DOMAIN points |-> bytes(points[k])]
           t == TextFrom("to", s)
           L == Len(s)
           n == Len(points)
           Count(i) == CountCodePoints(s, 0, i)
<1>1. s \in Seq(Nat) /\ L \in Nat
  <2>1. \A x \in Unit : x \in Nat
    BY DEF Unit
  <2> QED BY <2>1, SeqMonotonic
<1>2. EncodedText(s) = FlattenSeq(seqs)
  BY Zenon DEF EncodedText
<1>3. points \in Seq(Int) /\ n \in Nat /\ n = Count(L) /\ DOMAIN points = 1 .. n
  BY <1>1, CodePointsAtBoundaries, LenProperties
<1>4. /\ t[L] = <<>> /\ \A i \in 0 .. L : t[i] \in Seq(Unit)
      /\ \A i \in 0 .. L - 1 : t[i] = PieceAt("to", s, i).text \o t[PieceAt("to", s, i).next]
  BY TextByPieces
<1>5. \A j \in 0 .. L - 1 : /\ PieceAt("to", s, j).text = bytes(CodePointAt(s, j))
                            /\ PieceAt("to", s, j).text \in Seq(Unit)
                            /\ PieceAt("to", s, j).next = j + U16_LENGTH(CodePointAt(s, j))
  <2> TAKE j \in 0 .. L - 1
  <2>1. PieceAt("to", s, j) = NextOfUTF16(s, j)
    BY DEF PieceAt
  <2>2. PieceAt("to", s, j).text \in Seq(Unit)
    BY PieceLeadsOn
  <2> QED BY <2>1, <2>2 DEF NextOfUTF16
<1> HIDE DEF bytes
<1>6. \A k \in 1 .. n : bytes(points[k]) \in Seq(Unit)
  <2> TAKE k \in 1 .. n
  <2>1. k - 1 \in 0 .. Count(L) - 1 /\ (k - 1) + 1 = k
    BY <1>3
  <2>2. PICK x \in 0 .. L - 1 : IsBoundary(s, x) /\ Count(x) = k - 1
    BY <1>1, <2>1, EveryCodePointHasBoundary
  <2>3. points[k] = CodePointAt(s, x)
    BY <1>1, <2>1, <2>2, CodePointsAtBoundaries
  <2> QED BY <1>5, <2>3
<1>7. seqs \in Seq(Seq(Unit)) /\ Len(seqs) = n /\ \A k \in 1 .. n : seqs[k] = bytes(points[k])
  <2> DEFINE T == Seq(Unit)
  <2> HIDE DEF T, points, n
  <2>1. seqs = [k \in 1 .. n |-> bytes(points[k])] /\ \A k \in 1 .. n : bytes(points[k]) \in T
    BY <1>3, <1>6 DEF T
  <2>2. seqs \in Seq(T) /\ Len(seqs) = n /\ \A k \in 1 .. n : seqs[k] = bytes(points[k])
    BY <1>3, <2>1
  <2> QED BY <2>2 DEF T
<1> HIDE DEF seqs, points, t
<1>8. CASE n = 0
  <2>1. L = 0
    <3>1. IsBoundary(s, 0)
      BY <1>1, EndsAreBoundaries
    <3>2. L > 0 => Count(0) + 1 <= Count(L)
      BY <1>1, <3>1, CountOfBoundary
    <3>3. Count(0) \in Int
      <4>1. 0 \in Nat
        OBVIOUS
      <4> QED BY <4>1, CountUp
    <3>4. Count(0) = 0
      BY CountStep
    <3> HIDE DEF Count, L
    <3> QED BY <1>1, <1>3, <1>8, <3>2, <3>3, <3>4
  <2>2. FlattenSeq(seqs) = <<>>
    <3>1. seqs = <<>>
      BY <1>7, <1>8, EmptySeq
    <3> QED BY <1>7, <1>8, <3>1 DEF FlattenSeq
  <2> QED BY <1>2, <1>4, <2>1, <2>2 DEF t
<1>9. CASE n # 0
  <2>1. n > 0
    BY <1>3, <1>9
  <2>2. PICK f : ArePrefixes(f, n, seqs) /\ FlattenSeq(seqs) = f[n]
    BY <1>7, <2>1, FlattenIsPrefix
  <2> DEFINE before(i) == IF Count(i) = 0 THEN <<>> ELSE f[Count(i)]
             Right(i) == before(i) \in Seq(Unit) /\ before(i) \o t[i] = t[0]
             bad == {i \in 0 .. L : IsBoundary(s, i) /\ ~Right(i)}
  <2>3. bad = {}
    <3> SUFFICES ASSUME bad # {} PROVE FALSE
      OBVIOUS
    <3>1. PICK i \in bad : \A y \in bad : i <= y
      <4> HIDE DEF Right
      <4>1. bad \in SUBSET Nat
        BY <1>1
      <4> HIDE DEF bad
      <4> QED BY <4>1, NatHasLeast
    <3> HIDE DEF Right
    <3>2. i \in 0 .. L /\ IsBoundary(s, i) /\ ~Right(i)
      BY <3>1
    <3>3. i # 0
      <4>1. Count(0) = 0
        BY CountStep
      <4>2. 0 \in 0 .. L
        BY <1>1
      <4>3. <<>> \in Seq(Unit) /\ <<>> \o t[0] = t[0]
        BY <1>4, <4>2, EmptySeq, ConcatEmptySeq
      <4>4. Right(0)
        BY <4>1, <4>3 DEF Right
      <4> QED BY <3>2, <4>4
    <3> DEFINE j == PreviousIndex(s, i)
    <3>4. /\ j \in 0 .. i - 1 /\ IsBoundary(s, j)
          /\ Count(i) = Count(j) + 1 /\ Count(i) \in 1 .. n
          /\ CodePointAt(s, j) = points[Count(i)]
      <4>1. i \in 1 .. Len(s)
        BY <1>1, <3>2, <3>3
      <4> QED BY <1>1, <3>2, <4>1, PreviousCodePoint DEF points
    <3>5. j \in 0 .. L - 1 /\ j \in 0 .. L /\ ~(i <= j)
      BY <1>1, <3>2, <3>4
    <3>6. Right(j)
      <4>1. j \notin bad
        <5> HIDE DEF bad, j
        <5> QED BY <3>1, <3>5
      <4> QED BY <3>4, <3>5, <4>1
    <3>7. PieceAt("to", s, j).next = i
      <4>1. U16_LENGTH(CodePointAt(s, j)) = IF StartsPair(s, j) THEN 2 ELSE 1
        BY <3>5, LengthOfCodePointAt
      <4>2. j + (IF StartsPair(s, j) THEN 2 ELSE 1) = i
        <5>1. CASE i >= 2 /\ StartsPair(s, i - 2)
          BY <3>2, <5>1 DEF PreviousIndex
        <5>2. CASE ~(i >= 2 /\ StartsPair(s, i - 2))
          BY <3>2, <3>3, <5>2 DEF PreviousIndex, IsBoundary
        <5> QED BY <5>1, <5>2
      <4> QED BY <1>5, <3>5, <4>1, <4>2
    <3> DEFINE c == Count(i)
               a == before(j)
               p == PieceAt("to", s, j).text
    <3>8. p = seqs[c] /\ p \in Seq(Unit) /\ t[j] = p \o t[i]
      BY <1>4, <1>5, <1>7, <3>4, <3>5, <3>7
    <3>9. a \in Seq(Unit) /\ a \o t[j] = t[0] /\ t[i] \in Seq(Unit)
      BY <1>4, <3>2, <3>6 DEF Right
    <3>10. before(i) = a \o p
      <4>1. c \in 1 .. n /\ Count(j) = c - 1
        <5>1. Count(j) \in Int
          BY <3>5, CountUp
        <5> HIDE DEF Count, j
        <5> QED BY <3>4, <5>1
      <4>2. f[c] = IF c = 1 THEN seqs[c] ELSE f[c - 1] \o seqs[c]
        BY <2>2, <4>1 DEF ArePrefixes
      <4>3. before(i) = f[c] /\ a = IF c = 1 THEN <<>> ELSE f[c - 1]
        BY <4>1
      <4>4. <<>> \o p = p
        BY <3>8, ConcatEmptySeq
      <4> HIDE DEF c, a, p, before, j
      <4> QED BY <3>8, <4>2, <4>3, <4>4
    <3> HIDE DEF a, p, c, before, j
    <3>11. a \o p \in Seq(Unit) /\ (a \o p) \o t[i] = a \o (p \o t[i])
      <4> DEFINE T == Unit
                 q == t[i]
      <4>1. a \in Seq(T) /\ p \in Seq(T) /\ q \in Seq(T)
        BY <3>8, <3>9
      <4> HIDE DEF T, q
      <4>2. a \o p \in Seq(T)
        BY <4>1, ConcatProperties
      <4>3. \A x, y, z \in Seq(T) : (x \o y) \o z = x \o (y \o z)
        BY TextsInARow, SMTT(30)
      <4>4. (a \o p) \o q = a \o (p \o q)
        BY <4>1, <4>3
      <4> QED BY <4>2, <4>4 DEF T, q
    <3>12. Right(i)
      BY <3>8, <3>9, <3>10, <3>11 DEF Right
    <3> QED BY <3>2, <3>12
  <2>4. Right(L)
    <3>1. IsBoundary(s, L) /\ L \in 0 .. L
      BY <1>1, EndsAreBoundaries
    <3> HIDE DEF Right
    <3> QED BY <2>3, <3>1
  <2>5. f[n] \in Seq(Unit) /\ f[n] \o <<>> = t[0]
    BY <1>3, <1>4, <1>9, <2>4
  <2>6. f[n] \o <<>> = f[n]
    BY <2>5, ConcatEmptySeq
  <2> QED BY <1>2, <2>2, <2>5, <2>6 DEF t
<1> QED BY <1>8, <1>9

-----------------------------------------------------------------------------
(* A text in front of another is the beginning of both together.           *)
LEMMA BeginningOfConcat ==
  ASSUME NEW S, NEW a \in Seq(S), NEW b \in Seq(S)
  PROVE  /\ a \o b \in Seq(S) /\ Len(a \o b) = Len(a) + Len(b)
         /\ Len(a) \in Nat /\ Len(b) \in Nat
         /\ a = SubSeq(a \o b, 1, Len(a))
         /\ Len(b) > 0 => (a \o b)[Len(a) + 1] = b[1]
<1> DEFINE e == a \o b
           n == Len(a)
           p == SubSeq(e, 1, n)
<1>1. /\ e \in Seq(S) /\ Len(e) = n + Len(b) /\ n \in Nat /\ Len(b) \in Nat
      /\ \A i \in 1 .. n + Len(b) : e[i] = IF i <= n THEN a[i] ELSE b[i - n]
  BY ConcatProperties, LenProperties
<1> HIDE DEF e
<1>2. p \in Seq(S) /\ Len(p) = n /\ \A i \in 1 .. n : p[i] = e[i]
  <2> HIDE DEF n
  <2>1. CASE n = 0
    BY <1>1, <2>1, SubSeqProperties, EmptySeq
  <2>2. CASE n > 0
    BY <1>1, <2>2, SubSeqProperties
  <2> QED BY <1>1, <2>1, <2>2
<1>3. \A i \in 1 .. n : p[i] = a[i]
  <2> HIDE DEF p, n
  <2> QED BY <1>1, <1>2
<1>4. a = p
  <2> HIDE DEF p
  <2> QED BY <1>2, <1>3, SeqEqual
<1>5. Len(b) > 0 => e[n + 1] = b[1]
  <2> HAVE Len(b) > 0
  <2>1. n + 1 \in 1 .. n + Len(b) /\ ~(n + 1 <= n) /\ (n + 1) - n = 1
    BY <1>1
  <2> HIDE DEF n
  <2> QED BY <1>1, <2>1
<1> QED BY <1>1, <1>4, <1>5 DEF e

(* The lead byte tells the length of what is appended.                     *)
LEMMA LeadByteTellsLength ==
  ASSUME NEW c \in Nat, c <= LastCodePoint
  PROVE  SequenceLength(AppendUTF8(c)[1]) = Len(AppendUTF8(c))
<1>1. CASE c < 128
  <2>1. AppendUTF8(c) = <<c>>
    BY <1>1, SMT DEF AppendUTF8
  <2>2. SequenceLength(c) = 1
    BY <1>1, SMT DEF SequenceLength
  <2> QED BY <2>1, <2>2
<1>2. CASE c >= 128 /\ c < 2048
  <2> DEFINE lead == 192 + (c \div 64)
             b1 == 128 + ((c \div 1) % 64)
  <2>1. AppendUTF8(c) = <<lead, b1>>
    BY <1>2, SMT DEF AppendUTF8
  <2>2. lead \in 194 .. 223
    BY <1>2, SMT
  <2> HIDE DEF lead, b1
  <2>3. SequenceLength(lead) = 2
    BY <2>2, SMT DEF SequenceLength
  <2> QED BY <2>1, <2>3
<1>3. CASE c >= 2048 /\ c < 65536
  <2> DEFINE lead == 224 + (c \div 4096)
             b1 == 128 + ((c \div 64) % 64)
             b2 == 128 + ((c \div 1) % 64)
  <2>1. AppendUTF8(c) = <<lead, b1, b2>>
    BY <1>3, SMT DEF AppendUTF8
  <2>2. lead \in 224 .. 239
    BY <1>3, SMT
  <2> HIDE DEF lead, b1, b2
  <2>3. SequenceLength(lead) = 3
    BY <2>2, SMT DEF SequenceLength
  <2> QED BY <2>1, <2>3
<1>4. CASE c >= 65536
  <2> DEFINE lead == 240 + (c \div 262144)
             b1 == 128 + ((c \div 4096) % 64)
             b2 == 128 + ((c \div 64) % 64)
             b3 == 128 + ((c \div 1) % 64)
  <2>1. AppendUTF8(c) = <<lead, b1, b2, b3>>
    BY <1>4, SMT DEF AppendUTF8
  <2>2. lead \in 240 .. 244
    BY <1>4, SMT DEF LastCodePoint
  <2> HIDE DEF lead, b1, b2, b3
  <2>3. SequenceLength(lead) = 4
    BY <2>2, SMT DEF SequenceLength
  <2> QED BY <2>1, <2>3
<1> QED BY <1>1, <1>2, <1>3, <1>4, SMT

(* So it does in what a character of UTF-16 is converted to.               *)
LEMMA LeadByteOfPiece ==
  ASSUME RealSurrogates, NEW s \in Seq(Unit), NEW i \in 0 .. Len(s) - 1
  PROVE  LET p == PieceAt("to", s, i).text IN SequenceLength(p[1]) = Len(p)
<1> DEFINE c == CodePointAt(s, i)
           b == IF IsSurrogate(c) THEN REPLACEMENT ELSE c
<1>1. PieceAt("to", s, i).text = AppendUTF8(b)
  BY DEF PieceAt, NextOfUTF16
<1>2. c \in Nat /\ c <= LastCodePoint
  BY CodePointIsOne
<1> HIDE DEF c
<1>3. b \in Nat /\ b <= LastCodePoint
  BY <1>2, SMT DEF REPLACEMENT, LastCodePoint
<1> HIDE DEF b
<1>4. SequenceLength(AppendUTF8(b)[1]) = Len(AppendUTF8(b))
  BY <1>3, LeadByteTellsLength
<1> QED BY <1>1, <1>4

(* What is left of the text of a conversion.                               *)
TextLeft(k) == TextFrom(k.dir, k.src)[k.i]

(* It is the next character and what is left behind it.                    *)
LEMMA NextText ==
  ASSUME RealSurrogates, NEW k, ConversionOK(k), Left(k) > 0
  PROVE  LET p == NextPiece(k)
         IN  /\ TextLeft(k) = p.text \o TextFrom(k.dir, k.src)[p.next]
             /\ p.text \in Seq(Unit) /\ TextFrom(k.dir, k.src)[p.next] \in Seq(Unit)
             /\ k.dir = "to" => Len(p.text) > 0 /\ SequenceLength(p.text[1]) = Len(p.text)
<1>1. /\ k.src \in Seq(Unit) /\ k.dir \in {"from", "to"} /\ k.i \in 0 .. Len(k.src) - 1
  <2>1. k.src \in Seq(Unit) /\ k.dir \in {"from", "to"} /\ k.i \in Nat /\ Len(k.src) \in Nat
    BY LeftAndRoom DEF ConversionOK, ConversionSet
  <2> QED BY <2>1 DEF Left
<1>2. NextPiece(k) = PieceAt(k.dir, k.src, k.i)
  BY DEF NextPiece, PieceAt
<1> DEFINE p == PieceAt(k.dir, k.src, k.i)
<1>3. /\ p.next \in 0 .. Len(k.src) /\ p.text \in Seq(Unit) /\ Len(p.text) > 0
  <2>1. /\ p.next \in Nat /\ p.next <= Len(k.src) /\ p.text \in Seq(Unit) /\ Len(p.text) > 0
    BY <1>1, PieceLeadsOn
  <2> HIDE DEF p
  <2> QED BY <1>1, <2>1
<1>4. TextFrom(k.dir, k.src)[k.i] = p.text \o TextFrom(k.dir, k.src)[p.next]
  BY <1>1, TextByPieces
<1>5. TextFrom(k.dir, k.src)[p.next] \in Seq(Unit)
  <2> HIDE DEF p
  <2> QED BY <1>1, <1>3, TextByPieces
<1>6. k.dir = "to" => SequenceLength(p.text[1]) = Len(p.text)
  BY <1>1, LeadByteOfPiece
<1> QED BY <1>2, <1>3, <1>4, <1>5, <1>6 DEF TextLeft

(* A conversion at the same text, wherever it is.                          *)
SameText(m, k) == m.dir = k.dir /\ m.src = k.src /\ m.capacity = k.capacity

(* The whole text depends on nothing else.                                 *)
LEMMA SameWhole ==
  ASSUME NEW k, NEW m, SameText(m, k)
  PROVE  /\ WholeText(m) = WholeText(k)
         /\ TextFrom(m.dir, m.src) = TextFrom(k.dir, k.src)
BY DEF SameText, WholeText

(* Three texts in a row, in either order of putting them together.         *)
LEMMA UnitsInARow ==
  ASSUME NEW a \in Seq(Unit), NEW b \in Seq(Unit), NEW c \in Seq(Unit)
  PROVE  (a \o b) \o c = a \o (b \o c)
<1> DEFINE T == Unit
<1>1. a \in Seq(T) /\ b \in Seq(T) /\ c \in Seq(T)
  OBVIOUS
<1> HIDE DEF T
<1> QED BY <1>1, TextsInARow

(* The text is written as far as the index has come: the rounds of all     *)
(* loops that write a whole character.                                     *)
LEMMA WrittenOn ==
  ASSUME RealSurrogates, NEW k, ConversionOK(k), WrittenInv(k), Left(k) > 0,
         k.pc \in {"fast", "slow"},
         NEW m, SameText(m, k), m.i = NextPiece(k).next, m.reqLength = k.reqLength,
         m.dest = k.dest \o NextPiece(k).text, m.pc \in {"block", "fast", "slow"}
  PROVE  WrittenInv(m)
<1> DEFINE W == WholeText(k)
           p == NextPiece(k)
           d == k.dest
           u == p.text
           rest == TextFrom(k.dir, k.src)[p.next]
<1>1. k.reqLength = 0 /\ W = d \o TextLeft(k) /\ d \in Seq(Unit)
  BY DEF WrittenInv, TextLeft, ConversionOK, ConversionSet
<1>2. TextLeft(k) = u \o rest /\ u \in Seq(Unit) /\ rest \in Seq(Unit)
  BY NextText
<1>3. WholeText(m) = W /\ TextLeft(m) = rest
  BY SameWhole DEF TextLeft
<1>4. m.dest = d \o u
  OBVIOUS
<1> HIDE DEF W, p, d, u, rest
<1>5. W = (d \o u) \o rest
  <2>1. (d \o u) \o rest = d \o (u \o rest)
    BY <1>1, <1>2, UnitsInARow
  <2> QED BY <1>1, <1>2, <2>1
<1>6. m.reqLength = 0 /\ WholeText(m) = m.dest \o TextLeft(m)
  BY <1>1, <1>3, <1>4, <1>5
<1> QED BY <1>6 DEF WrittenInv, TextLeft

(* The steps that only look.                                               *)
LEMMA WrittenStill ==
  ASSUME NEW k, WrittenInv(k), k.pc \in {"block", "fast", "slow"},
         NEW m, SameText(m, k), m.i = k.i, m.reqLength = k.reqLength,
         m.dest = k.dest, m.pc \in {"block", "fast", "slow"}
  PROVE  WrittenInv(m)
<1>1. k.reqLength = 0 /\ WholeText(k) = k.dest \o TextFrom(k.dir, k.src)[k.i]
  BY DEF WrittenInv
<1>2. WholeText(m) = WholeText(k) /\ TextFrom(m.dir, m.src) = TextFrom(k.dir, k.src)
  BY SameWhole
<1> QED BY <1>1, <1>2 DEF WrittenInv

(* What has been written when the end of the array or the source comes.    *)
LEMMA WrittenAtEnd ==
  ASSUME RealSurrogates, NEW k, ConversionOK(k), WrittenInv(k), k.pc = "slow", ~GoesOn(k),
         NEW m, SameText(m, k), m.i = k.i, m.reqLength = k.reqLength, m.dest = k.dest,
         m.pc = "preflight"
  PROVE  WrittenInv(m)
<1> DEFINE W == WholeText(k)
           d == k.dest
           rest == TextLeft(k)
           n == Len(d)
<1>1. k.reqLength = 0 /\ W = d \o rest /\ d \in Seq(Unit)
  BY DEF WrittenInv, TextLeft, ConversionOK, ConversionSet
<1>2. rest \in Seq(Unit) /\ (k.i = Len(k.src) => rest = <<>>)
  <2>1. k.src \in Seq(Unit) /\ k.dir \in {"from", "to"} /\ k.i \in 0 .. Len(k.src)
    BY DEF ConversionOK, ConversionSet
  <2> QED BY <2>1, TextByPieces DEF TextLeft
<1>3. WholeText(m) = W /\ TextFrom(m.dir, m.src)[m.i] = rest
  BY SameWhole DEF TextLeft
<1>4. k.i = Len(k.src) \/ (k.dir = "from" /\ k.capacity = n)
  <2>1. ~(Left(k) > 0) \/ (k.dir = "from" /\ ~(Room(k) > 0))
    BY DEF GoesOn
  <2>2. /\ Left(k) \in Nat /\ Left(k) = Len(k.src) - k.i /\ k.i \in Nat /\ Len(k.src) \in Nat
        /\ Room(k) \in Nat /\ Room(k) = k.capacity - n /\ k.capacity \in Nat /\ n \in Nat
    <3>1. k.dest \in Seq(Unit) /\ k.capacity \in Nat
      BY DEF ConversionOK, ConversionSet
    <3>2. n \in Nat
      BY <3>1
    <3> QED BY <3>1, <3>2, LeftAndRoom
  <2> QED BY <2>1, <2>2
<1> HIDE DEF W, rest
<1>5. Len(W) = n + Len(rest) /\ d = SubSeq(W, 1, n) /\ n \in Nat /\ Len(rest) \in Nat
  BY <1>1, <1>2, BeginningOfConcat
<1>6. n = Len(W) \/ (k.dir = "from" /\ n = k.capacity)
  <2>1. rest = <<>> => Len(rest) = 0
    OBVIOUS
  <2> HIDE DEF n
  <2> QED BY <1>2, <1>4, <1>5, <2>1
<1>7. m.dest = d /\ m.reqLength = 0 /\ m.dir = k.dir /\ m.capacity = k.capacity
  BY <1>1 DEF SameText
<1>8. BeginsWhole(m)
  BY <1>3, <1>5, <1>7 DEF BeginsWhole
<1>9. CutAtCapacity(m)
  BY <1>3, <1>6, <1>7 DEF CutAtCapacity
<1>10. Len(WholeText(m)) = Len(m.dest) + m.reqLength + Len(TextFrom(m.dir, m.src)[m.i])
  BY <1>3, <1>5, <1>7
<1> QED BY <1>8, <1>9, <1>10 DEF WrittenInv

(* A character that does not fit: units are written until the array is     *)
(* full, bytes not at all.                                                 *)
LEMMA WrittenSplit ==
  ASSUME RealSurrogates, NEW k, ConversionOK(k), WrittenInv(k), k.pc = "slow", GoesOn(k),
         Len(NextPiece(k).text) > Room(k),
         NEW m, SameText(m, k), m.i = NextPiece(k).next, m.pc = "preflight",
         m.dest = k.dest \o SubSeq(NextPiece(k).text, 1, Split(k, NextPiece(k).text)),
         m.reqLength = Len(NextPiece(k).text) - Split(k, NextPiece(k).text)
  PROVE  WrittenInv(m)
<1> DEFINE W == WholeText(k)
           p == NextPiece(k)
           d == k.dest
           u == p.text
           n == Split(k, u)
           rest == TextFrom(k.dir, k.src)[p.next]
           u1 == SubSeq(u, 1, n)
           u2 == SubSeq(u, n + 1, Len(u))
           r == Room(k)
           l == Len(d)
<1>1. /\ W = d \o TextLeft(k) /\ d \in Seq(Unit) /\ k.dir \in {"from", "to"}
      /\ r \in Nat /\ r = k.capacity - l /\ l \in Nat /\ k.capacity \in Nat
      /\ Left(k) > 0 /\ (k.dir = "from" => r > 0)
  <2>1. W = d \o TextLeft(k)
    BY DEF WrittenInv, TextLeft
  <2>2. k.dest \in Seq(Unit) /\ k.capacity \in Nat
    BY DEF ConversionOK, ConversionSet
  <2>3. l \in Nat
    BY <2>2
  <2>4. Left(k) > 0 /\ (k.dir = "from" => Room(k) > 0)
    BY DEF GoesOn
  <2>5. Room(k) \in Nat /\ Room(k) = k.capacity - Len(k.dest) /\ k.dir \in {"from", "to"}
    BY LeftAndRoom
  <2> QED BY <2>1, <2>2, <2>3, <2>4, <2>5
<1>2. /\ TextLeft(k) = u \o rest /\ u \in Seq(Unit) /\ rest \in Seq(Unit)
      /\ k.dir = "to" => Len(u) > 0 /\ SequenceLength(u[1]) = Len(u)
  BY <1>1, NextText
<1>3. /\ WholeText(m) = W /\ TextFrom(m.dir, m.src)[m.i] = rest
      /\ m.dir = k.dir /\ m.capacity = k.capacity
      /\ m.dest = d \o u1 /\ m.reqLength = Len(u) - n /\ Len(u) > r
  BY SameWhole DEF SameText
<1>0. n = IF k.dir = "from" THEN Min({r, Len(u)}) ELSE 0
  BY DEF Split
<1> HIDE DEF W, p, d, u, n, rest, r, u1, u2, l
<1>4. n = IF k.dir = "from" THEN r ELSE 0
  <2>1. r \in Int /\ Len(u) \in Int /\ r <= Len(u)
    <3>1. Len(u) \in Nat
      BY <1>2
    <3> QED BY <1>1, <1>3, <3>1
  <2>2. Min({r, Len(u)}) = r
    BY <2>1, MinOfTwo
  <2> QED BY <1>0, <2>2
<1>5. n \in Nat /\ n <= Len(u) /\ Len(u) \in Nat
  <2>1. Len(u) \in Nat
    BY <1>2
  <2> QED BY <1>1, <1>3, <1>4, <2>1
<1>6. u1 \in Seq(Unit) /\ u2 \in Seq(Unit) /\ u = u1 \o u2 /\ Len(u1) = n
  <2>1. u1 \in Seq(Unit) /\ u2 \in Seq(Unit) /\ Len(u1) = n
    BY <1>2, <1>5, PartOfText DEF u1, u2
  <2>2. SubSeq(u, 1, n) \o SubSeq(u, n + 1, Len(u)) = SubSeq(u, 1, Len(u))
    <3>1. 1 \in 1 .. Len(u) + 1 /\ n \in 1 - 1 .. Len(u) /\ Len(u) \in n .. Len(u)
      BY <1>5
    <3> QED BY <1>2, <3>1, ConcatAdjacentSubSeq
  <2>3. SubSeq(u, 1, Len(u)) = u
    BY <1>2
  <2> QED BY <2>1, <2>2, <2>3 DEF u1, u2
<1> DEFINE e == d \o u1
           after == u2 \o rest
<1>7. /\ e \in Seq(Unit) /\ Len(e) = l + n /\ after \in Seq(Unit)
      /\ Len(after) = Len(u) - n + Len(rest) /\ Len(rest) \in Nat
  <2>1. /\ e \in Seq(Unit) /\ Len(e) = Len(d) + Len(u1) /\ after \in Seq(Unit)
        /\ Len(after) = Len(u2) + Len(rest) /\ Len(u2) \in Nat /\ Len(rest) \in Nat
        /\ Len(u) = Len(u1) + Len(u2)
    BY <1>1, <1>2, <1>6, BeginningOfConcat
  <2>2. Len(d) = l
    BY DEF l
  <2> QED BY <1>5, <1>6, <2>1, <2>2
<1>8. W = e \o after
  <2>1. u1 \o after = (u1 \o u2) \o rest
    <3>1. (u1 \o u2) \o rest = u1 \o (u2 \o rest)
      BY <1>2, <1>6, UnitsInARow, Zenon
    <3> QED BY <3>1
  <2>2. e \o after = d \o (u1 \o after)
    <3>1. after \in Seq(Unit)
      BY <1>7
    <3>2. (d \o u1) \o after = d \o (u1 \o after)
      <4> HIDE DEF after
      <4> QED BY <1>1, <1>6, <3>1, UnitsInARow
    <3> QED BY <3>2
  <2> QED BY <1>1, <1>2, <1>6, <2>1, <2>2
<1>9. CutAtCapacity(m)
  <2>1. CASE k.dir = "from"
    <3>1. Len(e) = k.capacity
      <4>1. Len(e) = l + n /\ n = r /\ r = k.capacity - l
        BY <1>1, <1>4, <1>7, <2>1
      <4> HIDE DEF e, l
      <4> QED BY <1>1, <4>1
    <3> QED BY <1>3, <2>1, <3>1 DEF CutAtCapacity
  <2>2. CASE k.dir = "to"
    <3>1. n = 0 /\ k.dir # "from"
      BY <1>4, <2>2
    <3>2. e = d
      <4>1. u1 = <<>>
        BY <1>6, <3>1, EmptySeq
      <4> QED BY <1>1, <4>1, ConcatEmptySeq
    <3>3. W[l + 1] = u[1]
      <4>1. TextLeft(k) \in Seq(Unit) /\ Len(TextLeft(k)) = Len(u) + Len(rest)
        BY <1>2, BeginningOfConcat
      <4>2. W[l + 1] = TextLeft(k)[1]
        <5>1. Len(TextLeft(k)) > 0
          BY <1>2, <1>5, <1>7, <2>2, <4>1
        <5> QED BY <1>1, <4>1, <5>1, BeginningOfConcat DEF l
      <4>3. TextLeft(k)[1] = u[1]
        <5>1. 1 \in 1 .. Len(u) + Len(rest) /\ 1 <= Len(u)
          <6>1. Len(u) > 0 /\ Len(u) \in Nat /\ Len(rest) \in Nat
            BY <1>2, <1>5, <1>7, <2>2
          <6> QED BY <6>1
        <5> QED BY <1>2, <5>1, ConcatProperties
      <4> QED BY <4>2, <4>3
    <3>4. l + SequenceLength(W[l + 1]) > k.capacity
      <4>1. SequenceLength(W[l + 1]) = Len(u)
        BY <1>2, <2>2, <3>3
      <4>2. Len(u) > k.capacity - l
        BY <1>1, <1>3
      <4> QED BY <1>1, <1>5, <4>1, <4>2
    <3> QED BY <1>3, <2>2, <3>1, <3>2, <3>4 DEF CutAtCapacity, l
  <2> QED BY <1>1, <2>1, <2>2
<1> HIDE DEF e, after
<1>10. /\ Len(W) = Len(e) + Len(after) /\ e = SubSeq(W, 1, Len(e))
  BY <1>7, <1>8, BeginningOfConcat
<1>11. m.dest = e
  BY <1>3 DEF e
<1>12. BeginsWhole(m)
  BY <1>3, <1>10, <1>11 DEF BeginsWhole
<1>13. Len(WholeText(m)) = Len(m.dest) + m.reqLength + Len(TextFrom(m.dir, m.src)[m.i])
  <2>1. Len(e) \in Nat
    BY <1>7
  <2>2. Len(W) = Len(e) + (Len(u) - n) + Len(rest)
    BY <1>5, <1>7, <1>10, <2>1
  <2> QED BY <1>3, <1>11, <2>2
<1> QED BY <1>9, <1>12, <1>13 DEF WrittenInv

(* What no longer fits is counted, character by character.                 *)
LEMMA WrittenPreflight ==
  ASSUME RealSurrogates, NEW k, ConversionOK(k), WrittenInv(k), k.pc = "preflight",
         Left(k) > 0,
         NEW m, SameText(m, k), m.i = NextPiece(k).next, m.pc = "preflight",
         m.dest = k.dest, m.reqLength = k.reqLength + Len(NextPiece(k).text)
  PROVE  WrittenInv(m)
<1> DEFINE W == WholeText(k)
           p == NextPiece(k)
           u == p.text
           rest == TextFrom(k.dir, k.src)[p.next]
<1>1. /\ BeginsWhole(k) /\ CutAtCapacity(k)
      /\ Len(W) = Len(k.dest) + k.reqLength + Len(TextLeft(k))
  BY DEF WrittenInv, TextLeft
<1>2. TextLeft(k) = u \o rest /\ u \in Seq(Unit) /\ rest \in Seq(Unit)
  BY NextText
<1>3. WholeText(m) = W /\ TextFrom(m.dir, m.src)[m.i] = rest
  BY SameWhole DEF SameText
<1>4. m.dest = k.dest /\ m.dir = k.dir /\ m.capacity = k.capacity
  BY DEF SameText
<1>5. BeginsWhole(m) /\ CutAtCapacity(m)
  BY <1>1, <1>3, <1>4 DEF BeginsWhole, CutAtCapacity
<1>6. k.reqLength \in Nat /\ Len(k.dest) \in Nat
  <2>1. k.reqLength \in Nat /\ k.dest \in Seq(Unit)
    BY DEF ConversionOK, ConversionSet
  <2> QED BY <2>1
<1> HIDE DEF W, p, u, rest
<1>7. Len(TextLeft(k)) = Len(u) + Len(rest) /\ Len(u) \in Nat /\ Len(rest) \in Nat
  BY <1>2, BeginningOfConcat
<1>8. m.reqLength = k.reqLength + Len(u)
  BY DEF u, p
<1>9. Len(WholeText(m)) = Len(m.dest) + m.reqLength + Len(TextFrom(m.dir, m.src)[m.i])
  <2>1. Len(W) = Len(k.dest) + (k.reqLength + Len(u)) + Len(rest)
    BY <1>1, <1>6, <1>7
  <2> QED BY <1>3, <1>4, <1>8, <2>1
<1> QED BY <1>5, <1>9 DEF WrittenInv

(* At the end the count is the length of the whole text.                   *)
LEMMA WrittenAll ==
  ASSUME RealSurrogates, NEW k, ConversionOK(k), WrittenInv(k), k.pc = "preflight",
         Left(k) = 0,
         NEW m, SameText(m, k), m.dest = k.dest, m.pc = "returned",
         m.reqLength = RequiredLength(k),
         m.status = TerminateStatus(k.capacity, RequiredLength(k), U_ZERO_ERROR)
  PROVE  WrittenInv(m)
<1> DEFINE W == WholeText(k)
<1>1. /\ BeginsWhole(k) /\ CutAtCapacity(k)
      /\ Len(W) = Len(k.dest) + k.reqLength + Len(TextLeft(k))
  BY DEF WrittenInv, TextLeft
<1>2. TextLeft(k) = <<>>
  <2>1. k.src \in Seq(Unit) /\ k.dir \in {"from", "to"} /\ k.i \in Nat /\ Len(k.src) \in Nat
    BY LeftAndRoom DEF ConversionOK, ConversionSet
  <2>2. k.i = Len(k.src)
    BY <2>1 DEF Left
  <2> QED BY <2>1, <2>2, TextByPieces DEF TextLeft
<1>3. WholeText(m) = W
  BY SameWhole
<1>4. m.dest = k.dest /\ m.dir = k.dir /\ m.capacity = k.capacity
  BY DEF SameText
<1>5. BeginsWhole(m) /\ CutAtCapacity(m)
  BY <1>1, <1>3, <1>4 DEF BeginsWhole, CutAtCapacity
<1>6. k.reqLength \in Nat /\ Len(k.dest) \in Nat
  <2>1. k.reqLength \in Nat /\ k.dest \in Seq(Unit)
    BY DEF ConversionOK, ConversionSet
  <2> QED BY <2>1
<1> HIDE DEF W
<1>7. RequiredLength(k) = Len(W)
  <2>1. Len(TextLeft(k)) = 0
    BY <1>2
  <2> QED BY <1>1, <1>6, <2>1 DEF RequiredLength
<1> QED BY <1>3, <1>4, <1>5, <1>7 DEF WrittenInv

(* Every step of a conversion.                                             *)
LEMMA WrittenStep ==
  ASSUME RealSurrogates, ConversionOK(conv), WrittenInv(conv), Convert
  PROVE  WrittenInv(conv')
<1>1. conv \in ConversionSet
  BY DEF ConversionOK
<1>2. CASE BeginBlock
  <2>1. /\ conv.pc = "block" /\ SameText(conv', conv) /\ conv'.i = conv.i
        /\ conv'.reqLength = conv.reqLength /\ conv'.dest = conv.dest
        /\ conv'.pc = Phase(Rounds(conv))
    BY <1>1, <1>2 DEF BeginBlock, ConversionSet, SameText
  <2>2. conv'.pc \in {"block", "fast", "slow"}
    BY <2>1 DEF Phase
  <2> QED BY <2>1, <2>2, WrittenStill
<1>3. CASE BackOut
  <2>1. /\ conv.pc = "fast" /\ SameText(conv', conv) /\ conv'.i = conv.i
        /\ conv'.reqLength = conv.reqLength /\ conv'.dest = conv.dest /\ conv'.pc = "block"
    BY <1>1, <1>3 DEF BackOut, ConversionSet, SameText
  <2> QED BY <2>1, WrittenStill
<1>4. CASE ConvertFast
  <2> DEFINE piece == NextPiece(conv)
             cost == Cost(piece)
             at == IF conv.count = cost THEN "block" ELSE "fast"
  <2>1. /\ conv.pc = "fast" /\ conv.count >= cost
        /\ conv' = [conv EXCEPT !.i = piece.next, !.dest = @ \o piece.text,
                                !.count = @ - cost, !.pc = at]
    BY <1>4 DEF ConvertFast
  <2>2. at \in {"block", "fast"}
    OBVIOUS
  <2>3. /\ SameText(conv', conv) /\ conv'.i = piece.next
        /\ conv'.reqLength = conv.reqLength /\ conv'.dest = conv.dest \o piece.text
        /\ conv'.pc \in {"block", "fast", "slow"}
    <3> HIDE DEF piece, cost, at
    <3> QED BY <1>1, <2>1, <2>2 DEF ConversionSet, SameText
  <2>4. Left(conv) > 0
    <3>1. Cost(NextPiece(conv)) \in {1, 2}
      BY DEF Cost
    <3>2. CounterFits(conv) /\ conv.count \in Int /\ conv.dir \in {"from", "to"}
          /\ Left(conv) \in Nat /\ Room(conv) \in Nat
      BY <2>1, LeftAndRoom DEF ConversionOK
    <3> QED BY <2>1, <3>1, <3>2 DEF CounterFits
  <2> QED BY <2>1, <2>3, <2>4, WrittenOn
<1>5. CASE ConvertSlow
  <2>1. /\ conv.pc = "slow" /\ SameText(conv', conv) /\ conv'.i = NextPiece(conv).next
        /\ conv'.reqLength = conv.reqLength
        /\ conv'.dest = conv.dest \o NextPiece(conv).text
        /\ conv'.pc \in {"block", "fast", "slow"} /\ Left(conv) > 0
    BY <1>1, <1>5 DEF ConvertSlow, ConversionSet, SameText, GoesOn
  <2> QED BY <2>1, WrittenOn
<1>6. CASE ConvertSplit
  <2> DEFINE piece == NextPiece(conv)
             n == Split(conv, piece.text)
  <2>1. /\ conv.pc = "slow" /\ GoesOn(conv) /\ Len(piece.text) > Room(conv)
        /\ conv' = [conv EXCEPT !.i = piece.next,
                                !.dest = @ \o SubSeq(piece.text, 1, n),
                                !.reqLength = Len(piece.text) - n,
                                !.pc = "preflight"]
    BY <1>6 DEF ConvertSplit
  <2>2. /\ SameText(conv', conv) /\ conv'.i = piece.next /\ conv'.pc = "preflight"
        /\ conv'.dest = conv.dest \o SubSeq(piece.text, 1, n)
        /\ conv'.reqLength = Len(piece.text) - n
    <3> HIDE DEF piece, n
    <3> QED BY <1>1, <2>1 DEF ConversionSet, SameText
  <2> QED BY <2>1, <2>2, WrittenSplit
<1>7. CASE EndSlow
  <2>1. /\ conv.pc = "slow" /\ ~GoesOn(conv) /\ SameText(conv', conv) /\ conv'.i = conv.i
        /\ conv'.reqLength = conv.reqLength /\ conv'.dest = conv.dest
        /\ conv'.pc = "preflight"
    BY <1>1, <1>7 DEF EndSlow, ConversionSet, SameText
  <2> QED BY <2>1, WrittenAtEnd
<1>8. CASE Preflight
  <2>1. /\ conv.pc = "preflight" /\ Left(conv) > 0 /\ SameText(conv', conv)
        /\ conv'.i = NextPiece(conv).next /\ conv'.pc = "preflight"
        /\ conv'.dest = conv.dest
        /\ conv'.reqLength = conv.reqLength + Len(NextPiece(conv).text)
    BY <1>1, <1>8 DEF Preflight, ConversionSet, SameText
  <2> QED BY <2>1, WrittenPreflight
<1>9. CASE ReturnLength
  <2>1. /\ conv.pc = "preflight" /\ Left(conv) = 0 /\ SameText(conv', conv)
        /\ conv'.dest = conv.dest /\ conv'.pc = "returned"
        /\ conv'.reqLength = RequiredLength(conv)
        /\ conv'.status = TerminateStatus(conv.capacity, RequiredLength(conv), U_ZERO_ERROR)
    BY <1>1, <1>9 DEF ReturnLength, ConversionSet, SameText
  <2> QED BY <2>1, WrittenAll
<1> QED BY <1>2, <1>3, <1>4, <1>5, <1>6, <1>7, <1>8, <1>9 DEF Convert

(* Nothing is written when a conversion begins.                            *)
LEMMA WrittenAtFirst ==
  ASSUME RealSurrogates, NEW dir \in {"from", "to"}, NEW src \in Seq(Unit), NEW capacity
  PROVE  WrittenInv(Begins(dir, src, capacity))
<1> DEFINE k == Begins(dir, src, capacity)
<1>1. /\ k.pc = "block" /\ k.reqLength = 0 /\ k.dest = <<>> /\ k.i = 0
      /\ k.dir = dir /\ k.src = src
  BY DEF Begins
<1>2. TextFrom(dir, src)[0] \in Seq(Unit)
  <2>1. 0 \in 0 .. Len(src)
    BY LenProperties
  <2> QED BY <2>1, TextByPieces
<1> HIDE DEF k
<1>3. WholeText(k) = <<>> \o TextFrom(dir, src)[0]
  BY <1>1, <1>2, ConcatEmptySeq DEF WholeText
<1>4. WrittenInv(k)
  BY <1>1, <1>3 DEF WrittenInv
<1> QED BY <1>4 DEF k

(* The conversion that nobody has called.                                  *)
LEMMA WrittenIdle ==
  ASSUME RealSurrogates
  PROVE  WrittenInv(Idle)
<1> DEFINE k == Idle
<1>1. /\ k.pc = "returned" /\ k.reqLength = 0 /\ k.dest = <<>> /\ k.dir = "from"
      /\ k.src = <<>> /\ k.capacity = 0
      /\ k.status = U_STRING_NOT_TERMINATED_WARNING
  BY DEF Idle, Begins
<1>2. TextFrom("from", <<>>)[0] = <<>>
  <2>1. <<>> \in Seq(Unit) /\ Len(<<>>) = 0
    BY EmptySeq
  <2> QED BY <2>1, TextByPieces
<1> HIDE DEF k
<1>3. WholeText(k) = <<>> /\ Len(WholeText(k)) = 0 /\ Len(k.dest) = 0
  BY <1>1, <1>2 DEF WholeText
<1>4. <<>> = SubSeq(<<>>, 1, 0)
  <2>1. <<>> \in Seq(Unit) /\ 1 \in 1 .. 1 /\ 0 \in 0 .. 0
    OBVIOUS
  <2> QED BY SMT
<1>5. BeginsWhole(k) /\ CutAtCapacity(k)
  BY <1>1, <1>3, <1>4 DEF BeginsWhole, CutAtCapacity
<1>6. k.status = TerminateStatus(k.capacity, Len(WholeText(k)), U_ZERO_ERROR)
  <2>1. TerminateStatus(0, 0, U_ZERO_ERROR) = U_STRING_NOT_TERMINATED_WARNING
    BY DEF TerminateStatus, U_FAILURE, U_ZERO_ERROR
  <2> QED BY <1>1, <1>3, <2>1
<1>7. WrittenInv(k)
  BY <1>1, <1>3, <1>5, <1>6 DEF WrittenInv
<1> QED BY <1>7 DEF k

(* The steps of a call either take a step of its conversion, or leave it   *)
(* alone, begin another one or put it away.                                *)
LEMMA ConversionInCall ==
  ASSUME Next
  PROVE  \/ Convert \/ conv' = conv \/ conv' = Idle
         \/ \E dir, src, capacity : conv' = Begins(dir, src, capacity)
BY DEF Next, CallWithNull, Enter, Refuse, CallProcess, Process16, Extract, AsciiByte,
       AsciiEnd, AsciiBreak, PrefixConverted, Process, NothingToAppend, GetAppendBuffer,
       AppendConverted, ConvertAgain, LoseText, Terminate, HandOver, GiveUp, CallerFrees,
       ConvertStep, Done, FromUTF8, vars

(* So WrittenInv is kept by every step of a call.                          *)
LEMMA WrittenInCall ==
  ASSUME RealSurrogates, LookupInv, WrittenInv(conv), Next, LookupInv'
  PROVE  WrittenInv(conv')
<1>1. ConversionOK(conv) /\ ConversionOK(conv')
  BY DEF LookupInv
<1>2. CASE Convert
  BY <1>1, <1>2, WrittenStep
<1>3. CASE conv' = conv
  BY <1>3
<1>4. CASE conv' = Idle
  BY <1>4, WrittenIdle
<1>5. CASE \E dir, src, capacity : conv' = Begins(dir, src, capacity)
  <2>1. PICK dir, src, capacity : conv' = Begins(dir, src, capacity)
    BY <1>5
  <2>2. conv'.dir = dir /\ conv'.src = src
    BY <2>1 DEF Begins
  <2>3. dir \in {"from", "to"} /\ src \in Seq(Unit)
    BY <1>1, <2>2 DEF ConversionOK, ConversionSet
  <2> QED BY <2>1, <2>3, WrittenAtFirst
<1> QED BY <1>2, <1>3, <1>4, <1>5, ConversionInCall

(* What WrittenInv says of a conversion that has returned is what the      *)
(* standard demands.                                                       *)
LEMMA WrittenIsDefined ==
  ASSUME RealSurrogates, ConversionOK(conv), WrittenInv(conv)
  PROVE  ConvertsTheDefinition
<1> SUFFICES ASSUME conv.pc = "returned"
             PROVE  ConvertsTheDefinition
  BY DEF ConvertsTheDefinition
<1> DEFINE whole == IF conv.dir = "from" THEN DecodedText(conv.src) ELSE EncodedText(conv.src)
           n     == Len(conv.dest)
<1>1. conv.src \in Seq(Unit) /\ conv.dir \in {"from", "to"}
  BY DEF ConversionOK, ConversionSet
<1>2. whole = WholeText(conv)
  BY <1>1, DecodedTextFrom, EncodedTextFrom DEF WholeText
<1>3. BeginsWhole(conv) /\ CutAtCapacity(conv) /\ conv.reqLength = Len(WholeText(conv))
      /\ conv.status = TerminateStatus(conv.capacity, Len(WholeText(conv)), U_ZERO_ERROR)
  BY DEF WrittenInv
<1> HIDE DEF whole
<1>4. /\ conv.reqLength = Len(whole) /\ conv.dest = SubSeq(whole, 1, n)
      /\ n = Len(whole) \/ (IF conv.dir = "from" THEN n = conv.capacity
                            ELSE n + SequenceLength(whole[n + 1]) > conv.capacity)
      /\ conv.status = TerminateStatus(conv.capacity, Len(whole), U_ZERO_ERROR)
  BY <1>2, <1>3 DEF BeginsWhole, CutAtCapacity
<1> QED BY <1>4 DEF ConvertsTheDefinition, whole

(* u_strFromUTF8WithSub() and u_strToUTF8WithSub() write the beginning of  *)
(* the text that the standard demands, cut at the capacity, and return the *)
(* length of the whole text, for texts and arrays of any size: whichever   *)
(* of the loops converts a character, it converts it once and in its turn. *)
THEOREM ConversionsAreExact ==
  ASSUME RealSurrogates, LookupInputs
  PROVE  Spec => []ConvertsTheDefinition
<1> DEFINE Inv == LookupInv /\ WrittenInv(conv)
<1>1. Init => Inv
  BY LookupInvInit, WrittenIdle DEF Init
<1>2. Inv /\ [Next]_vars => Inv'
  <2> SUFFICES ASSUME Inv, [Next]_vars
               PROVE  Inv'
    OBVIOUS
  <2>1. LookupInv'
    BY LookupInvStep
  <2>2. CASE Next
    BY <2>1, <2>2, WrittenInCall
  <2>3. CASE UNCHANGED vars
    BY <2>1, <2>3 DEF vars
  <2> QED BY <2>2, <2>3
<1>3. Inv => ConvertsTheDefinition
  BY WrittenIsDefined DEF LookupInv
<1> HIDE DEF Inv
<1> QED BY <1>1, <1>2, <1>3, PTL DEF Spec

-----------------------------------------------------------------------------
(* The text of a call as a whole.  An ASCII unit in front of a text stays  *)
(* in front of what the text is converted to.                              *)
Ascii == {b \in Unit : b < 128}

(* s is t with a unit in front.                                            *)
Behind(s, t) == Len(s) = Len(t) + 1 /\ \A x \in 1 .. Len(t) : s[x + 1] = t[x]

(* The bytes of both, those behind their ends included.                    *)
LEMMA BytesBehind ==
  ASSUME NEW s \in Seq(Unit), NEW t \in Seq(Unit), Behind(s, t), NEW j \in Nat
  PROVE  ByteAt(s, j + 1) = ByteAt(t, j)
<1>1. Len(s) = Len(t) + 1 /\ Len(t) \in Nat /\ \A x \in 1 .. Len(t) : s[x + 1] = t[x]
  BY DEF Behind
<1>2. CASE j < Len(t)
  <2>1. j + 1 \in 1 .. Len(t) /\ j + 1 < Len(s)
    BY <1>1, <1>2
  <2>2. s[(j + 1) + 1] = t[j + 1]
    BY <1>1, <2>1
  <2> QED BY <1>2, <2>1, <2>2 DEF ByteAt
<1>3. CASE ~(j < Len(t))
  <2>1. ~(j + 1 < Len(s))
    BY <1>1, <1>3
  <2> QED BY <1>3, <2>1 DEF ByteAt
<1> QED BY <1>2, <1>3

(* What follows is taken apart in the same way.                            *)
LEMMA PieceBehind ==
  ASSUME NEW s \in Seq(Unit), NEW t \in Seq(Unit), Behind(s, t), NEW dir \in {"from", "to"},
         NEW i \in 0 .. Len(t) - 1
  PROVE  /\ PieceAt(dir, s, i + 1).text = PieceAt(dir, t, i).text
         /\ PieceAt(dir, s, i + 1).next = PieceAt(dir, t, i).next + 1
<1>1. Len(s) = Len(t) + 1 /\ Len(t) \in Nat /\ \A x \in 1 .. Len(t) : s[x + 1] = t[x]
  BY DEF Behind
<1>2. i \in Nat /\ i + 1 \in 1 .. Len(t) /\ i + 1 \in 0 .. Len(s) - 1
  BY <1>1
<1>3. CASE dir = "from"
  <2> DEFINE j == i + 1
             S(z, k, limit) ==
               {n \in 1 .. SequenceLength(ByteAt(z, k)) :
                  /\ n = 1 \/ k + n <= limit
                  /\ n > 1 => MayFollow(ByteAt(z, k), ByteAt(z, k + 1))
                  /\ \A x \in 2 .. n - 1 : IsTrailByte(ByteAt(z, k + x))}
             n == ValidLength(t, i, Len(t))
  <2>1. ByteAt(s, j) = ByteAt(t, i) /\ ByteAt(s, j + 1) = ByteAt(t, i + 1)
        /\ ByteAt(s, j + 2) = ByteAt(t, i + 2) /\ ByteAt(s, j + 3) = ByteAt(t, i + 3)
    <3>1. i + 1 \in Nat /\ i + 2 \in Nat /\ i + 3 \in Nat
          /\ j + 2 = (i + 2) + 1 /\ j + 3 = (i + 3) + 1
      BY <1>2
    <3> QED BY <1>2, <3>1, BytesBehind
  <2>2. SequenceLength(ByteAt(t, i)) \in 1 .. 4
    BY SMT DEF SequenceLength
  <2>3. ASSUME NEW x \in 1 .. SequenceLength(ByteAt(t, i))
        PROVE  x \in S(s, j, Len(s)) <=> x \in S(t, i, Len(t))
    <3>1. x \in 1 .. 4
      BY <2>2
    <3>2. j + x <= Len(s) <=> i + x <= Len(t)
      BY <1>1, <1>2, <3>1
    <3>3. \A k \in 2 .. x - 1 : ByteAt(s, j + k) = ByteAt(t, i + k)
      <4> TAKE k \in 2 .. x - 1
      <4>1. k \in {2, 3}
        BY <3>1
      <4> QED BY <2>1, <4>1
    <3> HIDE DEF j
    <3> QED BY <2>1, <3>2, <3>3
  <2>4. S(s, j, Len(s)) = S(t, i, Len(t))
    <3>1. S(s, j, Len(s)) \subseteq 1 .. SequenceLength(ByteAt(t, i))
          /\ S(t, i, Len(t)) \subseteq 1 .. SequenceLength(ByteAt(t, i))
      BY <2>1
    <3> HIDE DEF S
    <3> QED BY <2>3, <3>1
  <2>5. ValidLength(s, j, Len(s)) = n
    <3>1. ValidLength(s, j, Len(s)) = Max(S(s, j, Len(s)))
          /\ ValidLength(t, i, Len(t)) = Max(S(t, i, Len(t)))
      BY DEF ValidLength
    <3> HIDE DEF S
    <3> QED BY <2>4, <3>1
  <2>6. ValueOf(s, j, n) = ValueOf(t, i, n)
    <3> HIDE DEF j, n
    <3> QED BY <2>1, SMT DEF ValueOf
  <2>7. NextOfUTF8(s, j, Len(s)).text = NextOfUTF8(t, i, Len(t)).text
        /\ NextOfUTF8(s, j, Len(s)).next = j + n /\ NextOfUTF8(t, i, Len(t)).next = i + n
    <3> HIDE DEF j
    <3> QED BY <2>1, <2>5, <2>6 DEF NextOfUTF8
  <2>8. n \in Int
    <3>1. n \in 1 .. SequenceLength(ByteAt(t, i))
      BY ValidLengthFits, SMT
    <3> HIDE DEF n
    <3> QED BY <2>2, <3>1
  <2>9. j + n = (i + n) + 1
    <3> HIDE DEF n
    <3> QED BY <1>2, <2>8
  <2> QED BY <1>3, <2>7, <2>9 DEF PieceAt
<1>4. CASE dir = "to"
  <2> DEFINE j == i + 1
  <2>1. s[j + 1] = t[i + 1]
    BY <1>1, <1>2
  <2>2. StartsPair(s, j) <=> StartsPair(t, i)
    <3>1. j + 2 <= Len(s) <=> i + 2 <= Len(t)
      BY <1>1, <1>2
    <3>2. i + 2 <= Len(t) => s[j + 2] = t[i + 2]
      <4> HAVE i + 2 <= Len(t)
      <4>1. i + 2 \in 1 .. Len(t) /\ j + 2 = (i + 2) + 1
        BY <1>1, <1>2
      <4> QED BY <1>1, <4>1
    <3> HIDE DEF j
    <3> QED BY <2>1, <3>1, <3>2 DEF StartsPair
  <2>3. CodePointAt(s, j) = CodePointAt(t, i)
    <3>1. StartsPair(t, i) => s[j + 2] = t[i + 2]
      <4> HAVE StartsPair(t, i)
      <4>1. i + 2 \in 1 .. Len(t) /\ j + 2 = (i + 2) + 1
        BY <1>1, <1>2 DEF StartsPair
      <4> QED BY <1>1, <4>1
    <3> HIDE DEF j
    <3> QED BY <2>1, <2>2, <3>1 DEF CodePointAt
  <2> DEFINE n == U16_LENGTH(CodePointAt(t, i))
  <2>4. NextOfUTF16(s, j).text = NextOfUTF16(t, i).text
        /\ NextOfUTF16(s, j).next = j + n /\ NextOfUTF16(t, i).next = i + n
    <3> HIDE DEF j
    <3> QED BY <2>3 DEF NextOfUTF16
  <2>5. n \in {1, 2}
    BY DEF U16_LENGTH
  <2>6. j + n = (i + n) + 1
    <3> HIDE DEF n
    <3> QED BY <1>2, <2>5
  <2> QED BY <1>4, <2>4, <2>6 DEF PieceAt
<1> QED BY <1>3, <1>4

(* So the texts are the same.                                              *)
LEMMA TextBehind ==
  ASSUME RealSurrogates, NEW s \in Seq(Unit), NEW t \in Seq(Unit), Behind(s, t),
         NEW dir \in {"from", "to"}
  PROVE  TextFrom(dir, s)[1] = TextFrom(dir, t)[0]
<1> DEFINE L == Len(t)
           f == [i \in 0 .. L |-> TextFrom(dir, s)[i + 1]]
           g == TextFrom(dir, t)
           next == Nexts(dir, t)
           piece == PieceTexts(dir, t)
<1>1. Len(s) = L + 1 /\ L \in Nat
  BY DEF Behind
<1>2. f[L] = <<>>
  <2>1. TextFrom(dir, s)[Len(s)] = <<>>
    BY TextByPieces
  <2>2. L \in 0 .. L
    BY <1>1
  <2> HIDE DEF L
  <2> QED BY <1>1, <2>1, <2>2
<1>3. ASSUME NEW i \in 0 .. L - 1 PROVE f[i] = piece[i] \o f[next[i]]
  <2> DEFINE p == PieceAt(dir, t, i)
             q == PieceAt(dir, s, i + 1)
  <2>1. piece[i] = p.text /\ next[i] = p.next
    BY PiecesAreForward
  <2>2. q.text = p.text /\ q.next = p.next + 1
    BY PieceBehind
  <2>3. p.next \in 0 .. L
    <3>1. p.next \in Nat /\ p.next <= L
      BY PieceLeadsOn
    <3> HIDE DEF p
    <3> QED BY <1>1, <3>1
  <2>4. i + 1 \in 0 .. Len(s) - 1 /\ i \in 0 .. L
    BY <1>1
  <2>5. TextFrom(dir, s)[i + 1] = q.text \o TextFrom(dir, s)[q.next]
    BY <2>4, TextByPieces
  <2> HIDE DEF p, q, L
  <2> QED BY <2>1, <2>2, <2>3, <2>4, <2>5
<1>4. IsChain(f, L, next, piece)
  <2> HIDE DEF f, next, piece, L
  <2> QED BY <1>2, <1>3 DEF IsChain
<1>5. IsChain(g, L, next, piece)
  BY TextIsChain
<1>6. Forward(next, L)
  BY PiecesAreForward
<1>7. f[0] = g[0]
  <2> HIDE DEF f, g, next, piece, L
  <2>1. \A h, k : IsChain(h, L, next, piece) /\ IsChain(k, L, next, piece)
                   => \A i \in 0 .. L : h[i] = k[i]
    BY <1>1, <1>6, ChainIsUnique
  <2>2. \A i \in 0 .. L : f[i] = g[i]
    BY <1>4, <1>5, <2>1, Zenon
  <2> QED BY <1>1, <2>2
<1>8. f[0] = TextFrom(dir, s)[1]
  BY <1>1
<1> QED BY <1>7, <1>8

(* An ASCII unit is converted to itself.                                   *)
LEMMA AsciiPiece ==
  ASSUME RealSurrogates, NEW s \in Seq(Unit), Len(s) > 0, NEW b \in Ascii, s[1] = b,
         NEW dir \in {"from", "to"}
  PROVE  PieceAt(dir, s, 0).text = <<b>> /\ PieceAt(dir, s, 0).next = 1
<1>1. b \in Nat /\ b < 128 /\ 0 \in 0 .. Len(s) - 1
  BY DEF Ascii, Unit
<1>2. CASE dir = "from"
  <2>1. ByteAt(s, 0) = b
    BY DEF ByteAt
  <2>2. SequenceLength(b) = 1
    <3>1. b < 194
      BY <1>1
    <3> QED BY <1>1, <3>1, FollowersByRange
  <2>3. ValidLength(s, 0, Len(s)) \in 1 .. SequenceLength(ByteAt(s, 0))
    BY <1>1, ValidLengthFits, SMT
  <2>4. ValidLength(s, 0, Len(s)) = 1
    BY <2>1, <2>2, <2>3
  <2>5. ValueOf(s, 0, 1) = b
    BY <1>1, <2>1, SMT DEF ValueOf
  <2>6. CodeUnits(b) = <<b>>
    BY <1>1, SMT DEF CodeUnits, U16_LENGTH, RealSurrogates
  <2>7. NextOfUTF8(s, 0, Len(s)).text = <<b>> /\ NextOfUTF8(s, 0, Len(s)).next = 0 + 1
    BY <1>1, <2>1, <2>2, <2>4, <2>5, <2>6 DEF NextOfUTF8
  <2> QED BY <1>2, <2>7 DEF PieceAt
<1>3. CASE dir = "to"
  <2>1. CodePointAt(s, 0) = b /\ ~IsSurrogate(b) /\ U16_LENGTH(b) = 1
    <3>1. ~IsLead(b) /\ ~IsSurrogate(b) /\ U16_LENGTH(b) = 1
      BY <1>1, SMT DEF IsLead, IsSurrogate, U16_LENGTH, RealSurrogates
    <3> QED BY <3>1 DEF CodePointAt, StartsPair
  <2>2. AppendUTF8(b) = <<b>>
    BY <1>1, SMT DEF AppendUTF8
  <2>3. NextOfUTF16(s, 0).text = <<b>> /\ NextOfUTF16(s, 0).next = 0 + 1
    BY <2>1, <2>2 DEF NextOfUTF16
  <2> QED BY <1>3, <2>3 DEF PieceAt
<1> QED BY <1>2, <1>3

(* One unit and a text.                                                    *)
LEMMA AsciiInFront ==
  ASSUME RealSurrogates, NEW b \in Ascii, NEW t \in Seq(Unit), NEW dir \in {"from", "to"}
  PROVE  TextFrom(dir, <<b>> \o t)[0] = <<b>> \o TextFrom(dir, t)[0]
<1> DEFINE s == <<b>> \o t
<1>1. /\ s \in Seq(Unit) /\ Len(s) = 1 + Len(t) /\ Len(t) \in Nat
      /\ \A x \in 1 .. 1 + Len(t) : s[x] = IF x <= 1 THEN <<b>>[x] ELSE t[x - 1]
  <2>1. <<b>> \in Seq(Unit) /\ Len(<<b>>) = 1
    BY DEF Ascii
  <2> QED BY <2>1, ConcatProperties, LenProperties
<1> HIDE DEF s
<1>2. s[1] = b /\ Len(s) > 0
  BY <1>1
<1>3. Behind(s, t)
  <2>1. ASSUME NEW x \in 1 .. Len(t) PROVE s[x + 1] = t[x]
    <3>1. x + 1 \in 1 .. 1 + Len(t) /\ ~(x + 1 <= 1) /\ (x + 1) - 1 = x
      BY <1>1
    <3> QED BY <1>1, <3>1
  <2> QED BY <1>1, <2>1 DEF Behind
<1>4. PieceAt(dir, s, 0).text = <<b>> /\ PieceAt(dir, s, 0).next = 1
  BY <1>1, <1>2, AsciiPiece
<1>5. TextFrom(dir, s)[0] = <<b>> \o TextFrom(dir, s)[1]
  <2>1. 0 \in 0 .. Len(s) - 1
    BY <1>1
  <2> QED BY <1>1, <1>4, <2>1, TextByPieces
<1> QED BY <1>1, <1>3, <1>5, TextBehind DEF s

-----------------------------------------------------------------------------
(* The text of a call as a whole.  Of the mapping it is asked what the     *)
(* loop over ASCII takes for granted: a label that the loop takes becomes  *)
(* lower case where it ends, and may be put into lower case before it is   *)
(* mapped together with what follows.                                      *)
LoopKeepsMapping ==
  \A c \in Calls : c.function.utf8 =>
    \A l \in Seq(Ascii), s \in Seq(Unit) : KeepsLabels(l, s, c)

(* What stands for a bogus string is no text.                              *)
NoneIsNoText == None \notin Seq(Unit)

(* The label that the loop has begun, as it was, and what the loop has not *)
(* come to.                                                                *)
BegunLabel == SubSeq(ascii, labelStart + 1, Len(ascii))
RawLabel   == SubSeq(Src, labelStart + 1, Len(ascii))
AfterAscii == SubSeq(Src, Len(ascii) + 1, Len(Src))

(* A text that is converted to itself, whatever stands behind it.          *)
StaysInFront(a) ==
  \A s \in Seq(Unit) : /\ DecodedText(a \o s) = a \o DecodedText(s)
                       /\ EncodedText(a \o s) = a \o EncodedText(s)

(* The whole name is what the loop has done and what is mapped of the      *)
(* rest, which begins with a label that the loop takes.                    *)
LoopInv ==
  call.function.utf8 =>
    /\ Len(ascii) <= Len(Src)
    /\ RawLabel \in Seq(Ascii) /\ TakesLabel(RawLabel, call)
    /\ BegunLabel = LowerText(RawLabel)
    /\ StaysInFront(RawLabel) /\ StaysInFront(BegunLabel)
    /\ WholeName = DoneLabels \o EncodedText(MappedText(DecodedText(Rest)))

(* What the sink has of a text.                                            *)
Holds(bytes) ==
  /\ sink.appended = Len(bytes)
  /\ sink.bytes = SubSeq(bytes, 1, Min({Capacity, Len(bytes)}))

IsAccepted == checkArgs /\ (call.function.opens \/ U_SUCCESS(call.error))

ResultCodes == {U_ZERO_ERROR, U_STRING_NOT_TERMINATED_WARNING, U_BUFFER_OVERFLOW_ERROR}

Delivered ==
  /\ sink.appended = Len(WholeName)
  /\ call.function.utf8 \/ Len(WholeName) <= Capacity =>
       sink.bytes = SubSeq(WholeName, 1, Min({Capacity, Len(WholeName)}))
  /\ error = TerminateStatus(Capacity, Len(WholeName), U_ZERO_ERROR)

Beginning == {"called", "entered"}
Looping   == {"ascii", "prefix"}
Sinking   == {"sink", "first", "second"}
Over      == {"returned", "answered", "done"}

(* Before the result is terminated there are two failures.                 *)
CodeSoFar ==
  /\ error \in Int
  /\ U_SUCCESS(error) \/ error \in {U_ILLEGAL_ARGUMENT_ERROR, U_MEMORY_ALLOCATION_ERROR}

BeginningInv ==
  pc \in Beginning =>
    /\ ascii = <<>> /\ labelStart = 0 /\ text = <<>> /\ ~inPlace
    /\ sink.bytes = <<>> /\ sink.appended = 0
    /\ error = IF pc = "entered" /\ call.function.opens THEN U_ZERO_ERROR ELSE call.error

AcceptedInv ==
  /\ pc \in Looping \cup Sinking \cup {"rest", "terminate"} => call.function.utf8
  /\ pc = "extract" => ~call.function.utf8
  /\ pc \in Looping \cup Sinking \cup {"rest", "terminate", "extract"} => IsAccepted /\ CodeSoFar

RestInv ==
  /\ pc \in Looping => Holds(<<>>)
  /\ pc = "prefix" => conv.dir = "from" /\ conv.src = BegunLabel
  /\ pc = "rest" =>
       /\ conv.dir = "from" /\ conv.src = Rest
       /\ text \in {None, BegunLabel} /\ Holds(DoneLabels)

SinkingInv ==
  /\ pc \in Sinking =>
       /\ Holds(DoneLabels)
       /\ U_SUCCESS(error) => text # None /\ WholeName = DoneLabels \o EncodedText(text)
  /\ pc \in {"first", "second"} => conv.dir = "to" /\ conv.src = text

EndInv ==
  /\ pc = "terminate" /\ ~lost /\ U_SUCCESS(error) => Holds(WholeName)
  /\ pc = "extract" =>
       /\ U_SUCCESS(error) => text = WholeName
       /\ inPlace => sink.bytes = text /\ Len(text) <= Capacity
  /\ pc \in Over /\ IsAccepted /\ ~lost /\ error \in ResultCodes => Delivered

HandedInv ==
  /\ out = [buf |-> out.buf, lookupname |-> out.lookupname, rc |-> out.rc, freed |-> out.freed]
  /\ out.lookupname = "buf" => pc \in Over /\ error = U_ZERO_ERROR
  /\ out.lookupname = "null" => ~checkArgs

(* The conversion that has returned without a failure has written all.     *)
FullInv(k) ==
  k.pc \in {"preflight", "returned"} =>
    /\ Len(k.dest) <= Len(WholeText(k))
    /\ Len(k.dest) = Len(WholeText(k)) \/ k.capacity < Len(WholeText(k))

PhaseInv == BeginningInv /\ AcceptedInv /\ RestInv /\ SinkingInv /\ EndInv

WholeInv == LookupInv /\ WrittenInv(conv) /\ FullInv(conv) /\ LoopInv /\ PhaseInv

-----------------------------------------------------------------------------
(* What a text is decoded or encoded to is a text, and an ASCII unit in    *)
(* front stays where it is.                                                *)
LEMMA DecodedIsText ==
  ASSUME RealSurrogates, NEW s \in Seq(Unit)
  PROVE  DecodedText(s) \in Seq(Unit) /\ EncodedText(s) \in Seq(Unit)
<1>1. 0 \in 0 .. Len(s)
  BY LenProperties
<1>2. TextFrom("from", s)[0] \in Seq(Unit) /\ TextFrom("to", s)[0] \in Seq(Unit)
  BY <1>1, TextByPieces
<1>3. DecodedText(s) = TextFrom("from", s)[0]
  BY DecodedTextFrom
<1>4. EncodedText(s) = TextFrom("to", s)[0]
  BY EncodedTextFrom
<1> QED BY <1>2, <1>3, <1>4

(* What stands behind the unit is converted as if it stood alone.          *)
LEMMA UnitInFront ==
  ASSUME RealSurrogates, NEW b \in Ascii, NEW s \in Seq(Unit)
  PROVE  /\ DecodedText(<<b>> \o s) = <<b>> \o DecodedText(s)
         /\ EncodedText(<<b>> \o s) = <<b>> \o EncodedText(s)
<1> DEFINE one == <<b>>
           t == one \o s
<1>1. one \in Seq(Unit)
  BY DEF Ascii
<1>2. t \in Seq(Unit)
  BY <1>1, ConcatProperties
<1>3. TextFrom("from", t)[0] = one \o TextFrom("from", s)[0]
      /\ TextFrom("to", t)[0] = one \o TextFrom("to", s)[0]
  BY AsciiInFront
<1> HIDE DEF one, t
<1>4. DecodedText(t) = TextFrom("from", t)[0] /\ DecodedText(s) = TextFrom("from", s)[0]
  BY <1>2, DecodedTextFrom
<1>5. EncodedText(t) = TextFrom("to", t)[0] /\ EncodedText(s) = TextFrom("to", s)[0]
  BY <1>2, EncodedTextFrom
<1>6. DecodedText(t) = one \o DecodedText(s) /\ EncodedText(t) = one \o EncodedText(s)
  BY <1>3, <1>4, <1>5
<1> QED BY <1>6 DEF t, one

(* Nothing is converted to nothing.                                        *)
LEMMA NothingDecoded ==
  ASSUME RealSurrogates
  PROVE  DecodedText(<<>>) = <<>> /\ EncodedText(<<>>) = <<>>
<1>1. <<>> \in Seq(Unit) /\ Len(<<>>) = 0
  BY EmptySeq
<1>2. TextFrom("from", <<>>)[0] = <<>> /\ TextFrom("to", <<>>)[0] = <<>>
  BY <1>1, TextByPieces
<1>3. DecodedText(<<>>) = TextFrom("from", <<>>)[0]
  BY <1>1, DecodedTextFrom
<1>4. EncodedText(<<>>) = TextFrom("to", <<>>)[0]
  BY <1>1, EncodedTextFrom
<1> QED BY <1>2, <1>3, <1>4

(* The next unit of a text, and the text that is longer by one.            *)
LEMMA NextUnit ==
  ASSUME NEW s \in Seq(Unit), NEW n \in 0 .. Len(s) - 1
  PROVE  /\ SubSeq(s, n + 1, Len(s)) = <<s[n + 1]>> \o SubSeq(s, n + 2, Len(s))
         /\ SubSeq(s, n + 2, Len(s)) \in Seq(Unit) /\ s[n + 1] \in Unit
<1> DEFINE U == Unit
<1>1. s \in Seq(U) /\ Len(s) \in Nat
  BY LenProperties
<1>2. n + 1 \in 1 .. Len(s) /\ Len(s) \in n + 1 .. Len(s) /\ (n + 1) + 1 = n + 2
      /\ n + 2 \in Nat /\ n + 2 >= 1 /\ Len(s) \in Int
  BY <1>1
<1>3. s[n + 1] \in U
  BY <1>1, <1>2, ElementOfSeq
<1> HIDE DEF U
<1>4. SubSeq(s, n + 1, Len(s)) = <<s[n + 1]>> \o SubSeq(s, (n + 1) + 1, Len(s))
  BY <1>1, <1>2, SubSeqRecursiveFirst
<1>5. SubSeq(s, n + 2, Len(s)) \in Seq(Unit)
  BY <1>2, PartOfText
<1> QED BY <1>2, <1>3, <1>4, <1>5 DEF U

(* A text with a unit appended is taken apart at the same place.           *)
LEMMA OneUnitMore ==
  ASSUME NEW a \in Seq(Unit), NEW c \in Unit, NEW l \in 0 .. Len(a)
  PROVE  /\ SubSeq(Append(a, c), l + 1, Len(a) + 1) = SubSeq(a, l + 1, Len(a)) \o <<c>>
         /\ SubSeq(Append(a, c), 1, l) = SubSeq(a, 1, l)
         /\ SubSeq(a, 1, l) \o SubSeq(a, l + 1, Len(a)) = a
         /\ Append(a, c) = a \o <<c>>
         /\ SubSeq(a, 1, l) \in Seq(Unit) /\ SubSeq(a, l + 1, Len(a)) \in Seq(Unit)
         /\ Len(SubSeq(a, l + 1, Len(a))) = Len(a) - l
<1> DEFINE n == Len(a)
           p == SubSeq(a, 1, l)
           q == SubSeq(a, l + 1, n)
           d == Append(a, c)
<1>1. n \in Nat /\ l \in Nat /\ l <= n
  BY LenProperties
<1>2. d \in Seq(Unit) /\ Len(d) = n + 1 /\ d = a \o <<c>> /\ d[n + 1] = c
      /\ \A i \in 1 .. n : d[i] = a[i]
  BY AppendProperties, AppendIsConcat
<1>3. p \in Seq(Unit) /\ Len(p) = l
  BY <1>1, PartOfText
<1>4. q \in Seq(Unit) /\ Len(q) = n - l
  <2>1. l + 1 \in Nat /\ l + 1 >= 1 /\ n \in Int /\ n <= Len(a)
    BY <1>1
  <2> HIDE DEF n
  <2>2. q \in Seq(Unit) /\ Len(q) = IF n < l + 1 THEN 0 ELSE n - (l + 1) + 1
    BY <2>1, PartOfText
  <2> HIDE DEF q
  <2> QED BY <1>1, <2>2
<1>5. p \o q = a
  <2>1. 1 \in 1 .. Len(a) + 1 /\ l \in 1 - 1 .. Len(a) /\ Len(a) \in l .. Len(a)
    BY <1>1
  <2>2. SubSeq(a, 1, l) \o SubSeq(a, l + 1, Len(a)) = SubSeq(a, 1, Len(a))
    BY <2>1, ConcatAdjacentSubSeq
  <2> QED BY <2>2, SubSeqFull
<1> DEFINE e == SubSeq(d, 1, l)
           f == SubSeq(d, l + 1, n + 1)
           g == q \o <<c>>
<1> HIDE DEF n, d
<1>6. e = p
  <2>1. e \in Seq(Unit) /\ Len(e) = l
    BY <1>1, <1>2, PartOfText
  <2>2. \A i \in 1 .. l : e[i] = p[i]
    <3> TAKE i \in 1 .. l
    <3>1. e[i] = d[i] /\ p[i] = a[i] /\ i \in 1 .. n
      BY <1>1
    <3> QED BY <1>2, <3>1
  <2> HIDE DEF e, p
  <2> QED BY <1>3, <2>1, <2>2, SeqEqual
<1>7. f = g
  <2>1. SubSeq(d, l + 1, n + 1) = SubSeq(d, l + 1, (n + 1) - 1) \o <<d[n + 1]>>
    <3>1. l + 1 \in 1 .. Len(d) /\ n + 1 \in l + 1 .. Len(d)
      BY <1>1, <1>2
    <3> QED BY <1>2, <3>1, SubSeqRecursiveSecond
  <2> DEFINE h == SubSeq(d, l + 1, n)
  <2>2. h = q
    <3>1. h \in Seq(Unit) /\ Len(h) = IF n < l + 1 THEN 0 ELSE n - (l + 1) + 1
      <4>1. l + 1 \in Nat /\ l + 1 >= 1 /\ n \in Int /\ n <= Len(d)
        BY <1>1, <1>2
      <4> QED BY <1>2, <4>1, PartOfText
    <3>2. Len(h) = n - l
      <4> HIDE DEF h
      <4> QED BY <1>1, <3>1
    <3>3. \A i \in 1 .. n - l : h[i] = q[i]
      <4> TAKE i \in 1 .. n - l
      <4>1. h[i] = d[l + i] /\ q[i] = a[l + i] /\ l + i \in 1 .. n
        BY <1>1
      <4> QED BY <1>2, <4>1
    <3> HIDE DEF h, q
    <3> QED BY <1>4, <3>1, <3>2, <3>3, SeqEqual
  <2>3. (n + 1) - 1 = n
    BY <1>1
  <2> QED BY <1>2, <2>1, <2>2, <2>3
<1> QED BY <1>2, <1>3, <1>4, <1>5, <1>6, <1>7 DEF n, d, e, f, g, p, q

-----------------------------------------------------------------------------
(* The empty text stays in front of anything.                              *)
LEMMA NothingStaysInFront ==
  ASSUME RealSurrogates
  PROVE  StaysInFront(<<>>)
<1>1. \A t \in Seq(Unit) : <<>> \o t = t
  BY ConcatEmptySeq
<1> QED BY <1>1, DecodedIsText DEF StaysInFront

(* What stays in front does so with an ASCII unit more.                    *)
LEMMA StaysWithOneMore ==
  ASSUME RealSurrogates, NEW a \in Seq(Unit), NEW c \in Ascii, StaysInFront(a)
  PROVE  StaysInFront(a \o <<c>>)
<1> DEFINE longer == a \o <<c>>
<1>0. \A p, q, r \in Seq(Unit) : (p \o q) \o r = p \o (q \o r)
  BY TextsInARow
<1>1. <<c>> \in Seq(Unit)
  BY DEF Ascii
<1>2. ASSUME NEW t \in Seq(Unit)
      PROVE  /\ DecodedText(longer \o t) = longer \o DecodedText(t)
             /\ EncodedText(longer \o t) = longer \o EncodedText(t)
  <2> DEFINE one == <<c>>
             u == one \o t
             x == DecodedText(t)
             y == EncodedText(t)
  <2>1. u \in Seq(Unit) /\ x \in Seq(Unit) /\ y \in Seq(Unit)
    BY <1>1, DecodedIsText, ConcatProperties
  <2>2. DecodedText(u) = one \o x /\ EncodedText(u) = one \o y
    BY UnitInFront
  <2>3. one \in Seq(Unit) /\ longer = a \o one
    BY <1>1
  <2> HIDE DEF one, longer
  <2>4. longer \o t = a \o u
    <3>1. (a \o one) \o t = a \o (one \o t)
      BY <1>0, <2>3, Zenon
    <3> QED BY <2>3, <3>1
  <2> HIDE DEF u, x, y
  <2>5. DecodedText(a \o u) = a \o DecodedText(u) /\ EncodedText(a \o u) = a \o EncodedText(u)
    BY <2>1 DEF StaysInFront
  <2>6. longer \o x = a \o (one \o x) /\ longer \o y = a \o (one \o y)
    <3>1. (a \o one) \o x = a \o (one \o x)
      BY <1>0, <2>1, <2>3, Zenon
    <3>2. (a \o one) \o y = a \o (one \o y)
      BY <1>0, <2>1, <2>3, Zenon
    <3> QED BY <2>3, <3>1, <3>2
  <2>7. DecodedText(longer \o t) = longer \o x /\ EncodedText(longer \o t) = longer \o y
    BY <2>2, <2>4, <2>5, <2>6
  <2> QED BY <2>7 DEF x, y
<1> QED BY <1>2 DEF StaysInFront

(* A label of ASCII characters is a text.                                  *)
LEMMA AsciiIsText ==
  ASSUME NEW l \in Seq(Ascii)
  PROVE  l \in Seq(Unit)
BY DEF Ascii

(* A label in lower case is a text of the same length.                     *)
LEMMA LowerTextIsText ==
  ASSUME NEW l \in Seq(Unit)
  PROVE  LowerText(l) \in Seq(Unit) /\ Len(LowerText(l)) = Len(l)
<1>1. DOMAIN l = 1 .. Len(l) /\ Len(l) \in Nat
  BY LenProperties
<1>2. \A x \in 1 .. Len(l) : Lower(l[x]) \in Unit
  <2> TAKE x \in 1 .. Len(l)
  <2>1. l[x] \in Unit
    BY ElementOfSeq
  <2> QED BY <2>1, LowerIsUnit
<1>3. LowerText(l) = [x \in 1 .. Len(l) |-> Lower(l[x])]
  BY <1>1 DEF LowerText
<1> QED BY <1>1, <1>2, <1>3

(* The empty label has no letters.                                         *)
LEMMA LowerTextOfNothing ==
  LowerText(<<>>) = <<>>
BY DEF LowerText

(* A label that is longer by one.                                          *)
LEMMA LowerTextOn ==
  ASSUME NEW l \in Seq(Unit), NEW b \in Unit
  PROVE  LowerText(l \o <<b>>) = LowerText(l) \o <<Lower(b)>>
<1> DEFINE m == l \o <<b>>
           c == Lower(b)
           p == LowerText(l)
           q == p \o <<c>>
           n == Len(l)
<1>1. /\ m \in Seq(Unit) /\ Len(m) = n + 1 /\ m[n + 1] = b /\ n \in Nat
      /\ \A x \in 1 .. n : m[x] = l[x]
  BY AppendProperties, AppendIsConcat, LenProperties
<1>2. p \in Seq(Unit) /\ Len(p) = n /\ c \in Unit
  BY LowerTextIsText, LowerIsUnit
<1>3. \A x \in 1 .. n : p[x] = Lower(l[x])
  BY LenProperties DEF LowerText
<1> HIDE DEF p, c
<1>4. /\ q \in Seq(Unit) /\ Len(q) = n + 1 /\ q[n + 1] = c
      /\ \A x \in 1 .. n : q[x] = p[x]
  BY <1>2, AppendProperties, AppendIsConcat
<1> HIDE DEF m, q
<1>5. LowerText(m) \in Seq(Unit) /\ Len(LowerText(m)) = n + 1
  BY <1>1, LowerTextIsText
<1>6. \A x \in 1 .. n + 1 : LowerText(m)[x] = Lower(m[x])
  BY <1>1, LenProperties DEF LowerText
<1> HIDE DEF n
<1>7. \A x \in 1 .. n + 1 : LowerText(m)[x] = q[x]
  <2> TAKE x \in 1 .. n + 1
  <2>1. CASE x = n + 1
    BY <1>1, <1>4, <1>6, <2>1 DEF c
  <2>2. CASE x # n + 1
    <3>1. x \in 1 .. n
      BY <1>1, <2>2
    <3> QED BY <1>1, <1>3, <1>4, <1>6, <3>1
  <2> QED BY <2>1, <2>2
<1>8. LowerText(m) = q
  BY <1>4, <1>5, <1>7, SeqEqual
<1> QED BY <1>8 DEF m, q, p, c

(* The loop takes the empty label.                                         *)
LEMMA TakesNoLabel ==
  \A c : TakesLabel(<<>>, c)
BY DEF TakesLabel

(* And a label that it takes, with one more byte that does not leave it.   *)
LEMMA TakesLonger ==
  ASSUME NEW c, NEW l \in Seq(Ascii), NEW b \in Ascii, TakesLabel(l, c), b # Dot,
         c.fn # "idn2_to_unicode_8z8z" /\ c.std3 => IsLdhDot(b),
         ~(Len(l) = 3 /\ l[3] = Hyphen /\ b = Hyphen)
  PROVE  TakesLabel(l \o <<b>>, c)
<1> DEFINE m == l \o <<b>>
           n == Len(l)
<1>1. /\ m \in Seq(Ascii) /\ Len(m) = n + 1 /\ m[n + 1] = b /\ n \in Nat
      /\ \A x \in 1 .. n : m[x] = l[x]
  BY AppendProperties, AppendIsConcat, LenProperties
<1>2. DOMAIN m = 1 .. n + 1 /\ DOMAIN l = 1 .. n
  BY <1>1, LenProperties
<1>3. IsAscii(b)
  BY DEF Ascii, IsAscii
<1> HIDE DEF m, n
<1>4. ASSUME NEW x \in 1 .. n + 1
      PROVE  /\ IsAscii(m[x]) /\ m[x] # Dot
             /\ c.fn # "idn2_to_unicode_8z8z" /\ c.std3 => IsLdhDot(m[x])
  <2>1. CASE x = n + 1
    BY <1>1, <1>3, <2>1
  <2>2. CASE x # n + 1
    <3>1. x \in 1 .. n
      BY <1>1, <2>2
    <3> QED BY <1>1, <1>2, <3>1 DEF TakesLabel
  <2> QED BY <2>1, <2>2
<1>5. ~(Len(m) > 3 /\ m[3] = Hyphen /\ m[4] = Hyphen)
  <2>1. CASE n > 3
    <3>1. 3 \in 1 .. n /\ 4 \in 1 .. n /\ Len(l) > 3
      BY <1>1, <2>1 DEF n
    <3> QED BY <1>1, <3>1 DEF TakesLabel
  <2>2. CASE n = 3
    <3>1. 3 \in 1 .. n /\ m[4] = b
      BY <1>1, <2>2
    <3> QED BY <1>1, <2>2, <3>1 DEF n
  <2>3. CASE n < 3
    BY <1>1, <2>3
  <2> QED BY <1>1, <2>1, <2>2, <2>3
<1>6. TakesLabel(m, c)
  BY <1>2, <1>4, <1>5 DEF TakesLabel
<1> QED BY <1>6 DEF m

(* The raw label and what the loop has not come to are the rest.           *)
LEMMA RestInParts ==
  ASSUME RealSurrogates, LookupInputs, LookupInv, LoopInv, call.function.utf8
  PROVE  /\ RawLabel \in Seq(Unit) /\ Len(RawLabel) = Len(ascii) - labelStart
         /\ AfterAscii \in Seq(Unit) /\ DecodedText(AfterAscii) \in Seq(Unit)
         /\ Rest = RawLabel \o AfterAscii
         /\ DecodedText(Rest) = RawLabel \o DecodedText(AfterAscii)
<1> DEFINE s == Src
           n == Len(ascii)
           l == labelStart
           k == Len(s)
<1>1. s \in Seq(Unit) /\ k \in Nat /\ n \in Nat /\ l \in Nat /\ l <= n /\ n <= k
  <2>1. s \in Seq(Unit) /\ ascii \in Seq(Unit) /\ l \in 0 .. n
    BY CallType DEF LookupInv, AsciiInv
  <2>2. n <= k
    BY DEF LoopInv
  <2>3. n \in Nat /\ k \in Nat
    BY <2>1, LenProperties
  <2> HIDE DEF s, n, l, k
  <2> QED BY <2>1, <2>2, <2>3
<1>2. /\ RawLabel = SubSeq(s, l + 1, n) /\ AfterAscii = SubSeq(s, n + 1, k)
      /\ Rest = SubSeq(s, l + 1, k) /\ StaysInFront(RawLabel)
  BY DEF RawLabel, AfterAscii, Rest, LoopInv
<1> HIDE DEF s, n, l
<1>3. RawLabel \in Seq(Unit) /\ Len(RawLabel) = IF n < l + 1 THEN 0 ELSE n - (l + 1) + 1
  <2>1. l + 1 \in Nat /\ l + 1 >= 1 /\ n \in Int /\ n <= Len(s)
    BY <1>1
  <2> HIDE DEF k
  <2> QED BY <1>1, <1>2, <2>1, PartOfText
<1>4. Len(RawLabel) = n - l
  BY <1>1, <1>3
<1>5. AfterAscii \in Seq(Unit)
  <2>1. n + 1 \in Nat /\ n + 1 >= 1 /\ k \in Int /\ k <= Len(s)
    BY <1>1
  <2> QED BY <1>1, <1>2, <2>1, PartOfText
<1>6. Rest = RawLabel \o AfterAscii
  <2>1. l + 1 \in 1 .. Len(s) + 1 /\ n \in (l + 1) - 1 .. Len(s) /\ Len(s) \in n .. Len(s)
    BY <1>1
  <2>2. SubSeq(s, l + 1, n) \o SubSeq(s, n + 1, Len(s)) = SubSeq(s, l + 1, Len(s))
    BY <1>1, <2>1, ConcatAdjacentSubSeq
  <2> QED BY <1>2, <2>2
<1>7. DecodedText(AfterAscii) \in Seq(Unit)
  BY <1>5, DecodedIsText
<1>8. DecodedText(Rest) = RawLabel \o DecodedText(AfterAscii)
  BY <1>2, <1>5, <1>6 DEF StaysInFront
<1> QED BY <1>3, <1>4, <1>5, <1>6, <1>7, <1>8 DEF n, l

(* At first the loop has done nothing.                                     *)
LEMMA LoopInvFirst ==
  ASSUME RealSurrogates, LookupInputs, LoopKeepsMapping, call \in Calls,
         ascii = <<>>, labelStart = 0
  PROVE  LoopInv
<1> DEFINE s == Src
           d == DecodedText(s)
           m == MappedText(d)
           e == EncodedText(m)
<1>1. <<>> \in Seq(Unit) /\ Len(<<>>) = 0 /\ SubSeq(<<>>, 1, 0) = <<>>
  BY EmptySeq, PartOfText
<1>2. s \in Seq(Unit) /\ Len(s) \in Nat
  BY CallType, LenProperties
<1>3. d \in Seq(Unit)
  BY <1>2, DecodedIsText
<1>4. m \in Seq(Unit)
  <2> HIDE DEF d
  <2> QED BY <1>3, MappedType
<1>5. e \in Seq(Unit)
  <2> HIDE DEF m
  <2> QED BY <1>4, DecodedIsText
<1>6. BegunLabel = <<>> /\ DoneLabels = <<>>
  BY <1>1 DEF BegunLabel, DoneLabels
<1>7. Rest = s
  <2>1. Rest = SubSeq(s, 1, Len(s))
    BY <1>1 DEF Rest
  <2> HIDE DEF s
  <2> QED BY <1>2, <2>1, SubSeqFull
<1>8. call.function.utf8 => WholeName = e
  BY DEF WholeName
<1> HIDE DEF s, d, m, e
<1>9. EncodedText(MappedText(DecodedText(Rest))) = e
  BY <1>7 DEF d, m, e
<1>10. e = <<>> \o e
  BY <1>5, ConcatEmptySeq
<1>11. RawLabel = <<>>
  <2>1. RawLabel = SubSeq(s, 1, 0)
    BY <1>1 DEF RawLabel, s
  <2> QED BY <1>2, <2>1, SubSeqEmpty
<1>12. <<>> \in Seq(Ascii) /\ TakesLabel(<<>>, call) /\ LowerText(<<>>) = <<>>
       /\ StaysInFront(<<>>)
  BY EmptySeq, TakesNoLabel, LowerTextOfNothing, NothingStaysInFront
<1>13. Len(ascii) <= Len(Src)
  BY <1>1, <1>2 DEF s
<1> QED BY <1>6, <1>8, <1>9, <1>10, <1>11, <1>12, <1>13 DEF LoopInv

(* What the parts of the name depend on.                                   *)
LEMMA PartsUnchanged ==
  ASSUME call' = call
  PROVE  /\ Src' = Src /\ Capacity' = Capacity /\ checkArgs' = checkArgs
         /\ WholeName' = WholeName /\ IsAccepted' = IsAccepted
         /\ \A s : MappedText(s)' = MappedText(s)
         /\ labelStart' = labelStart => Rest' = Rest
         /\ ascii' = ascii => AfterAscii' = AfterAscii
         /\ ascii' = ascii /\ labelStart' = labelStart =>
              /\ BegunLabel' = BegunLabel /\ DoneLabels' = DoneLabels
              /\ RawLabel' = RawLabel
<1>1. Src' = Src
  BY DEF Src
<1>2. Capacity' = Capacity
  BY DEF Capacity
<1>3. checkArgs' = checkArgs
  BY <1>2 DEF checkArgs
<1>4. \A s : MappedText(s)' = MappedText(s)
  BY DEF MappedText
<1>5. WholeName' = WholeName
  BY <1>1 DEF WholeName, MappedText
<1>6. IsAccepted' = IsAccepted
  BY <1>3 DEF IsAccepted
<1>7. labelStart' = labelStart => Rest' = Rest
  BY <1>1 DEF Rest
<1>8. ascii' = ascii => AfterAscii' = AfterAscii
  BY <1>1 DEF AfterAscii
<1>9. ascii' = ascii /\ labelStart' = labelStart =>
              /\ BegunLabel' = BegunLabel /\ DoneLabels' = DoneLabels
              /\ RawLabel' = RawLabel
  BY <1>1 DEF BegunLabel, DoneLabels, RawLabel
<1> QED BY <1>1, <1>2, <1>3, <1>4, <1>5, <1>6, <1>7, <1>8, <1>9

(* Only a byte of the loop changes what the loop has done.                 *)
LEMMA LoopInvKept ==
  ASSUME LoopInv, UNCHANGED <<call, ascii, labelStart>>
  PROVE  LoopInv'
<1>1. /\ BegunLabel' = BegunLabel /\ DoneLabels' = DoneLabels /\ RawLabel' = RawLabel
      /\ Rest' = Rest /\ Src' = Src /\ WholeName' = WholeName
  BY PartsUnchanged
<1>2. MappedText(DecodedText(Rest))' = MappedText(DecodedText(Rest))
  BY <1>1 DEF MappedText
<1>3. StaysInFront(BegunLabel)' = StaysInFront(BegunLabel)
      /\ StaysInFront(RawLabel)' = StaysInFront(RawLabel)
  BY <1>1 DEF StaysInFront
<1>4. TakesLabel(RawLabel, call)' = TakesLabel(RawLabel, call)
      /\ LowerText(RawLabel)' = LowerText(RawLabel)
  BY <1>1 DEF TakesLabel, LowerText
<1> QED BY <1>1, <1>2, <1>3, <1>4, Zenon DEF LoopInv

(* A byte that passes the loop.                                            *)
LEMMA LoopInvByte ==
  ASSUME RealSurrogates, LookupInputs, LoopKeepsMapping, LookupInv, LoopInv,
         call.function.utf8, AsciiByte
  PROVE  LoopInv'
<1> DEFINE s == Src
           n == Len(ascii)
           b == s[n + 1]
           c == Lower(b)
           label == BegunLabel
           raw == RawLabel
           longerRaw == raw \o <<b>>
           longer == label \o <<c>>
           left == SubSeq(s, n + 2, Len(s))
           after == DecodedText(left)
           mapped == MappedText(after)
           ends == EncodedText(mapped)
           rest == DecodedText(Rest)
           begun == DoneLabels
<1>0. \A p, q, r \in Seq(Unit) : (p \o q) \o r = p \o (q \o r)
  BY TextsInARow
<1>1. /\ n < Len(s) /\ ~LeavesLoop(b) /\ ascii' = Append(ascii, c)
      /\ labelStart' = IF b = Dot THEN n + 1 ELSE labelStart
      /\ call' = call
  BY DEF AsciiByte
<1>2. s \in Seq(Unit) /\ Len(s) \in Nat /\ ascii \in Seq(Unit) /\ n \in Nat
      /\ labelStart \in 0 .. n /\ call \in Calls
  BY CallType, LenProperties DEF LookupInv, AsciiInv
<1>3. /\ StaysInFront(label) /\ StaysInFront(raw) /\ label = LowerText(raw)
      /\ raw \in Seq(Ascii) /\ TakesLabel(raw, call)
      /\ WholeName = begun \o EncodedText(MappedText(rest))
  BY DEF LoopInv
<1>4. /\ AfterAscii = <<b>> \o left /\ left \in Seq(Unit) /\ b \in Unit
  <2>1. n \in 0 .. Len(s) - 1
    BY <1>1, <1>2
  <2>2. AfterAscii = SubSeq(s, n + 1, Len(s))
    BY DEF AfterAscii
  <2> HIDE DEF s, n
  <2> QED BY <1>2, <2>1, <2>2, NextUnit
<1>5. b \in Ascii /\ c \in Ascii
  <2>1. b < 128 /\ b \in Nat
    BY <1>1, <1>4 DEF LeavesLoop, IsAscii, Unit
  <2> HIDE DEF b
  <2>2. c \in Nat /\ c < 128
    BY <2>1, SMT DEF Lower, IsUpper
  <2> HIDE DEF c
  <2> QED BY <2>1, <2>2 DEF Ascii, Unit
<1>6. /\ call.fn # "idn2_to_unicode_8z8z" /\ call.std3 => IsLdhDot(b)
      /\ ~(b = Dot /\ call.function.isLabel)
  BY <1>1 DEF LeavesLoop, UseStd3
<1>7. /\ label \in Seq(Unit) /\ begun \in Seq(Unit) /\ ascii = begun \o label
      /\ SubSeq(Append(ascii, c), labelStart + 1, n + 1) = longer
      /\ SubSeq(Append(ascii, c), 1, labelStart) = begun
      /\ Append(ascii, c) = ascii \o <<c>>
      /\ Append(ascii, c) \in Seq(Unit) /\ Len(Append(ascii, c)) = n + 1
  <2>1. c \in Unit
    BY <1>5 DEF Ascii
  <2> HIDE DEF c
  <2>2. /\ SubSeq(Append(ascii, c), labelStart + 1, n + 1) = label \o <<c>>
        /\ SubSeq(Append(ascii, c), 1, labelStart) = begun
        /\ begun \o label = ascii
        /\ Append(ascii, c) = ascii \o <<c>>
        /\ begun \in Seq(Unit) /\ label \in Seq(Unit)
    <3>1. begun = SubSeq(ascii, 1, labelStart) /\ label = SubSeq(ascii, labelStart + 1, n)
      BY DEF BegunLabel, DoneLabels
    <3>2. ascii \in Seq(Unit) /\ labelStart \in 0 .. Len(ascii)
      BY <1>2
    <3>3. /\ SubSeq(Append(ascii, c), labelStart + 1, Len(ascii) + 1)
               = SubSeq(ascii, labelStart + 1, Len(ascii)) \o <<c>>
          /\ SubSeq(Append(ascii, c), 1, labelStart) = SubSeq(ascii, 1, labelStart)
          /\ SubSeq(ascii, 1, labelStart) \o SubSeq(ascii, labelStart + 1, Len(ascii)) = ascii
          /\ Append(ascii, c) = ascii \o <<c>>
          /\ SubSeq(ascii, 1, labelStart) \in Seq(Unit)
          /\ SubSeq(ascii, labelStart + 1, Len(ascii)) \in Seq(Unit)
      BY <2>1, <3>2, OneUnitMore, Zenon
    <3> HIDE DEF label, begun
    <3> QED BY <3>1, <3>3
  <2>3. Append(ascii, c) \in Seq(Unit) /\ Len(Append(ascii, c)) = n + 1
    BY <1>2, <2>1, AppendProperties
  <2> HIDE DEF label, begun, n
  <2> QED BY <2>2, <2>3
<1>8. /\ raw \in Seq(Unit) /\ Len(raw) = n - labelStart
        /\ rest = raw \o DecodedText(AfterAscii)
  BY RestInParts
<1>9. SubSeq(s, labelStart + 1, n + 1) = longerRaw
  <2>1. labelStart + 1 \in 1 .. Len(s) /\ n + 1 \in labelStart + 1 .. Len(s) /\ (n + 1) - 1 = n
    BY <1>1, <1>2
  <2>2. raw = SubSeq(s, labelStart + 1, n)
    BY DEF RawLabel
  <2> HIDE DEF s, n, raw
  <2>3. SubSeq(s, labelStart + 1, n + 1) = SubSeq(s, labelStart + 1, (n + 1) - 1) \o <<s[n + 1]>>
    BY <1>2, <2>1, SubSeqRecursiveSecond
  <2> QED BY <2>1, <2>2, <2>3
<1>10. ASSUME Len(raw) = 3
       PROVE  raw[3] = s[n] /\ n = labelStart + 3
  <2> DEFINE k == Len(raw)
  <2>1. raw = SubSeq(s, labelStart + 1, n)
    BY DEF RawLabel
  <2> HIDE DEF s, n, raw
  <2>2. k = 3 /\ k = n - labelStart /\ n \in Nat /\ labelStart \in 0 .. n
    BY <1>8, <1>2, <1>10, Zenon
  <2> HIDE DEF k
  <2>3. n = labelStart + 3 /\ n \in Nat /\ labelStart \in Nat
    BY <2>2
  <2>4. labelStart + 1 \in Int /\ n \in Int
        /\ 3 \in 1 .. n - (labelStart + 1) + 1 /\ (labelStart + 1) + 3 - 1 = n
    BY <2>3
  <2>5. \A j \in labelStart + 1 .. n : s[j] \in Unit
    BY <1>1, <1>2, ElementOfSeq
  <2>6. raw[3] = s[(labelStart + 1) + 3 - 1]
    BY <2>4, <2>1, <2>5, SubSeqProperties
  <2> QED BY <2>3, <2>4, <2>6
<1>11. ~(b = Hyphen /\ n = labelStart + 3 /\ s[n] = Hyphen)
  BY <1>1 DEF LeavesLoop
<1> HIDE DEF s, n, b, c, label, left, rest, begun, raw
<1>12. <<b>> \in Seq(Unit) /\ <<c>> \in Seq(Unit) /\ Len(<<b>>) = 1 /\ Len(<<c>>) = 1
  BY <1>5 DEF Ascii
<1>13. longer \in Seq(Unit) /\ Len(longer) = Len(label) + 1 /\ Len(label) \in Nat
  BY <1>7, <1>12, BeginningOfConcat
<1>14. after \in Seq(Unit) /\ DecodedText(AfterAscii) = <<b>> \o after
  BY <1>4, <1>5, DecodedIsText, UnitInFront
<1>15. mapped \in Seq(Unit)
  <2> HIDE DEF after
  <2> QED BY <1>2, <1>14, MappedType
<1>16. ends \in Seq(Unit)
  <2> HIDE DEF mapped
  <2> QED BY <1>15, DecodedIsText
<1> HIDE DEF longer, after, mapped, ends
<1>17. StaysInFront(longer)
  BY <1>3, <1>5, <1>7, StaysWithOneMore DEF longer
<1>18. rest = raw \o (<<b>> \o after)
  BY <1>14, <1>8
<1>19. /\ Src' = s /\ WholeName' = WholeName /\ \A t : MappedText(t)' = MappedText(t)
       /\ labelStart' = labelStart => Rest' = Rest
  BY <1>1, PartsUnchanged DEF s
<1>20. Len(ascii') = n + 1 /\ n + 1 <= Len(s)
  BY <1>1, <1>2, <1>7
<1>21. CASE b # Dot
  <2>1. labelStart' = labelStart
    BY <1>1, <1>21
  <2>2. BegunLabel' = longer /\ DoneLabels' = begun
    BY <1>1, <1>7, <1>20, <2>1 DEF BegunLabel, DoneLabels
  <2>3. Rest' = Rest
    BY <1>19, <2>1
  <2>4. DecodedText(Rest)' = rest /\ MappedText(DecodedText(Rest))' = MappedText(rest)
    BY <1>1, <2>3 DEF rest, MappedText
  <2>5. RawLabel' = longerRaw
    BY <1>19, <1>20, <1>9, <2>1 DEF RawLabel
  <2>6. StaysInFront(longerRaw) /\ longerRaw \in Seq(Ascii)
    <3>1. StaysInFront(longerRaw)
      BY <1>3, <1>5, <1>8, StaysWithOneMore
    <3>2. longerRaw \in Seq(Ascii)
      BY <1>3, <1>5, ConcatProperties
    <3> QED BY <3>1, <3>2
  <2>7. TakesLabel(longerRaw, call)
    <3>1. ~(Len(raw) = 3 /\ raw[3] = Hyphen /\ b = Hyphen)
      BY <1>10, <1>11
    <3> QED BY <1>3, <1>5, <1>6, <1>21, <3>1, TakesLonger
  <2>8. longer = LowerText(longerRaw)
    <3>1. b \in Unit
      BY <1>4
    <3>2. LowerText(raw \o <<b>>) = LowerText(raw) \o <<Lower(b)>>
      BY <1>8, <3>1, LowerTextOn
    <3> QED BY <1>3, <3>2 DEF longer, c
  <2> HIDE DEF longerRaw
  <2>9. /\ StaysInFront(BegunLabel)' /\ StaysInFront(RawLabel)'
        /\ TakesLabel(RawLabel, call)' /\ RawLabel' \in Seq(Ascii)
        /\ BegunLabel' = LowerText(RawLabel)'
    BY <1>1, <1>17, <2>2, <2>5, <2>6, <2>7, <2>8 DEF StaysInFront, TakesLabel, LowerText
  <2>10. Len(ascii)' <= Len(Src)'
    BY <1>19, <1>20
  <2>11. EncodedText(MappedText(DecodedText(Rest)))' = EncodedText(MappedText(rest))
    BY <2>4
  <2>12. WholeName' = DoneLabels' \o EncodedText(MappedText(DecodedText(Rest)))'
    BY <1>3, <1>19, <2>2, <2>11
  <2> QED BY <2>9, <2>10, <2>12, Zenon DEF LoopInv
<1>22. CASE b = Dot
  <2>1. labelStart' = n + 1
    BY <1>1, <1>22
  <2>2. BegunLabel' = <<>>
    <3>1. BegunLabel' = SubSeq(ascii', n + 2, n + 1)
      BY <1>2, <1>20, <2>1 DEF BegunLabel
    <3> QED BY <1>2, <3>1, SubSeqEmpty
  <2>3. DoneLabels' = begun \o longer
    <3>1. DoneLabels' = SubSeq(ascii', 1, n + 1)
      BY <2>1 DEF DoneLabels
    <3>2. SubSeq(ascii', 1, n + 1) = ascii'
      BY <1>1, <1>7, <1>20, SubSeqFull
    <3>3. ascii' = (begun \o label) \o <<c>>
      BY <1>1, <1>7
    <3>4. (begun \o label) \o <<c>> = begun \o longer
      BY <1>7, <1>12, UnitsInARow DEF longer
    <3> QED BY <3>1, <3>2, <3>3, <3>4
  <2>4. Rest' = left
    <3>1. (n + 1) + 1 = n + 2
      BY <1>2
    <3> QED BY <1>19, <2>1, <3>1 DEF Rest, left
  <2>5. DecodedText(Rest)' = after /\ MappedText(DecodedText(Rest))' = mapped
        /\ EncodedText(MappedText(DecodedText(Rest)))' = ends
    <3>1. DecodedText(Rest)' = after
      BY <2>4 DEF after
    <3>2. MappedText(DecodedText(Rest))' = mapped
      BY <1>1, <3>1 DEF MappedText, mapped
    <3> QED BY <3>1, <3>2 DEF ends
  <2>6. RawLabel' = <<>>
    <3>1. RawLabel' = SubSeq(s, n + 2, n + 1)
      BY <1>2, <1>19, <1>20, <2>1 DEF RawLabel
    <3> QED BY <1>2, <3>1, SubSeqEmpty
  <2>7. <<>> \in Seq(Ascii) /\ TakesLabel(<<>>, call') /\ LowerText(<<>>) = <<>>
        /\ StaysInFront(<<>>)
    BY EmptySeq, TakesNoLabel, LowerTextOfNothing, NothingStaysInFront
  <2>8. /\ StaysInFront(BegunLabel)' /\ StaysInFront(RawLabel)'
        /\ TakesLabel(RawLabel, call)' /\ RawLabel' \in Seq(Ascii)
        /\ BegunLabel' = LowerText(RawLabel)'
    BY <2>2, <2>6, <2>7 DEF StaysInFront, TakesLabel, LowerText
  <2>9. Len(ascii)' <= Len(Src)'
    BY <1>19, <1>20
  <2>10. MappedText(rest) = longer \o mapped
    <3> DEFINE one == <<Dot>>
    <3>1. KeepsLabels(raw, after, call)
      BY <1>2, <1>3, <1>14 DEF LoopKeepsMapping
    <3>2. ~call.function.isLabel /\ one = <<b>> /\ one = <<c>>
      <4>1. Lower(Dot) = Dot
        BY DEF Lower, IsUpper, Dot
      <4> QED BY <1>6, <1>22, <4>1 DEF c
    <3>3. Mapped(raw \o (one \o after), call) = LowerText(raw) \o (one \o Mapped(after, call))
      BY <1>3, <3>1, <3>2 DEF KeepsLabels
    <3>4. one \in Seq(Unit)
      BY <1>12, <3>2
    <3> HIDE DEF one
    <3>5. MappedText(rest) = label \o (one \o mapped)
      BY <1>3, <1>18, <3>2, <3>3 DEF MappedText, mapped
    <3>6. (label \o one) \o mapped = label \o (one \o mapped)
      BY <1>0, <1>7, <1>15, <3>4, Zenon
    <3> QED BY <3>2, <3>5, <3>6 DEF longer
  <2>11. WholeName' = DoneLabels' \o EncodedText(MappedText(DecodedText(Rest)))'
    <3>1. EncodedText(longer \o mapped) = longer \o ends
      BY <1>15, <1>17 DEF StaysInFront, ends
    <3>2. (begun \o longer) \o ends = begun \o (longer \o ends)
      <4>1. begun \in Seq(Unit) /\ longer \in Seq(Unit) /\ ends \in Seq(Unit)
        BY <1>7, <1>13, <1>16
      <4> QED BY <1>0, <4>1, Zenon
    <3>3. WholeName = begun \o (longer \o ends)
      BY <1>3, <2>10, <3>1
    <3> QED BY <1>19, <2>3, <2>5, <3>2, <3>3
  <2> QED BY <2>8, <2>9, <2>11, Zenon DEF LoopInv
<1> QED BY <1>21, <1>22

-----------------------------------------------------------------------------
(* A conversion that returns without a failure has written everything:     *)
(* where the loops that write end, all is written or it does not fit.      *)
LEMMA FullAtEnd ==
  ASSUME RealSurrogates, NEW k, ConversionOK(k), WrittenInv(k), k.pc = "slow", ~GoesOn(k),
         NEW m, SameText(m, k), m.dest = k.dest
  PROVE  FullInv(m)
<1> DEFINE W == WholeText(k)
           d == k.dest
           rest == TextLeft(k)
<1>1. W = d \o rest /\ d \in Seq(Unit)
  BY DEF WrittenInv, TextLeft, ConversionOK, ConversionSet
<1>2. rest \in Seq(Unit) /\ (k.i = Len(k.src) => rest = <<>>)
  <2>1. k.src \in Seq(Unit) /\ k.dir \in {"from", "to"} /\ k.i \in 0 .. Len(k.src)
    BY DEF ConversionOK, ConversionSet
  <2> QED BY <2>1, TextByPieces DEF TextLeft
<1>3. WholeText(m) = W /\ m.dest = d /\ m.capacity = k.capacity
  BY SameWhole DEF SameText
<1>4. k.i = Len(k.src) \/ k.capacity = Len(d)
  <2>1. ~(Left(k) > 0) \/ ~(Room(k) > 0)
    BY DEF GoesOn
  <2>2. k.dest \in Seq(Unit) /\ k.capacity \in Nat
    BY DEF ConversionOK, ConversionSet
  <2>3. Len(d) \in Nat
    BY <2>2
  <2>4. /\ Left(k) \in Nat /\ Left(k) = Len(k.src) - k.i /\ k.i \in Nat /\ Len(k.src) \in Nat
        /\ Room(k) \in Nat /\ Room(k) = k.capacity - Len(d)
    BY LeftAndRoom
  <2> QED BY <2>1, <2>2, <2>3, <2>4
<1> HIDE DEF W, d, rest
<1>5. Len(W) = Len(d) + Len(rest) /\ Len(d) \in Nat /\ Len(rest) \in Nat
  BY <1>1, <1>2, BeginningOfConcat
<1>6. rest = <<>> => Len(rest) = 0
  BY EmptySeq
<1>7. Len(d) <= Len(W) /\ (Len(d) = Len(W) \/ k.capacity < Len(W))
  BY <1>2, <1>4, <1>5, <1>6
<1> QED BY <1>3, <1>7 DEF FullInv

(* A character that is cut at the end of the array is one that does not    *)
(* fit.                                                                    *)
LEMMA FullSplit ==
  ASSUME RealSurrogates, NEW k, ConversionOK(k), WrittenInv(k), k.pc = "slow", GoesOn(k),
         Len(NextPiece(k).text) > Room(k),
         NEW m, SameText(m, k),
         m.dest = k.dest \o SubSeq(NextPiece(k).text, 1, Split(k, NextPiece(k).text))
  PROVE  FullInv(m)
<1> DEFINE W == WholeText(k)
           p == NextPiece(k)
           d == k.dest
           u == p.text
           n == Split(k, u)
           rest == TextFrom(k.dir, k.src)[p.next]
           u1 == SubSeq(u, 1, n)
           r == Room(k)
<1>1. /\ W = d \o TextLeft(k) /\ d \in Seq(Unit) /\ k.dir \in {"from", "to"}
      /\ r \in Nat /\ k.capacity \in Nat /\ r = k.capacity - Len(d) /\ Left(k) > 0
  <2>1. W = d \o TextLeft(k)
    BY DEF WrittenInv, TextLeft
  <2>2. k.dest \in Seq(Unit) /\ k.capacity \in Nat
    BY DEF ConversionOK, ConversionSet
  <2>3. Left(k) > 0
    BY DEF GoesOn
  <2>4. Room(k) \in Nat /\ Room(k) = k.capacity - Len(k.dest) /\ k.dir \in {"from", "to"}
    BY LeftAndRoom
  <2> QED BY <2>1, <2>2, <2>3, <2>4
<1>2. TextLeft(k) = u \o rest /\ u \in Seq(Unit) /\ rest \in Seq(Unit)
  BY <1>1, NextText
<1>3. /\ WholeText(m) = W /\ m.capacity = k.capacity /\ m.dest = d \o u1 /\ Len(u) > r
  BY SameWhole DEF SameText
<1>4. n = IF k.dir = "from" THEN Min({r, Len(u)}) ELSE 0
  BY DEF Split
<1> HIDE DEF W, p, d, u, n, rest, r, u1
<1>5. /\ TextLeft(k) \in Seq(Unit) /\ Len(TextLeft(k)) = Len(u) + Len(rest)
      /\ Len(u) \in Nat /\ Len(rest) \in Nat
  BY <1>2, BeginningOfConcat
<1>6. Len(W) = Len(d) + Len(TextLeft(k)) /\ Len(d) \in Nat
  BY <1>1, <1>5, BeginningOfConcat
<1>7. n \in Nat /\ n <= Len(u)
  <2>1. r \in Int /\ r >= 0 /\ Len(u) \in Int /\ r <= Len(u)
    BY <1>1, <1>3, <1>5
  <2>2. Min({r, Len(u)}) = r
    BY <2>1, MinOfTwo
  <2>3. n = r \/ n = 0
    BY <1>4, <2>2
  <2> QED BY <1>5, <2>1, <2>3
<1>8. u1 \in Seq(Unit) /\ Len(u1) = n
  BY <1>2, <1>7, PartOfText DEF u1
<1>9. Len(d \o u1) = Len(d) + n
  BY <1>1, <1>8, BeginningOfConcat
<1>10. Len(d \o u1) <= Len(W) /\ k.capacity < Len(W)
  <2> DEFINE l == Len(d)
             size == k.capacity
  <2>1. l \in Nat /\ size \in Nat /\ r = size - l /\ Len(u) > r
    BY <1>1, <1>3, <1>6
  <2>2. Len(W) = l + (Len(u) + Len(rest)) /\ Len(d \o u1) = l + n
    BY <1>5, <1>6, <1>9
  <2> DEFINE x == Len(u)
             y == Len(rest)
  <2>3. /\ l \in Nat /\ size \in Nat /\ r = size - l /\ x > r
        /\ x \in Nat /\ y \in Nat /\ n \in Nat /\ n <= x
    BY <1>5, <1>7, <2>1
  <2> HIDE DEF l, size, x, y
  <2>4. l + n <= l + (x + y) /\ size < l + (x + y)
    BY <2>3
  <2> QED BY <2>2, <2>4 DEF size, x, y
<1> QED BY <1>3, <1>10 DEF FullInv

(* Every step of a conversion; only those that leave the loops matter.     *)
LEMMA FullStep ==
  ASSUME RealSurrogates, ConversionOK(conv), WrittenInv(conv), FullInv(conv), Convert
  PROVE  FullInv(conv')
<1>1. conv \in ConversionSet
  BY DEF ConversionOK
<1>2. CASE BeginBlock \/ BackOut \/ ConvertFast \/ ConvertSlow
  <2>1. conv'.pc \in {"block", "fast", "slow"}
    BY <1>1, <1>2 DEF BeginBlock, BackOut, ConvertFast, ConvertSlow, Phase, ConversionSet
  <2> QED BY <2>1 DEF FullInv
<1>3. CASE ConvertSplit
  <2> DEFINE piece == NextPiece(conv)
             n == Split(conv, piece.text)
  <2>1. /\ conv.pc = "slow" /\ GoesOn(conv) /\ Len(piece.text) > Room(conv)
        /\ conv' = [conv EXCEPT !.i = piece.next,
                                !.dest = @ \o SubSeq(piece.text, 1, n),
                                !.reqLength = Len(piece.text) - n,
                                !.pc = "preflight"]
    BY <1>3 DEF ConvertSplit
  <2>2. SameText(conv', conv) /\ conv'.dest = conv.dest \o SubSeq(piece.text, 1, n)
    <3> HIDE DEF piece, n
    <3> QED BY <1>1, <2>1 DEF ConversionSet, SameText
  <2> QED BY <2>1, <2>2, FullSplit
<1>4. CASE EndSlow
  <2>1. /\ conv.pc = "slow" /\ ~GoesOn(conv) /\ SameText(conv', conv)
        /\ conv'.dest = conv.dest
    BY <1>1, <1>4 DEF EndSlow, ConversionSet, SameText
  <2> QED BY <2>1, FullAtEnd
<1>5. CASE Preflight \/ ReturnLength
  <2>1. conv.pc = "preflight" /\ SameText(conv', conv) /\ conv'.dest = conv.dest
    BY <1>1, <1>5 DEF Preflight, ReturnLength, ConversionSet, SameText
  <2>2. WholeText(conv') = WholeText(conv) /\ conv'.capacity = conv.capacity
    BY <2>1, SameWhole DEF SameText
  <2> QED BY <2>1, <2>2 DEF FullInv
<1> QED BY <1>2, <1>3, <1>4, <1>5 DEF Convert

(* So is every conversion of a call.                                       *)
LEMMA FullIdle ==
  ASSUME RealSurrogates
  PROVE  FullInv(Idle)
<1>1. Idle.dest = <<>> /\ Len(<<>>) = 0 /\ Idle.pc = "returned"
  BY EmptySeq DEF Idle, Begins
<1>2. WrittenInv(Idle)
  BY WrittenIdle
<1>3. Idle.reqLength = 0
  BY DEF Idle, Begins
<1>4. Len(WholeText(Idle)) = 0
  BY <1>1, <1>2, <1>3 DEF WrittenInv
<1> QED BY <1>1, <1>4 DEF FullInv

(* Every step of a call: a conversion begins anew, or goes on, or rests.   *)
LEMMA FullInCall ==
  ASSUME RealSurrogates, LookupInv, WrittenInv(conv), FullInv(conv), Next
  PROVE  FullInv(conv')
<1>1. CASE Convert
  BY <1>1, FullStep DEF LookupInv
<1>2. CASE conv' = conv
  BY <1>2
<1>3. CASE conv' = Idle
  BY <1>3, FullIdle
<1>4. CASE \E dir, src, capacity : conv' = Begins(dir, src, capacity)
  <2>1. conv'.pc = "block"
    BY <1>4 DEF Begins
  <2> QED BY <2>1 DEF FullInv
<1> QED BY <1>1, <1>2, <1>3, <1>4, ConversionInCall

(* What has been converted without a failure.                              *)
LEMMA SuccessWritesAll ==
  ASSUME RealSurrogates, ConversionOK(conv), WrittenInv(conv), FullInv(conv),
         conv.pc = "returned", ~U_FAILURE(conv.status)
  PROVE  conv.dest = IF conv.dir = "from" THEN DecodedText(conv.src) ELSE EncodedText(conv.src)
<1> DEFINE W == WholeText(conv)
           n == Len(conv.dest)
           size == conv.capacity
<1>1. conv.src \in Seq(Unit) /\ conv.dir \in {"from", "to"} /\ size \in Nat /\ conv.dest \in Seq(Unit)
  BY DEF ConversionOK, ConversionSet
<1>2. W = IF conv.dir = "from" THEN DecodedText(conv.src) ELSE EncodedText(conv.src)
  BY <1>1, DecodedTextFrom, EncodedTextFrom DEF WholeText
<1>3. /\ conv.dest = SubSeq(W, 1, n)
      /\ conv.status = TerminateStatus(size, Len(W), U_ZERO_ERROR)
      /\ n = Len(W) \/ size < Len(W)
  BY DEF WrittenInv, BeginsWhole, FullInv
<1>4. W \in Seq(Unit)
  <2>1. 0 \in 0 .. Len(conv.src)
    BY <1>1, LenProperties
  <2> QED BY <1>1, <2>1, TextByPieces DEF WholeText
<1>5. Len(W) \in Nat
  BY <1>4, LenProperties
<1> HIDE DEF W, size
<1>6. ~(size < Len(W))
  <2> SUFFICES ASSUME size < Len(W) PROVE FALSE
    OBVIOUS
  <2>1. conv.status = U_BUFFER_OVERFLOW_ERROR
    BY <1>1, <1>3, <1>5 DEF TerminateStatus, U_FAILURE, U_ZERO_ERROR
  <2> QED BY <2>1 DEF U_FAILURE, U_BUFFER_OVERFLOW_ERROR, U_ZERO_ERROR
<1>7. conv.dest = W
  BY <1>3, <1>4, <1>6, SubSeqFull
<1> QED BY <1>2, <1>7

-----------------------------------------------------------------------------
(* What the sink has of a text, and of that text with more appended.       *)
LEMMA HoldsNothing ==
  ASSUME LookupInputs, call \in Calls, sink.bytes = <<>>, sink.appended = 0
  PROVE  Holds(<<>>)
<1> DEFINE n == Min({Capacity, 0})
<1>1. Len(<<>>) = 0
  BY EmptySeq
<1>2. n \in Int /\ n < 1
  <2> DEFINE size == Capacity
  <2>1. size \in Int
    BY CallType
  <2> HIDE DEF size
  <2>2. Min({size, 0}) = IF size <= 0 THEN size ELSE 0
    BY <2>1, MinOfTwo
  <2>3. Min({size, 0}) \in Int /\ Min({size, 0}) < 1
    BY <2>1, <2>2
  <2> QED BY <2>3 DEF size
<1> HIDE DEF n
<1>3. SubSeq(<<>>, 1, n) = <<>>
  BY <1>2, SubSeqEmpty
<1> QED BY <1>1, <1>3 DEF Holds, n

(* What the sink holds depends on the sink and the array alone.            *)
LEMMA HoldsKept ==
  ASSUME UNCHANGED <<sink, call>>, NEW a
  PROVE  Holds(a)' <=> Holds(a)
BY DEF Holds, Capacity

(* A text behind the one it holds: both of them, as far as they fit.       *)
LEMMA HoldsMore ==
  ASSUME LookupInputs, call \in Calls, SinkInv, Capacity >= 0, call' = call,
         NEW a \in Seq(Unit), NEW b \in Seq(Unit), Holds(a), sink' = Append8(sink, b)
  PROVE  /\ sink'.appended = Len(a \o b)
         /\ sink'.bytes = SubSeq(a \o b, 1, Min({Capacity, Len(a \o b)}))
<1> DEFINE size == Capacity
           x == Len(a)
           y == Len(b)
           c == a \o b
           held == sink.bytes
           m == Min({size, x})
           n == Min({size - Len(held), y})
           k == Min({size, x + y})
           part == SubSeq(b, 1, n)
           new == held \o part
           all == SubSeq(c, 1, k)
<1>1. size \in Nat /\ x \in Nat /\ y \in Nat
  <2>1. size \in Int /\ size >= 0
    BY CallType
  <2> QED BY <2>1, LenProperties
<1>2. /\ c \in Seq(Unit) /\ Len(c) = x + y
      /\ \A i \in 1 .. x + y : c[i] = IF i <= x THEN a[i] ELSE b[i - x]
  BY ConcatProperties
<1>3. held = SubSeq(a, 1, m) /\ sink.appended = x
  BY DEF Holds
<1>4. m = IF size <= x THEN size ELSE x
  <2> HIDE DEF size, x
  <2> QED BY <1>1, MinOfTwo
<1>5. k = IF size <= x + y THEN size ELSE x + y
  <2> DEFINE z == x + y
  <2>1. size \in Int /\ z \in Int
    BY <1>1
  <2> HIDE DEF size, x, y, z
  <2>2. Min({size, z}) = IF size <= z THEN size ELSE z
    BY <2>1, MinOfTwo
  <2> QED BY <2>2 DEF z
<1>6. sink' = [bytes |-> new, appended |-> sink.appended + y]
  BY DEF Append8
<1> HIDE DEF size, m, k
<1>7. m \in Nat /\ m <= x /\ m <= size
  BY <1>1, <1>4
<1>8. /\ held \in Seq(Unit) /\ Len(held) = m
  <2>1. SubSeq(a, 1, m) \in Seq(Unit)
        /\ Len(SubSeq(a, 1, m)) = IF m < 1 THEN 0 ELSE m - 1 + 1
    BY <1>7, PartOfText
  <2> QED BY <1>3, <1>7, <2>1
<1>9. \A i \in 1 .. m : held[i] = a[i]
  <2> TAKE i \in 1 .. m
  <2>1. SubSeq(a, 1, m)[i] = a[i]
    BY <1>1, <1>7
  <2> QED BY <1>3, <2>1
<1> HIDE DEF held
<1>10. n = IF size - m <= y THEN size - m ELSE y
  <2> DEFINE z == size - m
  <2>1. z \in Int /\ y \in Int /\ Len(held) = m
    BY <1>1, <1>7, <1>8
  <2> HIDE DEF z, y
  <2>2. Min({z, y}) = IF z <= y THEN z ELSE y
    BY <2>1, MinOfTwo
  <2> QED BY <2>1, <2>2 DEF z, y
<1> HIDE DEF n
<1>11. n \in Nat /\ n <= y /\ m + n = k /\ k <= x + y /\ (n > 0 => m = x)
  <2> HIDE DEF x, y
  <2>1. CASE size <= x
    <3>1. m = size /\ n = 0 /\ k = size
      BY <1>1, <1>4, <1>5, <1>10, <2>1
    <3> QED BY <1>1, <2>1, <3>1
  <2>2. CASE ~(size <= x) /\ size <= x + y
    <3>1. m = x /\ n = size - x /\ k = size
      BY <1>1, <1>4, <1>5, <1>10, <2>2
    <3> QED BY <1>1, <2>2, <3>1
  <2>3. CASE ~(size <= x + y)
    <3>1. m = x /\ n = y /\ k = x + y
      BY <1>1, <1>4, <1>5, <1>10, <2>3
    <3> QED BY <1>1, <2>3, <3>1
  <2> QED BY <1>1, <2>1, <2>2, <2>3
<1>12. part \in Seq(Unit) /\ Len(part) = n /\ \A i \in 1 .. n : part[i] = b[i]
  <2>1. part \in Seq(Unit) /\ Len(part) = IF n < 1 THEN 0 ELSE n - 1 + 1
    BY <1>11, PartOfText
  <2>2. ASSUME NEW i \in 1 .. n PROVE part[i] = b[i]
    BY <1>1, <1>11
  <2> HIDE DEF part
  <2> QED BY <1>11, <2>1, <2>2
<1> HIDE DEF part
<1>13. /\ new \in Seq(Unit) /\ Len(new) = k
       /\ \A i \in 1 .. k : new[i] = IF i <= m THEN held[i] ELSE part[i - m]
  <2>1. /\ new \in Seq(Unit) /\ Len(new) = Len(held) + Len(part)
        /\ \A i \in 1 .. Len(held) + Len(part) :
             new[i] = IF i <= Len(held) THEN held[i] ELSE part[i - Len(held)]
    BY <1>8, <1>12, ConcatProperties
  <2>2. Len(held) + Len(part) = k
    BY <1>8, <1>11, <1>12
  <2> HIDE DEF new
  <2> QED BY <1>8, <2>1, <2>2
<1> HIDE DEF c
<1>14. all \in Seq(Unit) /\ Len(all) = k /\ \A i \in 1 .. k : all[i] = c[i]
  <2>1. k \in Nat /\ k <= Len(c)
    BY <1>1, <1>2, <1>7, <1>11
  <2>2. all \in Seq(Unit) /\ Len(all) = IF k < 1 THEN 0 ELSE k - 1 + 1
    BY <1>2, <2>1, PartOfText
  <2>3. ASSUME NEW i \in 1 .. k PROVE all[i] = c[i]
    BY <1>2, <2>1
  <2> HIDE DEF all
  <2> QED BY <2>1, <2>2, <2>3
<1> HIDE DEF new, all
<1>15. ASSUME NEW i \in 1 .. k PROVE new[i] = all[i]
  <2>1. i \in Int /\ i >= 1 /\ i <= k /\ i \in 1 .. x + y
    BY <1>1, <1>7, <1>11
  <2>2. new[i] = (IF i <= m THEN held[i] ELSE part[i - m])
        /\ all[i] = (IF i <= x THEN a[i] ELSE b[i - x])
    BY <1>2, <1>13, <1>14, <2>1
  <2>3. CASE i <= m
    <3>1. i \in 1 .. m /\ i <= x
      BY <1>1, <1>7, <2>1, <2>3
    <3> HIDE DEF x
    <3> QED BY <1>9, <2>2, <2>3, <3>1
  <2>4. CASE ~(i <= m)
    <3>1. m = x /\ ~(i <= x) /\ i - m \in 1 .. n
      BY <1>1, <1>7, <1>11, <2>1, <2>4
    <3> HIDE DEF x
    <3> QED BY <1>12, <2>2, <2>4, <3>1
  <2> QED BY <2>3, <2>4
<1>16. new = all
  BY <1>13, <1>14, <1>15, SeqEqual
<1>17. sink'.appended = Len(c) /\ sink'.bytes = all
  BY <1>2, <1>3, <1>6, <1>16
<1>18. all = SubSeq(c, 1, Min({size, Len(c)}))
  BY <1>2 DEF all, k
<1> QED BY <1>17, <1>18 DEF size, c

-----------------------------------------------------------------------------
(* What there is to show of a step that leads to a phase.                  *)
LEMMA IntoTermination ==
  ASSUME call' = call, pc' = "terminate", call.function.utf8, IsAccepted, CodeSoFar',
         ~lost' /\ U_SUCCESS(error') => Holds(WholeName)'
  PROVE  PhaseInv'
<1>1. IsAccepted' = IsAccepted
  BY PartsUnchanged
<1> QED BY <1>1
        DEF PhaseInv, BeginningInv, AcceptedInv, RestInv, SinkingInv, EndInv,
            Beginning, Looping, Sinking, Over

(* The same for a call that is over.                                       *)
LEMMA IntoTheEnd ==
  ASSUME call' = call, pc' \in Over, IsAccepted /\ ~lost' /\ error' \in ResultCodes => Delivered'
  PROVE  PhaseInv'
<1>1. IsAccepted' = IsAccepted
  BY PartsUnchanged
<1> QED BY <1>1
        DEF PhaseInv, BeginningInv, AcceptedInv, RestInv, SinkingInv, EndInv,
            Beginning, Looping, Sinking, Over

(* The same for a call that comes to toUTF8(), or stays in it.             *)
LEMMA IntoTheSink ==
  ASSUME call' = call, pc' \in Sinking, call.function.utf8, IsAccepted, CodeSoFar',
         Holds(DoneLabels)',
         U_SUCCESS(error') => text' # None /\ WholeName = DoneLabels' \o EncodedText(text'),
         pc' \in {"first", "second"} => conv'.dir = "to" /\ conv'.src = text'
  PROVE  PhaseInv'
<1>1. IsAccepted' = IsAccepted /\ WholeName' = WholeName
  BY PartsUnchanged
<1> QED BY <1>1
        DEF PhaseInv, BeginningInv, AcceptedInv, RestInv, SinkingInv, EndInv,
            Beginning, Looping, Sinking, Over

(* The same for a call that converts the rest of its text.                 *)
LEMMA IntoTheRest ==
  ASSUME call' = call, pc' = "rest", call.function.utf8, IsAccepted, CodeSoFar',
         conv'.dir = "from", conv'.src = Rest', text' \in {None, BegunLabel'},
         Holds(DoneLabels)'
  PROVE  PhaseInv'
<1>1. IsAccepted' = IsAccepted
  BY PartsUnchanged
<1> QED BY <1>1
        DEF PhaseInv, BeginningInv, AcceptedInv, RestInv, SinkingInv, EndInv,
            Beginning, Looping, Sinking, Over

(* The same for a call that comes to the loop over ASCII.                  *)
LEMMA IntoTheLoop ==
  ASSUME call' = call, pc' \in Looping, call.function.utf8, IsAccepted, CodeSoFar',
         Holds(<<>>)', pc' = "prefix" => conv'.dir = "from" /\ conv'.src = BegunLabel'
  PROVE  PhaseInv'
<1>1. IsAccepted' = IsAccepted
  BY PartsUnchanged
<1> QED BY <1>1
        DEF PhaseInv, BeginningInv, AcceptedInv, RestInv, SinkingInv, EndInv,
            Beginning, Looping, Sinking, Over

(* A phase is a matter of the call, its text and its sink.                 *)
LEMMA PhaseKept ==
  ASSUME PhaseInv, UNCHANGED <<call, pc, ascii, labelStart, text, sink, inPlace, error, lost>>,
         conv'.dir = conv.dir, conv'.src = conv.src
  PROVE  PhaseInv'
<1>1. /\ BegunLabel' = BegunLabel /\ DoneLabels' = DoneLabels /\ Rest' = Rest
      /\ WholeName' = WholeName /\ IsAccepted' = IsAccepted /\ Capacity' = Capacity
  BY PartsUnchanged
<1>2. /\ Holds(<<>>)' = Holds(<<>>) /\ Holds(DoneLabels)' = Holds(DoneLabels)
      /\ Holds(WholeName)' = Holds(WholeName)
  BY <1>1 DEF Holds
<1>3. CodeSoFar' = CodeSoFar /\ Delivered' = Delivered
  BY <1>1 DEF CodeSoFar, Delivered
<1>4. BeginningInv'
  BY DEF PhaseInv, BeginningInv
<1>5. AcceptedInv'
  BY <1>1, <1>3, Zenon DEF PhaseInv, AcceptedInv
<1>6. RestInv'
  BY <1>1, <1>2, Zenon DEF PhaseInv, RestInv
<1>7. SinkingInv'
  BY <1>1, <1>2, Zenon DEF PhaseInv, SinkingInv
<1>8. EndInv'
  BY <1>1, <1>2, <1>3, Zenon DEF PhaseInv, EndInv
<1> QED BY <1>4, <1>5, <1>6, <1>7, <1>8 DEF PhaseInv

(* An accepted call.                                                       *)
LEMMA AcceptedIsAccepted ==
  ASSUME LookupInputs, call \in Calls, PhaseInv, Accepted
  PROVE  /\ IsAccepted /\ CodeSoFar /\ checkArgs
         /\ ascii = <<>> /\ labelStart = 0 /\ text = <<>> /\ ~inPlace
         /\ sink.bytes = <<>> /\ sink.appended = 0 /\ U_SUCCESS(error)
<1>1. pc = "entered" /\ U_SUCCESS(error) /\ checkArgs
  BY DEF Accepted
<1>2. /\ ascii = <<>> /\ labelStart = 0 /\ text = <<>> /\ ~inPlace
      /\ sink.bytes = <<>> /\ sink.appended = 0
      /\ error = IF call.function.opens THEN U_ZERO_ERROR ELSE call.error
  BY <1>1 DEF PhaseInv, BeginningInv, Beginning
<1>3. error \in Int
  BY <1>2 DEF LookupInputs, U_ZERO_ERROR
<1> QED BY <1>1, <1>2, <1>3 DEF IsAccepted, CodeSoFar

(* A warning that the call began with makes no difference to a result      *)
(* that is whole, or does not end with its NUL, or is too long.            *)
LEMMA StatusOfSuccess ==
  ASSUME NEW size \in Int, NEW n \in Int, NEW code \in Int, ~U_FAILURE(code),
         TerminateStatus(size, n, code) \in ResultCodes
  PROVE  TerminateStatus(size, n, code) = TerminateStatus(size, n, U_ZERO_ERROR)
BY SMT DEF TerminateStatus, ResultCodes, U_FAILURE, U_ZERO_ERROR,
           U_STRING_NOT_TERMINATED_WARNING, U_BUFFER_OVERFLOW_ERROR

(* A failure that was there before is the one that is reported.            *)
LEMMA FailureStays ==
  ASSUME CodeSoFar, NEW size, NEW n, ~U_SUCCESS(error)
  PROVE  U_FAILURE(error) /\ error \notin ResultCodes
         /\ TerminateStatus(size, n, error) \notin ResultCodes
BY SMT DEF CodeSoFar, TerminateStatus, ResultCodes, U_FAILURE, U_SUCCESS, U_ZERO_ERROR,
           U_STRING_NOT_TERMINATED_WARNING, U_BUFFER_OVERFLOW_ERROR,
           U_ILLEGAL_ARGUMENT_ERROR, U_MEMORY_ALLOCATION_ERROR

(* U_SUCCESS() and U_FAILURE() disagree about every code.                  *)
LEMMA SuccessIsNoFailure ==
  ASSUME CodeSoFar
  PROVE  U_SUCCESS(error) <=> ~U_FAILURE(error)
BY SMT DEF CodeSoFar, U_FAILURE, U_SUCCESS, U_ZERO_ERROR

(* An array that checkArgs() accepts has no negative size.                 *)
LEMMA RoomIsNat ==
  ASSUME LookupInputs, call \in Calls, checkArgs
  PROVE  Capacity \in Nat
<1> DEFINE size == Capacity
<1>1. size \in Int
  BY CallType
<1>2. size = 0 \/ size >= 0
  BY DEF checkArgs
<1> HIDE DEF size
<1>3. size \in Nat
  BY <1>1, <1>2
<1> QED BY <1>3 DEF size

-----------------------------------------------------------------------------
(* The beginning of a call.                                                *)
LEMMA PhaseInit ==
  ASSUME Init
  PROVE  PhaseInv
BY DEF Init, PhaseInv, BeginningInv, AcceptedInv, RestInv, SinkingInv, EndInv,
       Beginning, Looping, Sinking, Over

(* CallWithNull: the arguments are none that a function accepts.           *)
LEMMA CallWithNullPhase ==
  ASSUME WholeInv, CallWithNull
  PROVE  PhaseInv'
<1>1. call' = call /\ pc' = "answered" /\ IsIdn2 /\ call.src = None
  BY DEF CallWithNull
<1>2. call.length = -1
  <2>1. CallOK(call)
    BY CallsAssumption DEF WholeInv, LookupInv
  <2> QED BY <1>1, <2>1 DEF CallOK, IsIdn2
<1>3. ~IsAccepted
  BY <1>1, <1>2 DEF IsAccepted, checkArgs
<1> QED BY <1>1, <1>3, IntoTheEnd DEF Over

(* Enter: the options' functions begin without an error.                   *)
LEMMA EnterPhase ==
  ASSUME WholeInv, Enter
  PROVE  PhaseInv'
<1>1. /\ pc = "called" /\ pc' = "entered"
      /\ error' = IF call.function.opens THEN U_ZERO_ERROR ELSE error
      /\ UNCHANGED <<call, ascii, labelStart, text, sink, inPlace>>
  BY DEF Enter
<1>2. /\ ascii = <<>> /\ labelStart = 0 /\ text = <<>> /\ ~inPlace
      /\ sink.bytes = <<>> /\ sink.appended = 0 /\ error = call.error
  BY <1>1 DEF WholeInv, PhaseInv, BeginningInv, Beginning
<1>3. BeginningInv'
  BY <1>1, <1>2 DEF BeginningInv
<1> QED BY <1>1, <1>3
        DEF PhaseInv, AcceptedInv, RestInv, SinkingInv, EndInv,
            Beginning, Looping, Sinking, Over

(* Refuse: the call is not accepted.                                       *)
LEMMA RefusePhase ==
  ASSUME LookupInputs, WholeInv, Refuse
  PROVE  PhaseInv'
<1>1. /\ pc = "entered" /\ (U_FAILURE(error) \/ ~checkArgs)
      /\ call' = call /\ pc' = "returned"
  BY DEF Refuse
<1>2. error = IF call.function.opens THEN U_ZERO_ERROR ELSE call.error
  BY <1>1 DEF WholeInv, PhaseInv, BeginningInv, Beginning
<1>3. call.error \in Int
  BY DEF LookupInputs, WholeInv, LookupInv
<1>4. ~IsAccepted
  BY <1>1, <1>2, <1>3 DEF IsAccepted, U_FAILURE, U_SUCCESS, U_ZERO_ERROR
<1> QED BY <1>1, <1>4, IntoTheEnd DEF Over

(* CallProcess: an empty text is done, a long one begins with its rest.    *)
LEMMA CallProcessPhase ==
  ASSUME RealSurrogates, LookupInputs, LoopKeepsMapping, WholeInv, CallProcess
  PROVE  PhaseInv'
<1>1. /\ Accepted /\ call.function.utf8
      /\ UNCHANGED <<call, ascii, labelStart, text, sink, inPlace, error, lost>>
      /\ IF Src = <<>> THEN pc' = "terminate"
         ELSE pc' = "ascii" \/ (pc' = "rest" /\ FromUTF8(Src))
  BY DEF CallProcess
<1>2. /\ IsAccepted /\ CodeSoFar /\ ascii = <<>> /\ labelStart = 0 /\ text = <<>>
      /\ sink.bytes = <<>> /\ sink.appended = 0 /\ call \in Calls
  BY <1>1, AcceptedIsAccepted DEF WholeInv, LookupInv
<1>3. Holds(<<>>)
  BY <1>2, HoldsNothing
<1>4. CodeSoFar'
  BY <1>1, <1>2 DEF CodeSoFar
<1>5. CASE Src = <<>>
  <2>1. WholeName = EncodedText(Mapped(DecodedText(<<>>), call))
    BY <1>1, <1>5 DEF WholeName, MappedText
  <2>2. Mapped(<<>>, call) = <<>>
    <3>1. <<>> \in Seq(Ascii) /\ <<>> \in Seq(Unit) /\ TakesLabel(<<>>, call)
      BY EmptySeq, TakesNoLabel
    <3>2. KeepsLabels(<<>>, <<>>, call)
      BY <1>1, <1>2, <3>1 DEF LoopKeepsMapping
    <3> QED BY <3>1, <3>2, LowerTextOfNothing DEF KeepsLabels
  <2>3. WholeName = <<>>
    BY <2>1, <2>2, NothingDecoded
  <2>4. WholeName' = <<>>
    BY <1>1, <2>3, PartsUnchanged
  <2>5. Holds(WholeName)'
    BY <1>1, <1>3, <2>4, HoldsKept DEF Holds
  <2> QED BY <1>1, <1>2, <1>4, <1>5, <2>5, IntoTermination
<1>6. CASE pc' = "ascii"
  <2>1. Holds(<<>>)'
    BY <1>1, <1>3, HoldsKept
  <2> QED BY <1>1, <1>2, <1>4, <1>6, <2>1, IntoTheLoop DEF Looping
<1>7. CASE pc' = "rest" /\ FromUTF8(Src)
  <2>1. conv'.dir = "from" /\ conv'.src = Src
    BY <1>7 DEF FromUTF8, Begins
  <2>2. BegunLabel' = <<>> /\ DoneLabels' = <<>>
    <3>1. SubSeq(<<>>, 1, 0) = <<>> /\ Len(<<>>) = 0
      BY SubSeqEmpty
    <3> QED BY <1>1, <1>2, <3>1 DEF BegunLabel, DoneLabels
  <2>3. Rest' = Src
    <3> DEFINE s == Src
    <3>1. s \in Seq(Unit)
      BY <1>2, CallType
    <3>2. Rest = SubSeq(s, 1, Len(s))
      BY <1>2 DEF Rest
    <3> HIDE DEF s
    <3>3. Rest = s
      BY <3>1, <3>2, SubSeqFull
    <3> QED BY <1>1, <3>3, PartsUnchanged DEF s
  <2>4. Holds(DoneLabels)'
    BY <1>1, <1>3, <2>2, HoldsKept DEF Holds
  <2> QED BY <1>1, <1>2, <1>4, <1>7, <2>1, <2>2, <2>3, <2>4, IntoTheRest
<1> QED BY <1>1, <1>5, <1>6, <1>7

-----------------------------------------------------------------------------
(* UTF-16.                                                                 *)
LEMMA Process16Phase ==
  ASSUME LookupInputs, WholeInv, Process16
  PROVE  PhaseInv'
<1>1. /\ Accepted /\ ~call.function.utf8 /\ pc' = "extract" /\ call' = call
      /\ \/ text' = MappedText(Src) /\ error' = error
         \/ inPlace' = FALSE /\ error' = U_MEMORY_ALLOCATION_ERROR
      /\ inPlace' => Max({Len(Src), Len(text')}) <= Capacity
      /\ sink' = IF inPlace' THEN [sink EXCEPT !.bytes = text'] ELSE sink
  BY DEF Process16, Fails
<1>2. call \in Calls /\ SinkInv
  BY DEF WholeInv, LookupInv
<1>3. IsAccepted /\ CodeSoFar /\ U_SUCCESS(error)
  BY <1>1, <1>2, AcceptedIsAccepted DEF WholeInv
<1>4. CodeSoFar'
  BY <1>1, <1>3 DEF CodeSoFar, U_MEMORY_ALLOCATION_ERROR
<1>5. U_SUCCESS(error') => text' = WholeName
  BY <1>1 DEF WholeName, U_SUCCESS, U_ZERO_ERROR, U_MEMORY_ALLOCATION_ERROR
<1>6. inPlace' => sink'.bytes = text'
  BY <1>1, <1>2 DEF SinkInv
<1>7. inPlace' => Len(text') <= Capacity
  <2> HAVE inPlace'
  <2> DEFINE a == Len(Src)
             b == Len(text')
             size == Capacity
             most == Max({a, b})
  <2>1. text' = MappedText(Src) /\ Src \in Seq(Unit) /\ size \in Int
    BY <1>1, <1>2, CallType
  <2>2. text' \in Seq(Unit)
    <3> DEFINE s == Src
    <3>1. s \in Seq(Unit) /\ text' = MappedText(s)
      BY <2>1
    <3> HIDE DEF s
    <3> QED BY <1>2, <3>1, MappedType
  <2>3. a \in Nat /\ b \in Nat
    BY <2>1, <2>2
  <2>4. most <= size
    BY <1>1
  <2> HIDE DEF a, b, size
  <2>5. most \in {a, b} /\ \A y \in {a, b} : most >= y
    <3>1. \E m \in {a, b} : \A y \in {a, b} : m >= y
      <4>1. CASE a >= b
        BY <2>3, <4>1
      <4>2. CASE ~(a >= b)
        BY <2>3, <4>2
      <4> QED BY <4>1, <4>2
    <3> QED BY <3>1 DEF Max
  <2> HIDE DEF most
  <2>6. b <= size
    BY <2>1, <2>3, <2>4, <2>5
  <2> QED BY <2>6 DEF b, size
<1>8. WholeName' = WholeName /\ IsAccepted' = IsAccepted /\ Capacity' = Capacity
  BY <1>1, PartsUnchanged
<1>9. EndInv'
  BY <1>1, <1>5, <1>6, <1>7, <1>8 DEF EndInv, Over
<1>10. AcceptedInv'
  BY <1>1, <1>3, <1>4, <1>8 DEF AcceptedInv, Looping, Sinking
<1> QED BY <1>1, <1>9, <1>10 DEF PhaseInv, BeginningInv, RestInv, SinkingInv,
                                 Beginning, Looping, Sinking

(* The whole name is a text.                                               *)
LEMMA WholeNameType ==
  ASSUME RealSurrogates, LookupInputs, call \in Calls
  PROVE  WholeName \in Seq(Unit) /\ Len(WholeName) \in Nat
<1> DEFINE s == Src
           d == DecodedText(s)
           m == MappedText(d)
           t == MappedText(s)
           e == EncodedText(m)
<1>1. s \in Seq(Unit)
  BY CallType
<1>2. WholeName = IF call.function.utf8 THEN e ELSE t
  BY DEF WholeName
<1> HIDE DEF s
<1>3. d \in Seq(Unit) /\ t \in Seq(Unit)
  BY <1>1, DecodedIsText, MappedType
<1> HIDE DEF d
<1>4. m \in Seq(Unit)
  BY <1>3, MappedType
<1> HIDE DEF m
<1>5. e \in Seq(Unit)
  BY <1>4, DecodedIsText
<1> HIDE DEF e, t
<1>6. WholeName \in Seq(Unit)
  BY <1>2, <1>3, <1>5
<1> HIDE DEF WholeName
<1> QED BY <1>6, LenProperties

(* Extract: the text is copied unless it is there or too long.             *)
LEMMA ExtractPhase ==
  ASSUME RealSurrogates, LookupInputs, WholeInv, Extract
  PROVE  PhaseInv'
<1> DEFINE w == WholeName
           size == Capacity
           n == Len(w)
           length == IF text = None THEN 0 ELSE Len(text)
           copied == U_SUCCESS(error) /\ text # None /\ length <= Capacity /\ ~inPlace
<1>1. /\ pc = "extract" /\ pc' = "returned" /\ call' = call
      /\ sink' = [bytes |-> IF copied THEN text ELSE sink.bytes, appended |-> length]
      /\ error' = IF U_FAILURE(error) THEN error
                  ELSE IF text = None THEN U_ILLEGAL_ARGUMENT_ERROR
                  ELSE TerminateStatus(Capacity, length, error)
  BY DEF Extract
<1>2. /\ ~call.function.utf8 /\ IsAccepted /\ CodeSoFar
      /\ U_SUCCESS(error) => text = w
      /\ inPlace => sink.bytes = text /\ Len(text) <= Capacity
  BY <1>1 DEF WholeInv, PhaseInv, AcceptedInv, EndInv
<1>3. w \in Seq(Unit) /\ n \in Nat /\ size \in Int /\ Capacity' = size /\ WholeName' = w
  BY <1>1, WholeNameType, CallType, PartsUnchanged DEF WholeInv, LookupInv
<1> HIDE DEF w, size, n
<1>4. SUFFICES ASSUME error' \in ResultCodes
               PROVE  Delivered'
  BY <1>1, IntoTheEnd DEF Over
<1>5. U_SUCCESS(error) /\ ~U_FAILURE(error) /\ error \in Int
  BY <1>1, <1>2, <1>4, FailureStays, SuccessIsNoFailure DEF CodeSoFar
<1>6. text = w /\ text # None
  BY <1>1, <1>2, <1>4, <1>5 DEF ResultCodes, U_ILLEGAL_ARGUMENT_ERROR, U_ZERO_ERROR,
                                U_STRING_NOT_TERMINATED_WARNING, U_BUFFER_OVERFLOW_ERROR
<1>7. length = n
  BY <1>6 DEF n
<1>8. error' = TerminateStatus(size, n, U_ZERO_ERROR)
  <2>1. error' = TerminateStatus(size, n, error)
    BY <1>1, <1>5, <1>6, <1>7 DEF size
  <2> QED BY <1>3, <1>4, <1>5, <2>1, StatusOfSuccess
<1>9. sink'.appended = n
  BY <1>1, <1>7
<1>10. n <= size => sink'.bytes = w
  <2> HAVE n <= size
  <2>1. CASE inPlace
    BY <1>1, <1>2, <1>6, <2>1
  <2>2. CASE ~inPlace
    <3>1. copied
      BY <1>5, <1>6, <1>7, <2>2 DEF size
    <3> QED BY <1>1, <1>6, <3>1
  <2> QED BY <2>1, <2>2
<1>11. n <= size => SubSeq(w, 1, Min({size, n})) = w
  <2> HAVE n <= size
  <2>1. Min({size, n}) = n
    BY <1>3, MinOfTwo
  <2> QED BY <1>3, <2>1, SubSeqFull DEF n
<1>12. ~call'.function.utf8
  BY <1>1, <1>2
<1> QED BY <1>3, <1>8, <1>9, <1>10, <1>11, <1>12 DEF Delivered, n

-----------------------------------------------------------------------------
(* The loop over ASCII.                                                    *)
LEMMA PartsOfAscii ==
  ASSUME LookupInv
  PROVE  /\ DoneLabels \in Seq(Unit) /\ BegunLabel \in Seq(Unit)
         /\ ascii = DoneLabels \o BegunLabel
         /\ Len(BegunLabel) = Len(ascii) - labelStart
<1>1. ascii \in Seq(Unit) /\ labelStart \in 0 .. Len(ascii) /\ 0 \in Unit
  BY DEF LookupInv, AsciiInv, Unit
<1> QED BY <1>1, OneUnitMore DEF DoneLabels, BegunLabel

(* What is known of every call between its acceptance and its result.      *)
LEMMA LoopingIsAccepted ==
  ASSUME PhaseInv, pc \in Looping \cup Sinking \cup {"rest", "terminate"}
  PROVE  /\ call.function.utf8 /\ IsAccepted /\ CodeSoFar /\ checkArgs
         /\ pc \in Looping => Holds(<<>>)
BY DEF PhaseInv, AcceptedInv, RestInv, IsAccepted

(* AsciiByte: the sink has nothing yet.                                    *)
LEMMA AsciiBytePhase ==
  ASSUME WholeInv, AsciiByte
  PROVE  PhaseInv'
<1>1. pc = "ascii" /\ pc' = "ascii" /\ UNCHANGED <<call, sink, error>>
  BY DEF AsciiByte
<1>2. call.function.utf8 /\ IsAccepted /\ CodeSoFar /\ Holds(<<>>)
  BY <1>1, LoopingIsAccepted DEF WholeInv, Looping
<1>3. Holds(<<>>)'
  BY <1>1, <1>2, HoldsKept
<1>4. CodeSoFar'
  BY <1>1, <1>2 DEF CodeSoFar
<1> QED BY <1>1, <1>2, <1>3, <1>4, IntoTheLoop DEF Looping

(* A sink that holds what is in front takes the rest of the name.          *)
LEMMA SinkTakes ==
  ASSUME LookupInputs, LookupInv, checkArgs, call' = call,
         NEW a \in Seq(Unit), NEW b \in Seq(Unit), Holds(a), sink' = Append8(sink, b)
  PROVE  \A c : c = a \o b => Holds(c)'
<1>1. call \in Calls /\ SinkInv
  BY DEF LookupInv
<1> DEFINE size == Capacity
<1>2. size \in Nat
  BY <1>1, RoomIsNat
<1>3. Capacity >= 0
  <2> HIDE DEF size
  <2>1. size >= 0
    BY <1>2
  <2> QED BY <2>1 DEF size
<1>4. /\ sink'.appended = Len(a \o b)
      /\ sink'.bytes = SubSeq(a \o b, 1, Min({Capacity, Len(a \o b)}))
  BY <1>1, <1>3, HoldsMore
<1>5. Capacity' = Capacity
  BY PartsUnchanged
<1> QED BY <1>4, <1>5 DEF Holds

(* AsciiEnd: all of the text was ASCII, and the loop has mapped it.        *)
LEMMA AsciiEndPhase ==
  ASSUME RealSurrogates, LookupInputs, LoopKeepsMapping, WholeInv, AsciiEnd
  PROVE  PhaseInv'
<1>1. /\ pc = "ascii" /\ Len(ascii) = Len(Src) /\ sink' = Append8(sink, ascii)
      /\ pc' = "terminate" /\ UNCHANGED <<call, error>>
  BY DEF AsciiEnd
<1>2. call.function.utf8 /\ IsAccepted /\ CodeSoFar /\ checkArgs /\ Holds(<<>>)
  BY <1>1, LoopingIsAccepted DEF WholeInv, Looping
<1>3. LookupInv /\ call \in Calls /\ LoopInv
  BY DEF WholeInv, LookupInv
<1>4. /\ DoneLabels \in Seq(Unit) /\ BegunLabel \in Seq(Unit)
      /\ ascii = DoneLabels \o BegunLabel /\ ascii \in Seq(Unit)
  BY <1>3, PartsOfAscii DEF LookupInv, AsciiInv
<1>5. AfterAscii = <<>>
  <2> DEFINE s == Src
  <2>1. Len(ascii) = Len(s) /\ Len(s) \in Nat
    BY <1>1, <1>3, CallType, LenProperties
  <2>2. AfterAscii = SubSeq(s, Len(s) + 1, Len(s))
    BY <2>1 DEF AfterAscii
  <2> HIDE DEF s
  <2> QED BY <2>1, <2>2, SubSeqEmpty
<1>6. MappedText(DecodedText(Rest)) = BegunLabel
  <2>1. /\ RawLabel \in Seq(Ascii) /\ TakesLabel(RawLabel, call)
        /\ BegunLabel = LowerText(RawLabel) /\ <<>> \in Seq(Unit)
    BY <1>2, <1>3, EmptySeq DEF LoopInv
  <2>2. DecodedText(Rest) = RawLabel
    <3>1. DecodedText(Rest) = RawLabel \o <<>> /\ RawLabel \in Seq(Unit)
      BY <1>2, <1>3, <1>5, RestInParts, NothingDecoded
    <3> QED BY <3>1, ConcatEmptySeq
  <2>3. KeepsLabels(RawLabel, <<>>, call)
    BY <1>2, <1>3, <2>1 DEF LoopKeepsMapping
  <2> QED BY <2>1, <2>2, <2>3, Zenon DEF KeepsLabels, MappedText
<1>7. EncodedText(MappedText(DecodedText(Rest))) = BegunLabel
  <2>1. EncodedText(BegunLabel \o <<>>) = BegunLabel \o EncodedText(<<>>)
    <3>1. <<>> \in Seq(Unit) /\ StaysInFront(BegunLabel)
      BY <1>2, <1>3, EmptySeq DEF LoopInv
    <3> QED BY <3>1 DEF StaysInFront
  <2>2. BegunLabel \o <<>> = BegunLabel
    BY <1>4, ConcatEmptySeq
  <2> QED BY <1>6, <2>1, <2>2, NothingDecoded
<1>8. WholeName = ascii
  BY <1>2, <1>3, <1>4, <1>7 DEF LoopInv
<1>9. Holds(ascii)'
  <2>1. ascii = <<>> \o ascii /\ <<>> \in Seq(Unit)
    BY <1>4, ConcatEmptySeq, EmptySeq
  <2>2. \A c : c = <<>> \o ascii => Holds(c)'
    BY <1>1, <1>2, <1>3, <1>4, <2>1, SinkTakes
  <2>3. ascii' = ascii
    BY DEF AsciiEnd
  <2> QED BY <2>1, <2>2, <2>3 DEF Holds
<1>10. Holds(WholeName)'
  <2>1. WholeName' = ascii'
    BY <1>1, <1>8, PartsUnchanged DEF AsciiEnd
  <2> QED BY <1>9, <2>1 DEF Holds
<1>11. CodeSoFar'
  BY <1>1, <1>2 DEF CodeSoFar
<1> QED BY <1>1, <1>2, <1>10, <1>11, IntoTermination

(* AsciiBreak: the label that has begun is converted by itself.            *)
LEMMA AsciiBreakPhase ==
  ASSUME WholeInv, AsciiBreak
  PROVE  PhaseInv'
<1>1. /\ pc = "ascii" /\ pc' = "prefix" /\ UNCHANGED <<call, ascii, labelStart, sink, error>>
      /\ FromUTF8(BegunLabel)
  BY DEF AsciiBreak, BegunLabel
<1>2. call.function.utf8 /\ IsAccepted /\ CodeSoFar /\ Holds(<<>>)
  BY <1>1, LoopingIsAccepted DEF WholeInv, Looping
<1>3. Holds(<<>>)'
  BY <1>1, <1>2, HoldsKept
<1>4. CodeSoFar'
  BY <1>1, <1>2 DEF CodeSoFar
<1>5. conv'.dir = "from" /\ conv'.src = BegunLabel /\ BegunLabel' = BegunLabel
  BY <1>1, PartsUnchanged DEF FromUTF8, Begins
<1> QED BY <1>1, <1>2, <1>3, <1>4, <1>5, IntoTheLoop DEF Looping

(* What comes back of a conversion from UTF-8 is all of it, or nothing.    *)
LEMMA ResultIsDecoded ==
  ASSUME RealSurrogates, WholeInv, conv.pc = "returned", conv.dir = "from"
  PROVE  Result16 \in {None, DecodedText(conv.src)}
BY SuccessWritesAll DEF WholeInv, LookupInv, Result16

(* PrefixConverted: the sink gets the labels that are done.                *)
LEMMA PrefixConvertedPhase ==
  ASSUME RealSurrogates, LookupInputs, WholeInv, PrefixConverted
  PROVE  PhaseInv'
<1>1. /\ pc = "prefix" /\ conv.pc = "returned" /\ text' = Result16
      /\ sink' = Append8(sink, DoneLabels) /\ FromUTF8(Rest) /\ pc' = "rest"
      /\ UNCHANGED <<call, ascii, labelStart, error>>
  BY DEF PrefixConverted
<1>2. call.function.utf8 /\ IsAccepted /\ CodeSoFar /\ checkArgs /\ Holds(<<>>)
  BY <1>1, LoopingIsAccepted DEF WholeInv, Looping
<1>3. LookupInv /\ LoopInv /\ conv.dir = "from" /\ conv.src = BegunLabel
  BY <1>1 DEF WholeInv, PhaseInv, RestInv
<1>4. DoneLabels \in Seq(Unit) /\ BegunLabel \in Seq(Unit)
  BY <1>3, PartsOfAscii
<1>5. DecodedText(BegunLabel) = BegunLabel
  <2>1. <<>> \in Seq(Unit) /\ StaysInFront(BegunLabel)
    BY <1>2, <1>3, EmptySeq DEF LoopInv
  <2>2. DecodedText(BegunLabel \o <<>>) = BegunLabel \o DecodedText(<<>>)
    BY <2>1 DEF StaysInFront
  <2>3. BegunLabel \o <<>> = BegunLabel
    BY <1>4, ConcatEmptySeq
  <2> QED BY <2>2, <2>3, NothingDecoded
<1>6. /\ BegunLabel' = BegunLabel /\ DoneLabels' = DoneLabels /\ Rest' = Rest
  BY <1>1, PartsUnchanged
<1>7. text' \in {None, BegunLabel'}
  BY <1>1, <1>3, <1>5, <1>6, ResultIsDecoded
<1>8. Holds(DoneLabels)'
  <2>1. DoneLabels = <<>> \o DoneLabels /\ <<>> \in Seq(Unit)
    BY <1>4, ConcatEmptySeq, EmptySeq
  <2>2. \A c : c = <<>> \o DoneLabels => Holds(c)'
    BY <1>1, <1>2, <1>3, <1>4, <2>1, SinkTakes
  <2> QED BY <1>6, <2>1, <2>2 DEF Holds
<1>9. conv'.dir = "from" /\ conv'.src = Rest'
  BY <1>1, <1>6 DEF FromUTF8, Begins
<1>10. CodeSoFar'
  BY <1>1, <1>2 DEF CodeSoFar
<1> QED BY <1>1, <1>2, <1>7, <1>8, <1>9, <1>10, IntoTheRest

(* Process: the prefix and what is mapped behind it are what is mapped of  *)
(* the whole rest.                                                         *)
LEMMA ProcessPhase ==
  ASSUME RealSurrogates, LookupInputs, LoopKeepsMapping, NoneIsNoText, WholeInv, Process
  PROVE  PhaseInv'
<1> DEFINE start == Len(ascii) - labelStart
           r == Result16
           rest == SubSeq(r, start + 1, Len(r))
           all == DecodedText(Rest)
           after == DecodedText(AfterAscii)
           raw == RawLabel
<1>1. /\ pc = "rest" /\ conv.pc = "returned" /\ pc' = "sink"
      /\ UNCHANGED <<call, ascii, labelStart, sink>>
      /\ \/ error' \in {U_ILLEGAL_ARGUMENT_ERROR, U_MEMORY_ALLOCATION_ERROR}
         \/ r # None /\ text # None /\ text' = MappedText(text \o rest) /\ error' = error
  BY DEF Process, Fails, LabelLength
<1>2. call.function.utf8 /\ IsAccepted /\ CodeSoFar
  BY <1>1, LoopingIsAccepted DEF WholeInv
<1>3. /\ LookupInv /\ LoopInv /\ conv.dir = "from" /\ conv.src = Rest
      /\ text \in {None, BegunLabel} /\ Holds(DoneLabels) /\ call \in Calls
  BY <1>1 DEF WholeInv, PhaseInv, RestInv, LookupInv
<1>4. DoneLabels' = DoneLabels
  BY <1>1, PartsUnchanged
<1>5. Holds(DoneLabels)'
  BY <1>1, <1>3, <1>4, HoldsKept DEF Holds
<1>6. CodeSoFar'
  BY <1>1, <1>2 DEF CodeSoFar, U_ILLEGAL_ARGUMENT_ERROR, U_MEMORY_ALLOCATION_ERROR
<1>7. ASSUME U_SUCCESS(error')
      PROVE  text' # None /\ WholeName = DoneLabels' \o EncodedText(text')
  <2>1. r # None /\ text = BegunLabel /\ text' = MappedText(text \o rest)
    BY <1>1, <1>3, <1>7 DEF U_SUCCESS, U_ZERO_ERROR, U_ILLEGAL_ARGUMENT_ERROR,
                            U_MEMORY_ALLOCATION_ERROR
  <2>2. r = all
    BY <1>1, <1>3, <2>1, ResultIsDecoded DEF WholeInv
  <2>3. /\ all = raw \o after /\ raw \in Seq(Unit) /\ Len(raw) = start /\ after \in Seq(Unit)
        /\ raw \in Seq(Ascii) /\ TakesLabel(raw, call) /\ BegunLabel = LowerText(raw)
    BY <1>2, <1>3, RestInParts DEF LoopInv
  <2> HIDE DEF start, r, all, after, raw
  <2>4. rest = after
    <3>1. r = raw \o after /\ Len(raw) = start
      BY <2>2, <2>3
    <3> DEFINE n == Len(raw)
               c == raw \o after
               k == Len(c)
               p == SubSeq(c, n + 1, k)
    <3>2. /\ c \in Seq(Unit) /\ k = n + Len(after) /\ n \in Nat /\ Len(after) \in Nat
          /\ \A i \in 1 .. n + Len(after) : c[i] = IF i <= n THEN raw[i] ELSE after[i - n]
      BY <2>3, ConcatProperties, LenProperties
    <3>3. rest = p
      BY <3>1
    <3> HIDE DEF n, c, k
    <3>4. p \in Seq(Unit) /\ Len(p) = Len(after)
      <4>1. n + 1 \in Nat /\ n + 1 >= 1 /\ k \in Int /\ k <= Len(c)
        BY <3>2 DEF k
      <4>2. p \in Seq(Unit) /\ Len(p) = IF k < n + 1 THEN 0 ELSE k - (n + 1) + 1
        BY <3>2, <4>1, PartOfText
      <4> HIDE DEF p
      <4> QED BY <3>2, <4>2
    <3>5. \A i \in 1 .. Len(after) : p[i] = after[i]
      <4> TAKE i \in 1 .. Len(after)
      <4>1. n + i \in 1 .. n + Len(after) /\ ~(n + i <= n) /\ (n + i) - n = i
            /\ n + 1 \in Int /\ k \in Int /\ i \in 1 .. k - (n + 1) + 1 /\ n + 1 + i - 1 = n + i
        BY <3>2
      <4>2. \A j \in n + 1 .. k : c[j] \in Unit
        BY <3>2, ElementOfSeq DEF k
      <4>3. p[i] = c[n + 1 + i - 1]
        BY <4>1, <4>2, SubSeqProperties
      <4> QED BY <3>2, <4>1, <4>3
    <3> HIDE DEF p
    <3>6. p = after
      BY <2>3, <3>4, <3>5, SeqEqual
    <3> QED BY <3>3, <3>6
  <2>5. text' = MappedText(all)
    <3>1. KeepsLabels(raw, after, call)
      BY <1>2, <1>3, <2>3 DEF LoopKeepsMapping
    <3>2. Mapped(raw \o after, call) = Mapped(LowerText(raw) \o after, call)
      BY <2>3, <3>1 DEF KeepsLabels
    <3> QED BY <2>1, <2>3, <2>4, <3>2 DEF MappedText
  <2>6. text' \in Seq(Unit)
    <3>1. all \in Seq(Unit)
      BY <2>3, ConcatProperties
    <3> QED BY <1>3, <2>5, <3>1, MappedType
  <2>7. WholeName = DoneLabels \o EncodedText(text')
    BY <1>2, <1>3, <2>5 DEF LoopInv, all
  <2> QED BY <1>4, <2>6, <2>7 DEF NoneIsNoText
<1> QED BY <1>1, <1>2, <1>5, <1>6, <1>7, IntoTheSink DEF Sinking

-----------------------------------------------------------------------------
(* toUTF8().                                                               *)
LEMMA SinkingFacts ==
  ASSUME WholeInv, pc \in Sinking
  PROVE  /\ call.function.utf8 /\ IsAccepted /\ CodeSoFar /\ checkArgs /\ Holds(DoneLabels)
         /\ U_SUCCESS(error) => text # None /\ WholeName = DoneLabels \o EncodedText(text)
         /\ pc \in {"first", "second"} => conv.dir = "to" /\ conv.src = text
         /\ DoneLabels \in Seq(Unit) /\ LookupInv
<1>1. call.function.utf8 /\ IsAccepted /\ CodeSoFar /\ checkArgs
  BY LoopingIsAccepted DEF WholeInv
<1>2. /\ Holds(DoneLabels)
      /\ U_SUCCESS(error) => text # None /\ WholeName = DoneLabels \o EncodedText(text)
      /\ pc \in {"first", "second"} => conv.dir = "to" /\ conv.src = text
  BY DEF WholeInv, PhaseInv, SinkingInv
<1>3. DoneLabels \in Seq(Unit) /\ LookupInv
  BY PartsOfAscii DEF WholeInv
<1> QED BY <1>1, <1>2, <1>3

(* NothingToAppend: the labels that are done were the whole name.          *)
LEMMA NothingToAppendPhase ==
  ASSUME RealSurrogates, WholeInv, NothingToAppend
  PROVE  PhaseInv'
<1>1. /\ pc = "sink" /\ text \in {None, <<>>} /\ pc' = "terminate"
      /\ UNCHANGED <<call, ascii, labelStart, sink, error>>
  BY DEF NothingToAppend
<1>2. /\ call.function.utf8 /\ IsAccepted /\ CodeSoFar /\ Holds(DoneLabels)
      /\ U_SUCCESS(error) => text # None /\ WholeName = DoneLabels \o EncodedText(text)
      /\ DoneLabels \in Seq(Unit)
  BY <1>1, SinkingFacts DEF Sinking
<1>3. ASSUME U_SUCCESS(error')
      PROVE  Holds(WholeName)'
  <2>1. text = <<>> /\ WholeName = DoneLabels \o EncodedText(text)
    BY <1>1, <1>2, <1>3
  <2>2. WholeName = DoneLabels
    BY <1>2, <2>1, NothingDecoded, ConcatEmptySeq
  <2>3. WholeName' = DoneLabels
    BY <1>1, <2>2, PartsUnchanged
  <2> QED BY <1>1, <1>2, <2>3, HoldsKept DEF Holds
<1>4. CodeSoFar'
  BY <1>1, <1>2 DEF CodeSoFar
<1> QED BY <1>1, <1>2, <1>3, <1>4, IntoTermination

(* GetAppendBuffer and ConvertAgain: the same text is converted.           *)
LEMMA ToUTF8Phases ==
  ASSUME WholeInv, GetAppendBuffer \/ ConvertAgain
  PROVE  PhaseInv'
<1>1. /\ pc \in Sinking /\ pc' \in {"first", "second"}
      /\ UNCHANGED <<call, ascii, labelStart, text, sink, error>>
      /\ conv'.dir = "to" /\ conv'.src = text
  BY DEF GetAppendBuffer, ConvertAgain, Sinking, Begins
<1>2. /\ call.function.utf8 /\ IsAccepted /\ CodeSoFar /\ Holds(DoneLabels)
      /\ U_SUCCESS(error) => text # None /\ WholeName = DoneLabels \o EncodedText(text)
  BY <1>1, SinkingFacts
<1>3. DoneLabels' = DoneLabels
  BY <1>1, PartsUnchanged
<1>4. Holds(DoneLabels)'
  BY <1>1, <1>2, <1>3, HoldsKept DEF Holds
<1>5. CodeSoFar'
  BY <1>1, <1>2 DEF CodeSoFar
<1> QED BY <1>1, <1>2, <1>3, <1>4, <1>5, IntoTheSink DEF Sinking

(* AppendConverted: the conversion has left nothing out.                   *)
LEMMA AppendConvertedPhase ==
  ASSUME RealSurrogates, LookupInputs, WholeInv, AppendConverted
  PROVE  PhaseInv'
<1>1. /\ pc \in {"first", "second"} /\ conv.pc = "returned" /\ U_SUCCESS(conv.status)
      /\ sink' = Append8(sink, conv.dest) /\ pc' = "terminate"
      /\ UNCHANGED <<call, ascii, labelStart, text, error>>
  BY DEF AppendConverted
<1>2. /\ call.function.utf8 /\ IsAccepted /\ CodeSoFar /\ checkArgs /\ Holds(DoneLabels)
      /\ U_SUCCESS(error) => text # None /\ WholeName = DoneLabels \o EncodedText(text)
      /\ conv.dir = "to" /\ conv.src = text
      /\ DoneLabels \in Seq(Unit) /\ LookupInv
  BY <1>1, SinkingFacts DEF Sinking
<1>3. conv.dest = EncodedText(text)
  <2>1. conv.status \in Int
    BY <1>2 DEF LookupInv, ConversionOK, ConversionSet
  <2>2. ~U_FAILURE(conv.status)
    BY <1>1, <2>1 DEF U_SUCCESS, U_FAILURE, U_ZERO_ERROR
  <2> QED BY <1>1, <1>2, <2>2, SuccessWritesAll DEF WholeInv, LookupInv
<1>4. conv.dest \in Seq(Unit)
  BY <1>2 DEF LookupInv, ConversionOK, ConversionSet
<1>5. ASSUME U_SUCCESS(error')
      PROVE  Holds(WholeName)'
  <2>1. WholeName = DoneLabels \o conv.dest
    BY <1>1, <1>2, <1>3, <1>5
  <2>2. \A c : c = DoneLabels \o conv.dest => Holds(c)'
    BY <1>1, <1>2, <1>4, SinkTakes
  <2>3. WholeName' = WholeName
    BY <1>1, PartsUnchanged
  <2> QED BY <2>1, <2>2, <2>3 DEF Holds
<1>6. CodeSoFar'
  BY <1>1, <1>2 DEF CodeSoFar
<1> QED BY <1>1, <1>2, <1>5, <1>6, IntoTermination

(* LoseText: the call is one of those that lose their text.                *)
LEMMA LoseTextPhase ==
  ASSUME WholeInv, LoseText
  PROVE  PhaseInv'
<1>1. pc = "first" /\ pc' = "terminate" /\ lost' = TRUE /\ UNCHANGED <<call, error>>
  BY DEF LoseText
<1>2. call.function.utf8 /\ IsAccepted /\ CodeSoFar
  BY <1>1, SinkingFacts DEF Sinking
<1>3. CodeSoFar'
  BY <1>1, <1>2 DEF CodeSoFar
<1> QED BY <1>1, <1>2, <1>3, IntoTermination

(* Terminate: the code tells how the length and the array compare.         *)
LEMMA TerminatePhase ==
  ASSUME RealSurrogates, LookupInputs, WholeInv, Terminate
  PROVE  PhaseInv'
<1> DEFINE w == WholeName
           size == Capacity
           n == Len(w)
<1>1. /\ pc = "terminate" /\ pc' = "returned" /\ UNCHANGED <<call, sink, lost>>
      /\ error' = TerminateStatus(size, sink.appended, error)
  BY DEF Terminate
<1>2. call.function.utf8 /\ IsAccepted /\ CodeSoFar
  BY <1>1, LoopingIsAccepted DEF WholeInv
<1>3. w \in Seq(Unit) /\ n \in Nat /\ size \in Int /\ Capacity' = size /\ WholeName' = w
  BY <1>1, WholeNameType, CallType, PartsUnchanged DEF WholeInv, LookupInv
<1>4. ~lost /\ U_SUCCESS(error) => Holds(WholeName)
  BY <1>1 DEF WholeInv, PhaseInv, EndInv
<1>5. SUFFICES ASSUME ~lost', error' \in ResultCodes
               PROVE  Delivered'
  BY <1>1, IntoTheEnd DEF Over
<1>6. U_SUCCESS(error) /\ ~U_FAILURE(error) /\ error \in Int
  BY <1>1, <1>2, <1>5, FailureStays, SuccessIsNoFailure DEF CodeSoFar
<1>7. sink.appended = n /\ sink.bytes = SubSeq(w, 1, Min({size, n}))
  BY <1>1, <1>4, <1>5, <1>6 DEF Holds
<1> HIDE DEF w, size, n
<1>8. error' = TerminateStatus(size, n, U_ZERO_ERROR)
  BY <1>1, <1>3, <1>5, <1>6, <1>7, StatusOfSuccess
<1> QED BY <1>1, <1>3, <1>7, <1>8 DEF Delivered, n

(* HandOver, GiveUp and CallerFrees leave the result alone.                *)
LEMMA OverPhase ==
  ASSUME WholeInv, HandOver \/ GiveUp \/ CallerFrees
  PROVE  PhaseInv'
<1>1. pc \in Over /\ pc' \in Over /\ UNCHANGED <<call, sink, lost, error>>
  BY DEF HandOver, GiveUp, CallerFrees, Over
<1>2. IsAccepted /\ ~lost /\ error \in ResultCodes => Delivered
  BY <1>1 DEF WholeInv, PhaseInv, EndInv
<1>3. Delivered' = Delivered
  BY <1>1, PartsUnchanged DEF Delivered
<1> QED BY <1>1, <1>2, <1>3, IntoTheEnd

(* ConvertStep: the conversion keeps its direction and its text.           *)
LEMMA ConvertPhase ==
  ASSUME WholeInv, ConvertStep
  PROVE  PhaseInv'
<1>1. /\ UNCHANGED <<call, pc, ascii, labelStart, text, sink, inPlace, error, lost>>
      /\ Convert
  BY DEF ConvertStep
<1>2. conv \in ConversionSet
  BY DEF WholeInv, LookupInv, ConversionOK
<1>3. conv'.dir = conv.dir /\ conv'.src = conv.src
  BY <1>1, <1>2 DEF Convert, BeginBlock, ConvertFast, BackOut, ConvertSlow, ConvertSplit,
                    EndSlow, Preflight, ReturnLength, ConversionSet
<1> QED BY <1>1, <1>3, PhaseKept DEF WholeInv

(* Every step of a call.                                                   *)
LEMMA PhaseStep ==
  ASSUME RealSurrogates, LookupInputs, LoopKeepsMapping, NoneIsNoText, WholeInv, [Next]_vars
  PROVE  PhaseInv'
<1>1. CASE CallWithNull \/ Enter \/ Refuse \/ CallProcess
  BY <1>1, CallWithNullPhase, EnterPhase, RefusePhase, CallProcessPhase
<1>2. CASE Process16 \/ Extract
  BY <1>2, Process16Phase, ExtractPhase
<1>3. CASE AsciiByte \/ AsciiEnd \/ AsciiBreak
  BY <1>3, AsciiBytePhase, AsciiEndPhase, AsciiBreakPhase
<1>4. CASE PrefixConverted \/ Process
  BY <1>4, PrefixConvertedPhase, ProcessPhase
<1>5. CASE NothingToAppend \/ GetAppendBuffer \/ ConvertAgain
  BY <1>5, NothingToAppendPhase, ToUTF8Phases
<1>6. CASE AppendConverted \/ LoseText \/ Terminate
  BY <1>6, AppendConvertedPhase, LoseTextPhase, TerminatePhase
<1>7. CASE HandOver \/ GiveUp \/ CallerFrees
  BY <1>7, OverPhase
<1>8. CASE ConvertStep
  BY <1>8, ConvertPhase
<1>9. CASE Done \/ UNCHANGED vars
  <2>1. UNCHANGED <<call, pc, ascii, labelStart, text, sink, inPlace, error, lost, conv>>
    BY <1>9 DEF Done, vars
  <2> QED BY <2>1, PhaseKept DEF WholeInv
<1> QED BY <1>1, <1>2, <1>3, <1>4, <1>5, <1>6, <1>7, <1>8, <1>9 DEF Next

(* Every step of a call: only AsciiByte moves the loop on.                 *)
LEMMA LoopStep ==
  ASSUME RealSurrogates, LookupInputs, LoopKeepsMapping, WholeInv, [Next]_vars
  PROVE  LoopInv'
<1>1. CASE AsciiByte
  <2>1. pc = "ascii"
    BY <1>1 DEF AsciiByte
  <2>2. call.function.utf8
    BY <2>1, LoopingIsAccepted DEF WholeInv, Looping
  <2> QED BY <1>1, <2>2, LoopInvByte DEF WholeInv
<1>2. CASE ~AsciiByte
  <2>1. UNCHANGED <<call, ascii, labelStart>>
    BY <1>2 DEF Next, CallWithNull, Enter, Refuse, CallProcess, Process16, Extract,
       AsciiEnd, AsciiBreak, PrefixConverted, Process, NothingToAppend, GetAppendBuffer,
       AppendConverted, ConvertAgain, LoseText, Terminate, HandOver, GiveUp, CallerFrees,
       ConvertStep, Done, vars
  <2> QED BY <2>1, LoopInvKept DEF WholeInv
<1> QED BY <1>1, <1>2

(* The first state of a call.                                              *)
LEMMA WholeInit ==
  ASSUME RealSurrogates, LookupInputs, LoopKeepsMapping, Init
  PROVE  WholeInv
<1>1. LookupInv /\ PhaseInv
  BY LookupInvInit, PhaseInit
<1>2. WrittenInv(conv) /\ FullInv(conv)
  BY WrittenIdle, FullIdle DEF Init
<1>3. LoopInv
  BY LoopInvFirst DEF Init
<1> QED BY <1>1, <1>2, <1>3 DEF WholeInv

(* All of the invariant, in every step.                                    *)
LEMMA WholeStep ==
  ASSUME RealSurrogates, LookupInputs, LoopKeepsMapping, NoneIsNoText, WholeInv, [Next]_vars
  PROVE  WholeInv'
<1>1. LookupInv'
  BY LookupInvStep DEF WholeInv
<1>2. WrittenInv(conv') /\ FullInv(conv')
  <2>1. CASE Next
    BY <1>1, <2>1, WrittenInCall, FullInCall DEF WholeInv
  <2>2. CASE UNCHANGED vars
    BY <2>2 DEF WholeInv, vars
  <2> QED BY <2>1, <2>2
<1>3. LoopInv' /\ PhaseInv'
  BY LoopStep, PhaseStep
<1> QED BY <1>1, <1>2, <1>3 DEF WholeInv

(* A buffer is handed over only without an error.                          *)
LEMMA HandedInit ==
  ASSUME Init
  PROVE  HandedInv
BY DEF Init, HandedInv

(* What the caller is given changes only where a call is answered.         *)
LEMMA GivenByStep ==
  ASSUME HandedInv, [Next]_vars
  PROVE  /\ out' = [buf |-> out'.buf, lookupname |-> out'.lookupname, rc |-> out'.rc,
                    freed |-> out'.freed]
         /\ \/ out'.lookupname = out.lookupname
            \/ CallWithNull /\ out'.lookupname = "null"
            \/ HandOver /\ out'.lookupname = "buf"
<1>1. out = [buf |-> out.buf, lookupname |-> out.lookupname, rc |-> out.rc, freed |-> out.freed]
  BY DEF HandedInv
<1>2. CASE UNCHANGED out
  BY <1>1, <1>2
<1>3. CASE CallWithNull
  <2>1. out' = [out EXCEPT !.lookupname = IF call.given THEN "null" ELSE @, !.rc = U_ZERO_ERROR]
    BY <1>3 DEF CallWithNull
  <2> QED BY <1>1, <1>3, <2>1
<1>4. CASE Enter
  <2>1. out' = [out EXCEPT !.buf = IF IsIdn2 THEN "live" ELSE @]
    BY <1>4 DEF Enter
  <2> QED BY <1>1, <2>1
<1>5. CASE HandOver
  <2>1. out' = [out EXCEPT !.rc = U_ZERO_ERROR,
                           !.lookupname = IF call.given THEN "buf" ELSE @,
                           !.buf = IF call.given THEN @ ELSE "deleted"]
    BY <1>5 DEF HandOver
  <2> QED BY <1>1, <1>5, <2>1
<1>6. CASE GiveUp
  <2>1. \/ out' = [out EXCEPT !.rc = -1]
        \/ out' = [out EXCEPT !.rc = ErrorToIdn2(error), !.buf = "deleted"]
    BY <1>6 DEF GiveUp
  <2> QED BY <1>1, <2>1
<1>7. CASE CallerFrees
  <2>1. \/ out' = [out EXCEPT !.freed = TRUE,
                              !.buf = IF out.lookupname = "buf" THEN "deleted" ELSE @]
        \/ out' = out
    BY <1>7 DEF CallerFrees
  <2> QED BY <1>1, <2>1
<1> QED
  BY <1>2, <1>3, <1>4, <1>5, <1>6, <1>7
     DEF Next, Refuse, CallProcess, Process16, Extract, AsciiByte, AsciiEnd, AsciiBreak,
         PrefixConverted, Process, NothingToAppend, GetAppendBuffer, AppendConverted,
         ConvertAgain, LoseText, Terminate, ConvertStep, Done, vars

(* An answer is not taken back, and its code stays.                        *)
LEMMA OverIsOver ==
  ASSUME pc \in Over, [Next]_vars
  PROVE  pc' \in Over /\ error' = error
<1>1. pc \in {"returned", "answered", "done"}
  BY DEF Over
<1> QED
  BY <1>1 DEF Over, Next, CallWithNull, Enter, Refuse, CallProcess, Accepted, Process16, Extract,
         AsciiByte, AsciiEnd, AsciiBreak, PrefixConverted, Process, NothingToAppend,
         GetAppendBuffer, AppendConverted, ConvertAgain, LoseText, Terminate, HandOver, GiveUp,
         CallerFrees, ConvertStep, Done, vars

(* A buffer is handed over without an error, NULL only for NULL.           *)
LEMMA HandedStep ==
  ASSUME HandedInv, WholeInv, [Next]_vars
  PROVE  HandedInv'
<1>1. call' = call
  BY DEF Next, CallWithNull, Enter, Refuse, CallProcess, Process16, Extract, AsciiByte,
         AsciiEnd, AsciiBreak, PrefixConverted, Process, NothingToAppend, GetAppendBuffer,
         AppendConverted, ConvertAgain, LoseText, Terminate, HandOver, GiveUp, CallerFrees,
         ConvertStep, Done, vars
<1>2. checkArgs' = checkArgs
  BY <1>1, PartsUnchanged
<1>3. /\ out.lookupname = "buf" => pc \in Over /\ error = U_ZERO_ERROR
      /\ out.lookupname = "null" => ~checkArgs
  BY DEF HandedInv
<1>4. out' = [buf |-> out'.buf, lookupname |-> out'.lookupname, rc |-> out'.rc,
              freed |-> out'.freed]
  BY GivenByStep
<1>5. CASE out'.lookupname = out.lookupname
  BY <1>2, <1>3, <1>4, <1>5, OverIsOver DEF HandedInv
<1>6. CASE CallWithNull /\ out'.lookupname = "null"
  <2>1. IsIdn2 /\ call.src = None
    BY <1>6 DEF CallWithNull
  <2>2. call.length = -1
    <3>1. CallOK(call)
      BY CallsAssumption DEF WholeInv, LookupInv
    <3> QED BY <2>1, <3>1 DEF CallOK, IsIdn2
  <2>3. ~checkArgs
    BY <2>1, <2>2 DEF checkArgs
  <2> QED BY <1>2, <1>4, <1>6, <2>3 DEF HandedInv
<1>7. CASE HandOver /\ out'.lookupname = "buf"
  <2>1. pc' \in Over /\ error' = U_ZERO_ERROR
    BY <1>7 DEF HandOver, IsGood, Over
  <2> QED BY <1>4, <1>7, <2>1 DEF HandedInv
<1> QED BY <1>5, <1>6, <1>7, GivenByStep

(* What the invariants say of a call that is over.                         *)
LEMMA WholeIsDelivered ==
  ASSUME RealSurrogates, LookupInputs, WholeInv, HandedInv
  PROVE  ResultIsWhole
<1> SUFFICES ASSUME IsOver, WasAccepted, ~lost, error \in ResultCodes
             PROVE  /\ Delivered
                    /\ out.lookupname = "buf" => Len(WholeName) < Capacity
  BY DEF ResultIsWhole, ResultCodes, Delivered
<1>1. pc \in Over /\ IsAccepted
  BY DEF IsOver, WasAccepted, IsAccepted, Over
<1>2. Delivered
  BY <1>1 DEF WholeInv, PhaseInv, EndInv
<1>3. ASSUME out.lookupname = "buf"
      PROVE  Len(WholeName) < Capacity
  <2> DEFINE n == Len(WholeName)
             size == Capacity
  <2>1. n \in Int /\ size \in Int
    BY WholeNameType, CallType DEF WholeInv, LookupInv
  <2>2. TerminateStatus(size, n, U_ZERO_ERROR) = U_ZERO_ERROR
    BY <1>2, <1>3 DEF HandedInv, Delivered
  <2> HIDE DEF n, size
  <2>3. n < size
    BY <2>1, <2>2 DEF TerminateStatus, U_FAILURE, U_ZERO_ERROR,
                      U_STRING_NOT_TERMINATED_WARNING, U_BUFFER_OVERFLOW_ERROR
  <2> QED BY <2>3 DEF n, size
<1> QED BY <1>2, <1>3

(* A call that was accepted and reports nothing but the length of its      *)
(* result has put the whole name into the caller's array, or what fits of  *)
(* it, and returns the whole length, for names and arrays of any size and  *)
(* every outcome of the allocations: it does not matter how many labels    *)
(* the loop over ASCII of processUTF8() has done, whether the prefix of a  *)
(* label was converted by itself, nor whether toUTF8() had room at once.   *)
(* The mapping is only asked to leave to that loop the ASCII labels which  *)
(* it takes (KeepsLabels); what it makes of any other label is free.       *)
THEOREM ResultsAreWhole ==
  ASSUME RealSurrogates, LookupInputs, LoopKeepsMapping, NoneIsNoText
  PROVE  Spec => []ResultIsWhole
<1> DEFINE Inv == WholeInv /\ HandedInv
<1>1. Init => Inv
  BY WholeInit, HandedInit
<1>2. Inv /\ [Next]_vars => Inv'
  BY WholeStep, HandedStep
<1>3. Inv => ResultIsWhole
  BY WholeIsDelivered
<1> HIDE DEF Inv
<1> QED BY <1>1, <1>2, <1>3, PTL DEF Spec

-----------------------------------------------------------------------------
(* LeastOf() is the least element, and NotFound if there is none.          *)
LEMMA LeastOfIsLeast ==
  ASSUME NEW S \in SUBSET Nat, S # {}
  PROVE  LeastOf(S) \in S /\ \A j \in S : LeastOf(S) <= j
<1>1. \E m \in S : \A y \in S : m <= y
  BY NatHasLeast
<1> QED BY <1>1 DEF LeastOf

(* There is only one least element.                                        *)
LEMMA LeastIsUnique ==
  ASSUME NEW S \in SUBSET Nat, NEW i \in S, \A j \in S : i <= j
  PROVE  LeastOf(S) = i
<1>1. LeastOf(S) \in S /\ LeastOf(S) <= i
  BY LeastOfIsLeast
<1>2. i <= LeastOf(S)
  BY <1>1
<1>3. i \in Nat /\ LeastOf(S) \in Nat
  BY <1>1
<1> QED BY <1>1, <1>2, <1>3

(* The test of isMatchAtCPBoundary() is that both ends are boundaries.     *)
LEMMA MatchIsBetweenBoundaries ==
  ASSUME NEW s \in Seq(Nat), NEW n \in Nat, n > 0, NEW i \in Nat, i + n <= Len(s)
  PROVE  isMatchAtCPBoundary(s, i, i + n) <=> IsBoundary(s, i) /\ IsBoundary(s, i + n)
<1>1. IsBoundary(s, i) <=> i = 0 \/ ~(IsLead(s[i]) /\ IsTrail(s[i + 1]))
  <2>1. i - 1 + 1 = i /\ i - 1 + 2 = i + 1 /\ i + 1 <= Len(s)
    OBVIOUS
  <2> QED BY <2>1 DEF IsBoundary, StartsPair
<1>2. IsBoundary(s, i + n)
        <=> i + n = Len(s) \/ ~(IsLead(s[i + n]) /\ IsTrail(s[i + n + 1]))
  <2>1. /\ i + n - 1 + 1 = i + n /\ i + n - 1 + 2 = i + n + 1
        /\ i + n + 1 <= Len(s) <=> i + n # Len(s)
    OBVIOUS
  <2> QED BY <2>1 DEF IsBoundary, StartsPair
<1> QED BY <1>1, <1>2 DEF isMatchAtCPBoundary

(* The loop's matches are the occurrences.                                 *)
LEMMA MatchesAreOccurrences ==
  ASSUME NEW s \in Seq(Nat), NEW sub \in Seq(Nat), sub # <<>>, NEW i \in Nat
  PROVE  IsMatch(s, sub, i) <=> i \in Occurrences(s, sub)
<1>1. Len(sub) \in Nat /\ Len(sub) > 0 /\ Len(s) \in Nat
  OBVIOUS
<1>2. CASE i + Len(sub) <= Len(s)
  <2>1. SubSeq(s, i + 1, i + Len(sub)) = sub
          <=> \A k \in 1 .. Len(sub) : s[i + k] = sub[k]
    <3>1. SubSeq(s, i + 1, i + Len(sub)) \in Seq(Nat)
      BY <1>1, <1>2
    <3>2. Len(SubSeq(s, i + 1, i + Len(sub))) = Len(sub)
      BY <1>1, <1>2
    <3>3. \A k \in 1 .. Len(sub) : SubSeq(s, i + 1, i + Len(sub))[k] = s[i + k]
      BY <1>1, <1>2, SMTT(30)
    <3>4. CASE \A k \in 1 .. Len(sub) : s[i + k] = sub[k]
      <4>1. \A k \in 1 .. Len(sub) : SubSeq(s, i + 1, i + Len(sub))[k] = sub[k]
        BY <3>3, <3>4
      <4> QED BY <3>1, <3>2, <4>1, <3>4, SeqEqual
    <3>5. CASE SubSeq(s, i + 1, i + Len(sub)) = sub
      BY <3>3, <3>5
    <3> QED BY <3>4, <3>5
  <2>2. i \in 0 .. Len(s) - Len(sub)
    BY <1>1, <1>2
  <2>3. isMatchAtCPBoundary(s, i, i + Len(sub))
          <=> IsBoundary(s, i) /\ IsBoundary(s, i + Len(sub))
    BY <1>1, <1>2, MatchIsBetweenBoundaries
  <2> QED BY <1>2, <2>1, <2>2, <2>3 DEF IsMatch, Occurrences
<1>3. CASE ~(i + Len(sub) <= Len(s))
  <2>1. i \notin 0 .. Len(s) - Len(sub)
    BY <1>1, <1>3
  <2> QED BY <1>3, <2>1 DEF IsMatch, Occurrences
<1> QED BY <1>2, <1>3

(* The loop finds the first occurrence: where a terminated text runs out   *)
(* before sub does, none can begin behind, so that giving up is right.     *)
LEMMA LoopFindsTheFirst ==
  ASSUME NEW s \in Seq(Nat), NEW sub \in Seq(Nat), sub # <<>>, NEW isTerminated \in BOOLEAN
  PROVE  FoundBy(s, sub, isTerminated) = LeastOf(Occurrences(s, sub))
<1> DEFINE stops == {i \in 0 .. Len(s) - 1 :
                       IsMatch(s, sub, i) \/ (isTerminated /\ RunsOut(s, sub, i))}
<1>1. Len(sub) \in Nat /\ Len(sub) > 0 /\ Len(s) \in Nat
  OBVIOUS
<1>2. stops \in SUBSET Nat
  BY <1>1
<1>3. \A i \in Nat : IsMatch(s, sub, i) <=> i \in Occurrences(s, sub)
  BY MatchesAreOccurrences
<1>4. Occurrences(s, sub) \in SUBSET Nat
  BY DEF Occurrences
<1>5. Occurrences(s, sub) \subseteq stops
  <2> SUFFICES ASSUME NEW i \in Occurrences(s, sub) PROVE i \in stops
    OBVIOUS
  <2>1. i \in Nat /\ IsMatch(s, sub, i)
    BY <1>3, <1>4
  <2>2. i \in 0 .. Len(s) - 1
    BY <1>1, <2>1 DEF IsMatch
  <2> QED BY <2>1, <2>2
<1>6. FoundBy(s, sub, isTerminated)
        = IF LeastOf(stops) # NotFound /\ IsMatch(s, sub, LeastOf(stops))
          THEN LeastOf(stops) ELSE NotFound
  BY DEF FoundBy
<1>7. CASE stops = {}
  <2>1. Occurrences(s, sub) = {}
    BY <1>5, <1>7
  <2>2. LeastOf(stops) = NotFound /\ LeastOf(Occurrences(s, sub)) = NotFound
    BY <1>7, <2>1 DEF LeastOf
  <2> QED BY <1>6, <2>2
<1>8. CASE stops # {}
  <2> DEFINE stop == LeastOf(stops)
  <2>1. stop \in stops /\ \A j \in stops : stop <= j
    BY <1>2, <1>8, LeastOfIsLeast
  <2>2. stop \in Nat /\ stop # NotFound
    BY <1>2, <2>1 DEF NotFound
  <2>3. IsMatch(s, sub, stop) \/ RunsOut(s, sub, stop)
    BY <2>1
  <2> HIDE DEF stop, stops
  <2>4. CASE IsMatch(s, sub, stop)
    <3>1. stop \in Occurrences(s, sub)
      BY <1>3, <2>2, <2>4
    <3>2. \A j \in Occurrences(s, sub) : stop <= j
      BY <1>5, <2>1
    <3>3. LeastOf(Occurrences(s, sub)) = stop
      BY <1>4, <3>1, <3>2, LeastIsUnique
    <3> QED BY <1>6, <2>2, <2>4, <3>3 DEF stop
  <2>5. CASE ~IsMatch(s, sub, stop)
    <3>1. stop + Len(sub) > Len(s)
      BY <2>3, <2>5 DEF RunsOut
    <3>2. \A j \in Occurrences(s, sub) : FALSE
      <4> SUFFICES ASSUME NEW j \in Occurrences(s, sub) PROVE FALSE
        OBVIOUS
      <4>1. j \in Nat /\ stop <= j
        BY <1>4, <1>5, <2>1
      <4>2. j + Len(sub) <= Len(s)
        BY <1>3, <4>1 DEF IsMatch
      <4> QED BY <1>1, <2>2, <3>1, <4>1, <4>2
    <3>3. LeastOf(Occurrences(s, sub)) = NotFound
      BY <3>2 DEF LeastOf
    <3> QED BY <1>6, <2>5, <3>3 DEF stop
  <2> QED BY <2>4, <2>5
<1> QED BY <1>7, <1>8

(* A unit that is no surrogate occurs wherever it stands.                  *)
LEMMA UnitOccursWhereItStands ==
  ASSUME NEW s \in Seq(Nat), NEW c \in Nat, ~IsSurrogate(c), NEW i \in Nat
  PROVE  i \in Occurrences(s, <<c>>) <=> i < Len(s) /\ s[i + 1] = c
<1>1. <<c>> \in Seq(Nat) /\ <<c>> # <<>> /\ Len(<<c>>) = 1 /\ <<c>>[1] = c
  OBVIOUS
<1>2. i \in Occurrences(s, <<c>>) <=> IsMatch(s, <<c>>, i)
  BY <1>1, MatchesAreOccurrences
<1>3. (\A k \in 1 .. Len(<<c>>) : s[i + k] = <<c>>[k]) <=> s[i + 1] = c
  <2>1. 1 .. Len(<<c>>) = {1}
    BY <1>1
  <2> QED BY <1>1, <2>1
<1>4. i + Len(<<c>>) <= Len(s) <=> i < Len(s)
  BY <1>1
<1>5. ~IsTrail(c) /\ ~IsLead(c)
  BY SurrogateLayout DEF IsSurrogate, IsTrail, IsLead
<1>6. s[i + 1] = c => isMatchAtCPBoundary(s, i, i + Len(<<c>>))
  BY <1>1, <1>5 DEF isMatchAtCPBoundary
<1> QED BY <1>2, <1>3, <1>4, <1>6 DEF IsMatch

(* u_strFindFirst() returns the first occurrence of a part that is not     *)
(* empty, whether the text ends with a NUL or has a length, and none if    *)
(* there is none; but the NUL at the end of a text, when the part is just  *)
(* that, is found as well.                                                 *)
THEOREM FindFirstFindsTheFirst ==
  ASSUME NEW s \in Seq(Nat), NEW sub \in Seq(Nat), sub # <<>>, NEW isTerminated \in BOOLEAN,
         ~(isTerminated /\ sub = JustNul)
  PROVE  u_strFindFirst(s, sub, isTerminated) = LeastOf(Occurrences(s, sub))
<1>1. CASE Len(sub) > 1 \/ IsSurrogate(sub[1])
  <2>1. u_strFindFirst(s, sub, isTerminated) = FoundBy(s, sub, isTerminated)
    BY <1>1 DEF u_strFindFirst
  <2> QED BY <2>1, LoopFindsTheFirst
<1>2. CASE ~(Len(sub) > 1 \/ IsSurrogate(sub[1]))
  <2> DEFINE c == sub[1]
  <2>1. sub = <<c>> /\ c \in Nat /\ ~IsSurrogate(c)
    <3>1. Len(sub) = 1
      <4>1. Len(sub) \in Nat /\ Len(sub) > 0
        OBVIOUS
      <4>2. ~(Len(sub) > 1)
        BY <1>2
      <4>3. \A n \in Nat : n > 0 /\ ~(n > 1) => n = 1
        OBVIOUS
      <4> QED BY <4>1, <4>2, <4>3, Zenon
    <3> QED BY <1>2, <3>1
  <2>2. Len(s) \in Nat
    OBVIOUS
  <2>3. Occurrences(s, sub) = {i \in 0 .. Len(s) - 1 : s[i + 1] = c}
    <3>1. \A i \in Nat : i \in Occurrences(s, sub) <=> i < Len(s) /\ s[i + 1] = c
      BY <2>1, UnitOccursWhereItStands
    <3>2. Occurrences(s, sub) \subseteq Nat
      BY DEF Occurrences
    <3>3. \A i : i \in 0 .. Len(s) - 1 <=> i \in Nat /\ i < Len(s)
      BY <2>2
    <3> HIDE DEF c
    <3> QED BY <3>1, <3>2, <3>3
  <2>4. CASE isTerminated
    <3>1. c # 0
      BY <2>1, <2>4 DEF JustNul
    <3>2. u_strFindFirst(s, sub, isTerminated)
            = LeastOf({i \in 0 .. Len(s) : IF i = Len(s) THEN c = 0 ELSE s[i + 1] = c})
      BY <1>2, <2>4 DEF u_strFindFirst, u_strchr
    <3>3. {i \in 0 .. Len(s) : IF i = Len(s) THEN c = 0 ELSE s[i + 1] = c}
            = {i \in 0 .. Len(s) - 1 : s[i + 1] = c}
      <4>1. \A i : i \in 0 .. Len(s) - 1 <=> i \in 0 .. Len(s) /\ i # Len(s)
        BY <2>2
      <4> HIDE DEF c
      <4> QED BY <3>1, <4>1
    <3> QED BY <2>3, <3>2, <3>3
  <2>5. CASE ~isTerminated
    BY <1>2, <2>3, <2>5 DEF u_strFindFirst, u_memchr
  <2> QED BY <2>4, <2>5
<1> QED BY <1>1, <1>2

(* What u_strFindFirst() returns never lies inside a surrogate pair, and   *)
(* neither does the end of what it has found.                              *)
THEOREM SearchCutsNoPair ==
  ASSUME NEW s \in Seq(Nat), NEW sub \in Seq(Nat), sub # <<>>, NEW isTerminated \in BOOLEAN,
         ~(isTerminated /\ sub = JustNul),
         NEW i, i = u_strFindFirst(s, sub, isTerminated), i # NotFound
  PROVE  IsBoundary(s, i) /\ IsBoundary(s, i + Len(sub))
<1>1. i = LeastOf(Occurrences(s, sub))
  BY FindFirstFindsTheFirst
<1>2. Occurrences(s, sub) \in SUBSET Nat /\ Occurrences(s, sub) # {}
  <2>1. Occurrences(s, sub) \in SUBSET Nat
    BY DEF Occurrences
  <2>2. Occurrences(s, sub) # {}
    BY <1>1 DEF LeastOf
  <2> QED BY <2>1, <2>2
<1>3. i \in Occurrences(s, sub)
  BY <1>1, <1>2, LeastOfIsLeast
<1> QED BY <1>3 DEF Occurrences

-----------------------------------------------------------------------------
(* The tests of u_errorName() exclude each other: the ranges of uidna.h do *)
(* not overlap.                                                            *)
LEMMA FamiliesAreDisjoint ==
  ASSUME NEW code \in Int, NEW f \in Families, NEW g \in Families,
         IsOf(code, f), IsOf(code, g)
  PROVE  f = g
BY DEF Families, IsOf, Start, Limit

(* u_errorName() of a code of a family is an entry of the family's table.  *)
LEMMA NameOfAFamily ==
  ASSUME NEW code \in Int, NEW f \in Families, IsOf(code, f)
  PROVE  u_errorName(code) = [table |-> f, index |-> code - Start[f]]
<1>1. IsOf(code, CHOOSE g \in Families : IsOf(code, g))
      /\ (CHOOSE g \in Families : IsOf(code, g)) \in Families
  OBVIOUS
<1>2. (CHOOSE g \in Families : IsOf(code, g)) = f
  BY <1>1, FamiliesAreDisjoint
<1> QED BY <1>2, Zenon DEF u_errorName

(* u_errorName() never reads a pointer that the initializer of a table     *)
(* left null, nor one outside of it: the tables of u_types.cc are as long  *)
(* as the ranges of the enumeration.                                       *)
THEOREM EveryCodeHasAName ==
  ASSUME NEW code \in Int
  PROVE  \/ u_errorName(code) = Bogus
         \/ /\ u_errorName(code).table \in Families
            /\ u_errorName(code).index \in 0 .. NamesListed[u_errorName(code).table] - 1
<1>1. CASE \E f \in Families : IsOf(code, f)
  <2>1. PICK f \in Families : IsOf(code, f)
    BY <1>1
  <2>2. u_errorName(code) = [table |-> f, index |-> code - Start[f]]
    BY <2>1, NameOfAFamily
  <2>3. code - Start[f] \in 0 .. NamesListed[f] - 1
    BY <2>1 DEF Families, IsOf, Start, Limit, NamesListed
  <2> QED BY <2>2, <2>3
<1>2. CASE ~\E f \in Families : IsOf(code, f)
  BY <1>2 DEF u_errorName
<1> QED BY <1>1, <1>2

(* There are fifteen UIDNA_ERROR_* bits.                                   *)
LEMMA ErrorBitsEnd ==
  AllErrorBits \in Int /\ AllErrorBits <= 32767
BY DEF AllErrorBits

(* A negative result of idn2_lookup_u8() is a set of UIDNA_ERROR_* bits,   *)
(* and idn2_strerror() takes it for an error code: the name it gives is    *)
(* one of a standard error or none at all, never one about IDNA.           *)
THEOREM StrErrorNeverNamesAnIDNAError ==
  ASSUME NEW mask \in 1 .. AllErrorBits
  PROVE  idn2_strerror(-mask).table \in {"standard", "bogus"}
<1>0. AllErrorBits \in Int /\ AllErrorBits <= 32767
  BY ErrorBitsEnd
<1>1. /\ mask \in Int /\ 0 < mask /\ mask <= 32767
      /\ idn2_strerror(-mask) = u_errorName(mask)
  <2>1. mask \in Int /\ 0 < mask /\ mask <= 32767 /\ -mask # 0 /\ -(-mask) = mask
    BY <1>0
  <2> QED BY <2>1 DEF idn2_strerror
<1>2. CASE \E f \in Families : IsOf(mask, f)
  <2>1. PICK f \in Families : IsOf(mask, f)
    BY <1>2
  <2>2. f = "standard"
    <3>1. mask \in Int /\ 0 < mask /\ mask <= 32767
      BY <1>1
    <3>2. f # "warning"
      BY <2>1, <3>1 DEF IsOf, Limit
    <3>3. Start[f] <= 32767
      BY <2>1, <3>1 DEF Families, IsOf, Start
    <3> QED BY <3>2, <3>3 DEF Families, Start
  <2>3. u_errorName(mask) = [table |-> f, index |-> mask - Start[f]]
    BY <1>1, <2>1, NameOfAFamily
  <2> QED BY <1>1, <2>2, <2>3
<1>3. CASE ~\E f \in Families : IsOf(mask, f)
  BY <1>1, <1>3 DEF u_errorName, Bogus
<1> QED BY <1>2, <1>3
=============================================================================
