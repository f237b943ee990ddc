----------------------- MODULE PunycodeDecoderProofs ------------------------
(***************************************************************************)
(* The decoder's arithmetic for every width of an integer and every input. *)
(*                                                                         *)
(* The divisions that guard i and w need no help.  Two variables have no   *)
(* check of their own: k grows by Base with every digit, and i becomes     *)
(* position + 1 after an insertion.  Both are bounded by how much of the   *)
(* input has been read: k <= Base * (in + 1), and the output never has     *)
(* more code points than characters read, so that the limit on the input's *)
(* length is what keeps them in range.                                     *)
(***************************************************************************)
EXTENDS PunycodeDecoder, PunycodeProofs

InLoops == pc \in {"next", "digit", "insert"}

NumbersInv ==
  /\ pc \in {"ready", "next", "digit", "insert", "done"}
  /\ src \in Seq(Nat)
  /\ destCPCount \in Nat /\ in \in Nat /\ oldi \in Nat /\ bias \in Nat
  /\ n \in 0 .. MaxCodePoint
  /\ i \in 0 .. MaxInt /\ w \in 0 .. MaxInt /\ k \in 0 .. MaxInt

(* How much has been read bounds what has been made of it.                 *)
InputInv ==
  InLoops =>
    /\ Len(src) <= DecodeMaxChars
    /\ in <= Len(src)
    /\ destCPCount <= in
    /\ pc = "insert" => destCPCount < in
    /\ pc = "digit" => w >= 1 /\ k <= Base * (in + 1)
    /\ pc # "next" => oldi <= i

IInv == NumbersInv /\ InputInv

(* f is the index of the first surrogate pair of d, or beyond d.           *)
FirstPair(d, f) ==
  /\ \A x \in 0 .. Len(d) - 1 : StartsPair(d, x) => f <= x
  /\ f > Len(d) \/ (f \in 0 .. Len(d) - 1 /\ StartsPair(d, f))

(* What the counters say of the output as long as everything has fitted.   *)
OutputIsWhole ==
  /\ Len(dest) = destLength
  /\ destCPCount = CountCodePoints(dest, 0, Len(dest))
  /\ FirstPair(dest, firstSupplementaryIndex)

OutputInv ==
  /\ dest \in Seq(Nat) /\ capacity \in Nat /\ destLength \in Nat
  /\ firstSupplementaryIndex \in Nat /\ status \in Int
  /\ InLoops /\ destLength <= capacity => OutputIsWhole

-----------------------------------------------------------------------------
(* The last delimiter lies inside the string.                              *)
LEMMA LastDelimiterIsIndex ==
  ASSUME NEW s \in Seq(Nat)
  PROVE  /\ LastDelimiter(s) \in Nat
         /\ LastDelimiter(s) > 0 => LastDelimiter(s) < Len(s)
<1> DEFINE at == {x \in 0 .. Len(s) - 1 : s[x + 1] = Delimiter}
<1>1. Len(s) \in Nat
  OBVIOUS
<1>2. CASE at = {}
  BY <1>2 DEF LastDelimiter
<1>3. CASE at # {}
  <2>1. \E x \in at : \A y \in at : y <= x
    <3>1. at \in SUBSET (0 .. Len(s) - 1) /\ Len(s) - 1 \in Int
      BY <1>1
    <3> HIDE DEF at
    <3> QED BY <1>3, <3>1, RangeHasGreatest
  <2>2. LastDelimiter(s) = CHOOSE x \in at : \A y \in at : y <= x
    BY <1>3, Zenon DEF LastDelimiter
  <2>3. LastDelimiter(s) \in at
    <3> HIDE DEF at
    <3> QED BY <2>1, <2>2
  <2> QED BY <1>1, <2>3
<1> QED BY <1>2, <1>3

(* No call has been made.                                                  *)
LEMMA InitInv == Init => IInv
BY IntWidth, MaxCodePointIsNat
   DEF Init, IInv, NumbersInv, InputInv, InLoops

(* A call reads nothing but the basic part and its delimiter.              *)
LEMMA CallInv ==
  ASSUME IInv, NEW s \in Seq(Nat), NEW c \in Nat, Call(s, c)
  PROVE  IInv'
<1> DEFINE b == LastDelimiter(s)
<1>1. b \in Nat /\ (b > 0 => b < Len(s)) /\ Len(s) \in Nat
  BY LastDelimiterIsIndex
<1>2. /\ src' = s /\ destCPCount' = b
      /\ n' = InitialN /\ i' = 0 /\ bias' = InitialBias
      /\ in' = IF b > 0 THEN b + 1 ELSE 0
      /\ pc' \in {"next", "done"}
      /\ pc' = "next" => Len(s) <= DecodeMaxChars
      /\ UNCHANGED <<oldi, w, k>>
  <2>1. /\ src' = s /\ destCPCount' = b
        /\ n' = InitialN /\ i' = 0 /\ bias' = InitialBias
        /\ in' = IF b > 0 THEN b + 1 ELSE 0
        /\ UNCHANGED <<oldi, w, k>>
    BY DEF Call
  <2>2. \/ pc' = "done"
        \/ pc' = "next" /\ ~(Len(s) > DecodeMaxChars)
    BY DEF Call, Fail, Return
  <2> QED BY <1>1, <2>1, <2>2 DEF DecodeMaxChars
<1> HIDE DEF b
<1>3. NumbersInv'
  <2>1. InitialN \in 0 .. MaxCodePoint /\ InitialBias \in Nat /\ MaxInt \in Nat
    BY IntWidth, SurrogateLayout, MaxCodePointIsNat DEF InitialN, InitialBias
  <2> QED BY <1>1, <1>2, <2>1 DEF IInv, NumbersInv
<1>4. InputInv'
  BY <1>1, <1>2 DEF InputInv, InLoops
<1> QED BY <1>3, <1>4 DEF IInv

(* A call that fails returns with its numbers as they are.                 *)
LEMMA FailInv ==
  ASSUME IInv, NEW code, NEW length, Return(code, length),
         in' \in Nat, bias' \in Nat, destCPCount' \in Nat, i' \in 0 .. MaxInt,
         UNCHANGED <<src, n, oldi, w, k>>
  PROVE  IInv'
BY DEF IInv, Return, NumbersInv, InputInv, InLoops

(* The next integer starts with the weight 1 at the current i.             *)
LEMMA BeginIntegerInv == ASSUME IInv, BeginInteger PROVE IInv'
<1>1. /\ pc = "next" /\ pc' = "digit" /\ in < Len(src)
      /\ oldi' = i /\ w' = 1 /\ k' = Base
      /\ UNCHANGED <<src, destCPCount, n, i, bias, in>>
  BY DEF BeginInteger
<1>2. Base \in 0 .. MaxInt /\ 1 \in 0 .. MaxInt
  BY IntWidth DEF Base, DecodeMaxChars
<1>3. Base <= Base * (in + 1)
  BY DEF Base, IInv, NumbersInv
<1> QED BY <1>1, <1>2, <1>3 DEF IInv, NumbersInv, InputInv, InLoops

(* A digit: the two divisions bound the product and the sum.               *)
LEMMA ReadDigitInv == ASSUME IInv, ReadDigit PROVE IInv'
<1> DEFINE digit == DecodeDigit(src[in + 1])
           t     == Threshold(k, bias)
<1>1. /\ pc = "digit" /\ in < Len(src) /\ in' = in + 1
      /\ UNCHANGED <<src, destCPCount, n, bias, oldi>>
  BY DEF ReadDigit
<1>2. /\ in \in Nat /\ i \in 0 .. MaxInt /\ MaxInt \in Nat
      /\ w \in 1 .. MaxInt /\ k \in 0 .. MaxInt /\ k <= Base * (in + 1)
      /\ Len(src) \in Nat /\ Len(src) <= DecodeMaxChars /\ bias \in Nat
      /\ destCPCount \in Nat /\ destCPCount <= in /\ oldi \in Nat /\ oldi <= i
  BY <1>1, IntWidth DEF IInv, NumbersInv, InputInv, InLoops
<1>3. digit \in Int
  <2>1. src[in + 1] \in Nat
    BY <1>1, <1>2 DEF IInv, NumbersInv
  <2> QED BY <2>1 DEF DecodeDigit
<1>4. t \in TMin .. TMax
  BY <1>2, ThresholdRange, SMTT(30)
<1> HIDE DEF digit, t
<1>5. CASE NotADigit(digit) \/ DigitWouldOverflow(digit)
  <2>1. /\ \E code : Fail(code)
        /\ UNCHANGED <<i, w, k>>
    BY <1>5 DEF ReadDigit, digit
  <2> QED BY <1>1, <1>2, <2>1, FailInv DEF Fail, IInv, NumbersInv
<1>6. CASE ~NotADigit(digit) /\ ~DigitWouldOverflow(digit)
  <2>1. digit \in Nat
    BY <1>3, <1>6 DEF NotADigit
  <2>2. digit * w <= MaxInt - i
    <3>1. MaxInt - i \in Nat /\ w \in Nat /\ w > 0
      BY <1>2
    <3>2. (MaxInt - i) \div w \in Nat
      BY <3>1, QuotientIsNat
    <3>3. digit <= (MaxInt - i) \div w
      BY <1>6, <2>1, <3>2 DEF DigitWouldOverflow
    <3> QED BY <2>1, <3>1, <3>3, QuotientBoundsProduct
  <2>3. digit * w \in Nat
    BY <1>2, <2>1
  <2>4. i' = i + digit * w
    BY <1>6 DEF ReadDigit, digit
  <2>5. i' \in 0 .. MaxInt /\ i <= i'
    <3> DEFINE share == digit * w
    <3>1. share \in Nat /\ share <= MaxInt - i /\ i' = i + share
      BY <2>2, <2>3, <2>4
    <3> HIDE DEF share
    <3> QED BY <1>2, <3>1
  <2>6. CASE digit < t
    <3>1. pc' = "insert" /\ UNCHANGED <<w, k>>
      BY <1>6, <2>6 DEF ReadDigit, digit, t
    <3> QED BY <1>1, <1>2, <2>5, <3>1 DEF IInv, NumbersInv, InputInv, InLoops
  <2>7. CASE ~(digit < t) /\ WeightWouldOverflow(t)
    <3>1. Fail(U_ILLEGAL_CHAR_FOUND) /\ UNCHANGED <<w, k>>
      BY <1>6, <2>7 DEF ReadDigit, digit, t
    <3> QED BY <1>1, <1>2, <2>5, <3>1, FailInv DEF Fail
  <2>8. CASE ~(digit < t) /\ ~WeightWouldOverflow(t)
    <3>1. pc' = pc /\ w' = w * (Base - t) /\ k' = k + Base
      BY <1>6, <2>8 DEF ReadDigit, digit, t
    <3>2. Base - t \in Nat /\ Base - t >= 1
      BY <1>4 DEF Base, TMin, TMax
    <3>3. w' \in 1 .. MaxInt
      <4>1. MaxInt \div (Base - t) \in Nat
        BY <1>2, <3>2, QuotientIsNat
      <4>2. w <= MaxInt \div (Base - t)
        BY <1>2, <2>8, <4>1 DEF WeightWouldOverflow
      <4>3. w * (Base - t) <= MaxInt
        BY <1>2, <3>2, <4>2, QuotientBoundsProduct
      <4>4. w * (Base - t) >= 1 /\ w * (Base - t) \in Nat
        BY <1>2, <3>2
      <4> QED BY <1>2, <3>1, <4>3, <4>4
    <3>4. k' <= Base * (in' + 1) /\ k' \in 0 .. MaxInt
      <4>1. in + 1 <= DecodeMaxChars
        BY <1>1, <1>2 DEF DecodeMaxChars
      <4> QED BY <1>1, <1>2, <3>1, <4>1, IntWidth DEF Base, DecodeMaxChars
    <3> QED BY <1>1, <1>2, <2>5, <3>1, <3>3, <3>4
            DEF IInv, NumbersInv, InputInv, InLoops
  <2> QED BY <2>6, <2>7, <2>8
<1> QED BY <1>5, <1>6

(* An insertion: the output never grows beyond the input, so the next      *)
(* position is in range without a check.                                   *)
LEMMA InsertInv == ASSUME IInv, Insert PROVE IInv'
<1> DEFINE count == destCPCount + 1
           c     == n + i \div count
<1>1. /\ pc = "insert" /\ destCPCount' = count
      /\ bias' = AdaptBias(i - oldi, count, oldi = 0)
      /\ UNCHANGED <<src, in, oldi, w, k>>
  BY DEF Insert
<1>2. /\ n \in 0 .. MaxCodePoint /\ i \in 0 .. MaxInt /\ oldi \in Nat
      /\ oldi <= i /\ destCPCount \in Nat /\ count \in Nat /\ count > 0
      /\ count <= in /\ in \in Nat /\ in <= Len(src) /\ Len(src) \in Nat
      /\ Len(src) <= DecodeMaxChars
      /\ MaxInt \in Nat /\ MaxCodePoint \in Nat
  BY <1>1, IntWidth, MaxCodePointIsNat DEF IInv, NumbersInv, InputInv, InLoops
<1>3. bias' \in Nat
  <2>1. i - oldi \in Nat /\ (oldi = 0) \in BOOLEAN
    BY <1>2
  <2> HIDE DEF count
  <2> QED BY <1>1, <1>2, <2>1, AdaptBiasIsNat
<1>4. i \div count \in Nat /\ i % count \in 0 .. count - 1
  <2> HIDE DEF count
  <2> QED BY <1>2, QuotientIsNat
<1>5. \/ Fail(U_ILLEGAL_CHAR_FOUND) /\ UNCHANGED <<n, i>>
      \/ /\ ~(c > MaxCodePoint)
         /\ n' = c /\ i' = (i % count) + 1 /\ pc' = "next"
  <2> HIDE DEF IInv
  <2> QED BY DEF Insert
<1> HIDE DEF count
<1>6. CASE Fail(U_ILLEGAL_CHAR_FOUND) /\ UNCHANGED <<n, i>>
  BY <1>1, <1>2, <1>3, <1>6, FailInv DEF Fail
<1>7. CASE /\ ~(c > MaxCodePoint)
           /\ n' = c /\ i' = (i % count) + 1 /\ pc' = "next"
  <2>1. n' \in 0 .. MaxCodePoint
    BY <1>2, <1>4, <1>7
  <2>2. i' \in 0 .. MaxInt
    BY <1>2, <1>4, <1>7, IntWidth DEF DecodeMaxChars, Base
  <2> QED BY <1>1, <1>2, <1>3, <1>7, <2>1, <2>2
          DEF IInv, NumbersInv, InputInv, InLoops
<1> QED BY <1>5, <1>6, <1>7

(* Every step keeps the invariant.                                         *)
LEMMA StepInv == IInv /\ [Next]_vars => IInv'
<1> SUFFICES ASSUME IInv, [Next]_vars PROVE IInv'
  OBVIOUS
<1>1. CASE \E s \in Seq(Nat), c \in 0 .. MaxInt : Call(s, c)
  BY <1>1, IntWidth, CallInv
<1>2. CASE BeginInteger
  BY <1>2, BeginIntegerInv
<1>3. CASE RejectTruncated
  <2>1. /\ Return(U_ILLEGAL_CHAR_FOUND, 0)
        /\ UNCHANGED <<src, destCPCount, n, i, bias, in, oldi, w, k>>
    BY <1>3 DEF RejectTruncated, Fail
  <2> QED BY <2>1, FailInv DEF IInv, NumbersInv
<1>4. CASE ReadDigit
  BY <1>4, ReadDigitInv
<1>5. CASE Insert
  BY <1>5, InsertInv
<1>6. CASE Finish
  <2>1. /\ Return(TerminateStatus(capacity, destLength, status), destLength)
        /\ UNCHANGED <<src, destCPCount, n, i, bias, in, oldi, w, k>>
    BY <1>6 DEF Finish
  <2> QED BY <2>1, FailInv DEF IInv, NumbersInv
<1>7. CASE UNCHANGED vars
  BY <1>7 DEF vars, IInv, NumbersInv, InputInv, InLoops
<1> QED BY <1>1, <1>2, <1>3, <1>4, <1>5, <1>6, <1>7 DEF Next, Step

(* The invariant bounds every number by MaxInt, and n by MaxCodePoint.     *)
LEMMA InvIsInRange == IInv => DecodeInRange
BY IntWidth, MaxCodePointIsNat DEF IInv, NumbersInv, DecodeInRange

(* No int32_t of u_strFromPunycode() overflows, whatever it is given to    *)
(* decode, and n never leaves the code points.                             *)
THEOREM DecoderInRange == Spec => []DecodeInRange
<1>1. Init => IInv
  BY InitInv
<1>2. IInv /\ [Next]_vars => IInv'
  BY StepInv
<1> QED BY <1>1, <1>2, InvIsInRange, PTL DEF Spec

-----------------------------------------------------------------------------
(* The output.  While everything fits, destCPCount and destLength are its  *)
(* code points and its units, and firstSupplementaryIndex is its first     *)
(* pair; that is what makes the code unit index of an insertion right, and *)
(* the insertion keeps it so.                                              *)

(* A buffer with room for it holds what is written to it first.            *)
LEMMA StoreFits ==
  ASSUME NEW t \in Seq(Nat), NEW c \in Nat, Len(t) <= c
  PROVE  Store(<< >>, c, t) = t
<1>1. << >> \o t = t /\ Len(<< >>) = 0 /\ Len(t) \in Nat
  OBVIOUS
<1>2. SubSeq(t, 1, Len(t)) = t
  OBVIOUS
<1>3. (IF Len(t) < c THEN Len(t) ELSE c) = Len(t)
  BY <1>1
<1>4. Store(<< >>, c, t) = SubSeq(t, 1, IF Len(t) < c THEN Len(t) ELSE c)
  BY <1>1 DEF Store
<1> QED BY <1>2, <1>3, <1>4

(* The code unit index of an insertion is a boundary that has as many code *)
(* points before it as the code point index says.                          *)
LEMMA CodeUnitIndexIsRight ==
  ASSUME dest \in Seq(Nat), firstSupplementaryIndex \in Nat,
         FirstPair(dest, firstSupplementaryIndex),
         NEW position \in 0 .. CountCodePoints(dest, 0, Len(dest))
  PROVE  /\ CodeUnitIndex(position) \in 0 .. Len(dest)
         /\ IsBoundary(dest, CodeUnitIndex(position))
         /\ CountCodePoints(dest, 0, CodeUnitIndex(position)) = position
         /\ position <= firstSupplementaryIndex => CodeUnitIndex(position) = position
         /\ position > firstSupplementaryIndex =>
              /\ firstSupplementaryIndex < CodeUnitIndex(position)
              /\ StartsPair(dest, firstSupplementaryIndex)
<1> DEFINE f == firstSupplementaryIndex
           L == Len(dest)
           u == CodeUnitIndex(position)
<1>1. L \in Nat /\ f \in Nat /\ CountCodePoints(dest, 0, L) \in 0 .. L
  <2>1. L \in Nat
    OBVIOUS
  <2> QED BY <2>1, CountType
<1>2. position \in 0 .. L
  BY <1>1
<1>3. \A y \in 0 .. L : y <= f => CountCodePoints(dest, 0, y) = y /\ IsBoundary(dest, y)
  <2> SUFFICES ASSUME NEW y \in 0 .. L, y <= f
               PROVE  CountCodePoints(dest, 0, y) = y /\ IsBoundary(dest, y)
    OBVIOUS
  <2>1. y \in Nat /\ \A x \in 0 .. y - 1 : ~StartsPair(dest, x)
    BY <1>1 DEF FirstPair
  <2> QED BY <2>1, NoPairsCount
<1>4. CASE position <= f
  BY <1>1, <1>2, <1>3, <1>4 DEF CodeUnitIndex
<1>5. CASE ~(position <= f)
  <2>1. f \in 0 .. L /\ StartsPair(dest, f) /\ position - f \in Nat
    BY <1>1, <1>2, <1>5 DEF FirstPair
  <2> DEFINE all == CountCodePoints(dest, f, L)
  <2>2. /\ u \in f .. L /\ IsBoundary(dest, u)
        /\ IF all <= position - f THEN u = L
           ELSE CountCodePoints(dest, f, u) = position - f
    <3>1. u = U16_FWD_N(dest, f, position - f)
      BY <1>5 DEF CodeUnitIndex
    <3> QED BY <2>1, <3>1, ForwardStopsAtBoundary
  <2> HIDE DEF u, f, L
  <2>3. /\ CountCodePoints(dest, 0, u) = f + CountCodePoints(dest, f, u)
        /\ CountCodePoints(dest, 0, L) = f + all
        /\ CountCodePoints(dest, f, u) \in 0 .. u - f
        /\ all \in 0 .. L - f
    <3>1. CountCodePoints(dest, 0, f) = f
      BY <1>1, <1>3, <2>1
    <3>2. 0 \in Nat /\ 0 <= f /\ u \in Nat /\ f <= u /\ f <= L
      BY <1>1, <2>1, <2>2
    <3>3. CountCodePoints(dest, 0, u) =
            CountCodePoints(dest, 0, f) + CountCodePoints(dest, f, u)
      BY <1>1, <3>2, CountSplit
    <3>4. CountCodePoints(dest, 0, L) =
            CountCodePoints(dest, 0, f) + CountCodePoints(dest, f, L)
      BY <1>1, <3>2, CountSplit
    <3>5. CountCodePoints(dest, f, u) \in 0 .. u - f /\ all \in 0 .. L - f
      BY <1>1, <3>2, CountType
    <3> QED BY <3>1, <3>3, <3>4, <3>5
  <2>4. CountCodePoints(dest, f, u) = position - f
    <3>1. position <= f + all
      BY <1>1, <2>3 DEF L
    <3>2. CASE all <= position - f
      BY <1>1, <1>2, <2>2, <2>3, <3>1, <3>2
    <3> QED BY <2>2, <3>2
  <2>5. CountCodePoints(dest, 0, u) = position
    BY <1>1, <1>2, <2>3, <2>4
  <2>6. f < u
    BY <1>1, <1>2, <1>5, <2>2, <2>3, <2>4
  <2>7. u \in 0 .. L
    BY <1>1, <2>2
  <2> QED BY <1>5, <2>1, <2>2, <2>5, <2>6, <2>7 DEF u, f, L
<1> QED BY <1>4, <1>5

(* An insertion that fits puts n at a boundary with position code points   *)
(* before it.                                                              *)
LEMMA InsertFits ==
  ASSUME IInv, OutputInv, Insert, pc' = "next", destLength' <= capacity,
         NEW position, position = i % (destCPCount + 1),
         NEW u, u = CodeUnitIndex(position),
         NEW length, length = U16_LENGTH(n')
  PROVE  /\ OutputIsWhole
         /\ position \in 0 .. destCPCount
         /\ CountCodePoints(dest, 0, u) = position
         /\ position <= firstSupplementaryIndex => u = position
         /\ position > firstSupplementaryIndex =>
              /\ firstSupplementaryIndex < u
              /\ StartsPair(dest, firstSupplementaryIndex)
         /\ IsInsertion(dest', dest, u, n', length)
         /\ destLength' = destLength + length
         /\ firstSupplementaryIndex' = NextFirstSupplementary(position, length)
<1> DEFINE count == destCPCount + 1
           c     == n + i \div count
<1>1. /\ destCPCount \in Nat /\ i \in Nat /\ pc = "insert"
      /\ dest \in Seq(Nat) /\ destLength \in Nat /\ capacity \in Nat
      /\ firstSupplementaryIndex \in Nat
  BY DEF IInv, NumbersInv, OutputInv, Insert
<1>2. position \in 0 .. destCPCount
  <2>1. count \in Nat /\ count > 0 /\ position = i % count
    BY <1>1
  <2> HIDE DEF count
  <2>2. position \in 0 .. count - 1
    BY <1>1, <2>1, QuotientIsNat
  <2> QED BY <1>1, <2>2 DEF count
<1>3. /\ ~(c > MaxCodePoint) /\ ~IsSurrogate(c)
      /\ n' = c /\ destLength' = destLength + U16_LENGTH(c)
      /\ dest' = IF destLength + U16_LENGTH(c) <= capacity
                 THEN SubSeq(dest, 1, CodeUnitIndex(position)) \o CodeUnits(c)
                        \o SubSeq(dest, CodeUnitIndex(position) + 1, Len(dest))
                 ELSE dest
      /\ firstSupplementaryIndex' =
           IF destLength + U16_LENGTH(c) <= capacity
           THEN NextFirstSupplementary(position, U16_LENGTH(c))
           ELSE firstSupplementaryIndex
  <2> HIDE DEF IInv, OutputInv
  <2>1. pc' # "done"
    OBVIOUS
  <2> QED BY <2>1, Zenon DEF Insert, Fail, Return
<1>4. n' \in 0 .. MaxCodePoint
  BY InsertInv DEF IInv, NumbersInv
<1> HIDE DEF c
<1>5. /\ ~IsSurrogate(n') /\ destLength' = destLength + length
      /\ dest' = Spliced(dest, u, CodeUnits(n'))
      /\ firstSupplementaryIndex' = NextFirstSupplementary(position, length)
  BY <1>3 DEF Spliced
<1>6. length \in 1 .. 2
  BY <1>4, CodeUnitsType
<1>7. OutputIsWhole
  BY <1>1, <1>5, <1>6 DEF OutputInv, InLoops
<1>8. /\ u \in 0 .. Len(dest) /\ IsBoundary(dest, u)
      /\ CountCodePoints(dest, 0, u) = position
      /\ position <= firstSupplementaryIndex => u = position
      /\ position > firstSupplementaryIndex =>
           /\ firstSupplementaryIndex < u
           /\ StartsPair(dest, firstSupplementaryIndex)
  <2>1. position \in 0 .. CountCodePoints(dest, 0, Len(dest))
    BY <1>2, <1>7 DEF OutputIsWhole
  <2>2. FirstPair(dest, firstSupplementaryIndex)
    BY <1>7 DEF OutputIsWhole
  <2> HIDE DEF IInv, OutputInv
  <2> QED BY <1>1, <2>1, <2>2, CodeUnitIndexIsRight
<1>9. IsInsertion(dest', dest, u, n', length)
  BY <1>1, <1>4, <1>5, <1>8, SplicedPairs
<1> QED BY <1>2, <1>5, <1>7, <1>8, <1>9

(* The first pair after an insertion.                                      *)
LEMMA FirstPairAfterInsertion ==
  ASSUME firstSupplementaryIndex \in Nat,
         FirstPair(dest, firstSupplementaryIndex),
         NEW position \in Nat, NEW u, NEW c, NEW e, NEW length,
         IsInsertion(e, dest, u, c, length),
         position <= firstSupplementaryIndex => u = position,
         position > firstSupplementaryIndex =>
           /\ firstSupplementaryIndex < u
           /\ StartsPair(dest, firstSupplementaryIndex)
  PROVE  /\ NextFirstSupplementary(position, length) \in Nat
         /\ FirstPair(e, NextFirstSupplementary(position, length))
<1> DEFINE f == firstSupplementaryIndex
           L == Len(dest)
           g == NextFirstSupplementary(position, length)
<1>1. /\ L \in Nat /\ f \in Nat /\ u \in 0 .. L /\ length \in 1 .. 2
      /\ Len(e) = L + length
      /\ \A x \in 0 .. u - 1 : StartsPair(e, x) <=> StartsPair(dest, x)
      /\ StartsPair(e, u) <=> length = 2
      /\ length = 2 => ~StartsPair(e, u + 1)
      /\ \A x \in u .. L : StartsPair(e, x + length) <=> StartsPair(dest, x)
  BY DEF IsInsertion
<1>2. /\ \A x \in 0 .. L - 1 : StartsPair(dest, x) => f <= x
      /\ f > L \/ (f \in 0 .. L - 1 /\ StartsPair(dest, f))
  BY DEF FirstPair
<1>3. /\ position <= f => u = position
      /\ position > f => f < u /\ StartsPair(dest, f)
  OBVIOUS
<1> HIDE DEF f, L
<1>4. ASSUME NEW x \in 0 .. Len(e) - 1, StartsPair(e, x)
      PROVE  \/ x < u /\ f <= x
             \/ x = u /\ length = 2
             \/ x >= u + length /\ f + length <= x
  <2>1. CASE x < u
    <3>1. x \in 0 .. u - 1 /\ x \in 0 .. L - 1
      BY <1>1, <2>1
    <3> QED BY <1>1, <1>2, <1>4, <2>1, <3>1
  <2>2. CASE x = u
    BY <1>1, <1>4, <2>2
  <2>3. CASE x > u
    <3>1. x >= u + length
      <4>1. length = 2 => x # u + 1
        BY <1>1, <1>4
      <4> QED BY <1>1, <2>3, <4>1
    <3>2. /\ x - length \in u .. L /\ x - length \in 0 .. L - 1
          /\ (x - length) + length = x
      BY <1>1, <3>1
    <3>3. StartsPair(dest, x - length)
      BY <1>1, <1>4, <3>2
    <3>4. f <= x - length
      BY <1>2, <3>2, <3>3
    <3> QED BY <1>1, <3>1, <3>4
  <2> QED BY <1>1, <2>1, <2>2, <2>3
<1>5. CASE position > f
  <2>1. g = f /\ f \in 0 .. u - 1
    BY <1>1, <1>3, <1>5 DEF NextFirstSupplementary, f
  <2>2. StartsPair(e, f)
    BY <1>1, <1>3, <1>5, <2>1
  <2>3. f \in 0 .. Len(e) - 1
    BY <1>1, <2>1
  <2>4. \A x \in 0 .. Len(e) - 1 : StartsPair(e, x) => f <= x
    BY <1>1, <1>4, <2>1
  <2> QED BY <1>1, <2>1, <2>2, <2>3, <2>4 DEF FirstPair
<1>6. CASE position <= f /\ length = 2
  <2>1. g = position /\ u = position
    BY <1>3, <1>6 DEF NextFirstSupplementary, f
  <2>2. StartsPair(e, u) /\ u \in 0 .. Len(e) - 1
    BY <1>1, <1>6
  <2>3. \A x \in 0 .. Len(e) - 1 : StartsPair(e, x) => u <= x
    BY <1>1, <1>4, <1>6, <2>1
  <2> QED BY <2>1, <2>2, <2>3 DEF FirstPair
<1>7. CASE position <= f /\ length = 1
  <2>1. g = f + 1 /\ u = position
    BY <1>3, <1>7 DEF NextFirstSupplementary, f
  <2>2. \A x \in 0 .. Len(e) - 1 : StartsPair(e, x) => f + 1 <= x
    BY <1>1, <1>4, <1>7, <2>1
  <2>3. \/ f + 1 > Len(e)
        \/ f + 1 \in 0 .. Len(e) - 1 /\ StartsPair(e, f + 1)
    <3>1. CASE f > L
      BY <1>1, <1>7, <3>1
    <3>2. CASE f \in 0 .. L - 1 /\ StartsPair(dest, f)
      <4>1. f \in u .. L
        BY <1>1, <1>7, <2>1, <3>2
      <4>2. StartsPair(e, f + 1)
        BY <1>1, <1>7, <3>2, <4>1
      <4> QED BY <1>1, <1>7, <3>2, <4>2
    <3> QED BY <1>2, <3>1, <3>2
  <2> QED BY <1>1, <2>1, <2>2, <2>3 DEF FirstPair
<1>8. position > f \/ position <= f
  BY <1>1
<1> QED BY <1>1, <1>5, <1>6, <1>7, <1>8

(* An insertion leaves the output well-formed.                             *)
LEMMA InsertOutput == ASSUME IInv, OutputInv, Insert PROVE OutputInv'
<1>1. /\ dest \in Seq(Nat) /\ capacity \in Nat /\ destLength \in Nat
      /\ firstSupplementaryIndex \in Nat /\ status \in Int
      /\ capacity' = capacity
  BY DEF OutputInv, Insert
<1>2. \/ /\ Fail(U_ILLEGAL_CHAR_FOUND)
         /\ UNCHANGED <<dest, firstSupplementaryIndex>>
      \/ /\ pc' = "next" /\ status' = status
         /\ destLength' = destLength + U16_LENGTH(n')
         /\ ~(destLength' <= capacity) => UNCHANGED <<dest, firstSupplementaryIndex>>
  <2> HIDE DEF IInv, OutputInv
  <2> QED BY DEF Insert
<1>3. CASE /\ Fail(U_ILLEGAL_CHAR_FOUND)
           /\ UNCHANGED <<dest, firstSupplementaryIndex>>
  BY <1>1, <1>3 DEF OutputInv, Fail, Return, InLoops, U_ILLEGAL_CHAR_FOUND
<1>4. CASE /\ pc' = "next" /\ status' = status
           /\ destLength' = destLength + U16_LENGTH(n')
           /\ ~(destLength' <= capacity) => UNCHANGED <<dest, firstSupplementaryIndex>>
  <2>1. U16_LENGTH(n') \in 1 .. 2
    <3>1. n' \in 0 .. MaxCodePoint
      BY InsertInv DEF IInv, NumbersInv
    <3> QED BY <3>1, CodeUnitsType
  <2>2. destLength' \in Nat
    BY <1>1, <1>4, <2>1
  <2>3. CASE ~(destLength' <= capacity)
    BY <1>1, <1>4, <2>2, <2>3 DEF OutputInv
  <2>4. CASE destLength' <= capacity
    <3> DEFINE position == i % (destCPCount + 1)
               u        == CodeUnitIndex(position)
               length   == U16_LENGTH(n')
    <3>1. /\ OutputIsWhole
          /\ position \in 0 .. destCPCount /\ destCPCount \in Nat
          /\ CountCodePoints(dest, 0, u) = position
          /\ position <= firstSupplementaryIndex => u = position
          /\ position > firstSupplementaryIndex =>
               /\ firstSupplementaryIndex < u
               /\ StartsPair(dest, firstSupplementaryIndex)
          /\ IsInsertion(dest', dest, u, n', length)
          /\ destLength' = destLength + length
          /\ firstSupplementaryIndex' = NextFirstSupplementary(position, length)
      <4>1. destCPCount \in Nat
        BY DEF IInv, NumbersInv
      <4> QED BY <1>4, <2>4, <4>1, InsertFits
    <3> HIDE DEF position, u, length
    <3>2. FirstPair(dest, firstSupplementaryIndex) /\ position \in Nat
      BY <3>1 DEF OutputIsWhole
    <3>3. /\ firstSupplementaryIndex' \in Nat
          /\ FirstPair(dest', firstSupplementaryIndex')
      BY <1>1, <3>1, <3>2, FirstPairAfterInsertion
    <3>4. /\ dest' \in Seq(Nat) /\ Len(dest') = Len(dest) + length
          /\ length \in 1 .. 2 /\ Len(dest) \in Nat
      BY <3>1 DEF IsInsertion
    <3>5. CountCodePoints(dest', 0, Len(dest')) =
            CountCodePoints(dest, 0, Len(dest)) + 1
      <4>1. Len(dest) \in u .. Len(dest)
        BY <3>1, <3>4 DEF IsInsertion
      <4>2. \A y \in u .. Len(dest) :
              CountCodePoints(dest', 0, y + length) = CountCodePoints(dest, 0, y) + 1
        BY <3>1, SplicedCounts
      <4> QED BY <3>4, <4>1, <4>2
    <3>6. OutputIsWhole'
      <4>1. destCPCount' = destCPCount + 1
        BY DEF Insert
      <4> QED BY <3>1, <3>3, <3>4, <3>5, <4>1 DEF OutputIsWhole
    <3> QED BY <1>1, <1>4, <2>2, <3>3, <3>4, <3>6 DEF OutputInv
  <2> QED BY <2>3, <2>4
<1> QED BY <1>2, <1>3, <1>4

(* A call copies basic characters, which are no surrogates.                *)
LEMMA CallOutput ==
  ASSUME OutputInv, NEW s \in Seq(Nat), NEW c \in Nat, Call(s, c)
  PROVE  OutputInv'
<1> DEFINE b     == LastDelimiter(s)
           basic == SubSeq(s, 1, b)
<1>1. b \in 0 .. Len(s) /\ Len(s) \in Nat /\ c \in Nat
  <2>1. Len(s) \in Nat /\ MaxInt \in Nat
    BY IntWidth
  <2> QED BY <2>1, LastDelimiterIsIndex
<1> HIDE DEF b
<1>2. basic \in Seq(Nat) /\ Len(basic) = b
  BY <1>1
<1> HIDE DEF basic
<1>3. /\ capacity' = c /\ dest' = Store(<< >>, c, basic) /\ destCPCount' = b
      /\ firstSupplementaryIndex' = NoSupplementary
      /\ \/ /\ pc' = "done" /\ destLength' = 0
            /\ status' \in {U_INPUT_TOO_LONG_ERROR, U_INVALID_CHAR_FOUND}
         \/ /\ ~(Len(s) > DecodeMaxChars) /\ \A x \in DOMAIN basic : IsBasic(basic[x])
            /\ destLength' = b /\ status' = U_ZERO_ERROR
  <2> HIDE DEF OutputInv
  <2> QED BY DEF Call, Fail, Return, b, basic
<1>4. dest' \in Seq(Nat)
  <2>1. << >> \in Seq(Nat) /\ Len(<< >>) <= c
    BY <1>1
  <2> QED BY <1>1, <1>2, <1>3, <2>1, StoreType
<1>5. /\ capacity' \in Nat /\ destLength' \in Nat
      /\ firstSupplementaryIndex' \in Nat /\ status' \in Int
  BY <1>1, <1>3 DEF NoSupplementary, U_INPUT_TOO_LONG_ERROR,
                    U_INVALID_CHAR_FOUND, U_ZERO_ERROR
<1>6. ASSUME pc' # "done", destLength' <= capacity' PROVE OutputIsWhole'
  <2>1. /\ b <= c /\ b <= DecodeMaxChars /\ destLength' = b
        /\ \A x \in 1 .. b : IsBasic(basic[x])
    <3>1. /\ ~(Len(s) > DecodeMaxChars) /\ destLength' = b /\ capacity' = c
          /\ \A x \in DOMAIN basic : IsBasic(basic[x])
      BY <1>3, <1>6
    <3>2. DOMAIN basic = 1 .. b
      BY <1>2
    <3>3. b <= c /\ destLength' = b /\ \A x \in 1 .. b : IsBasic(basic[x])
      BY <1>6, <3>1, <3>2
    <3>4. b <= DecodeMaxChars
      BY <1>1, <3>1 DEF DecodeMaxChars
    <3> QED BY <3>3, <3>4
  <2>2. dest' = basic
    BY <1>1, <1>2, <1>3, <2>1, StoreFits
  <2>3. \A x \in 0 .. b - 1 : ~StartsPair(basic, x)
    <3> SUFFICES ASSUME NEW x \in 0 .. b - 1, IsLead(basic[x + 1]) PROVE FALSE
      BY DEF StartsPair
    <3>1. x + 1 \in 1 .. b /\ basic[x + 1] \in Nat
      BY <1>1, <1>2
    <3> QED BY <2>1, <3>1, SurrogateLayout DEF IsBasic, InitialN, IsLead
  <2>4. CountCodePoints(basic, 0, b) = b
    BY <1>1, <2>3, NoPairsCount
  <2>5. FirstPair(basic, NoSupplementary)
    BY <1>1, <1>2, <2>1, <2>3 DEF FirstPair, NoSupplementary, DecodeMaxChars
  <2> QED BY <1>2, <1>3, <2>1, <2>2, <2>4, <2>5 DEF OutputIsWhole
<1> QED BY <1>4, <1>5, <1>6 DEF OutputInv, InLoops

(* A call that returns leaves the output as it is.                         *)
LEMMA ReturnOutput ==
  ASSUME OutputInv, NEW code \in Int, NEW length \in Nat, Return(code, length),
         UNCHANGED <<dest, capacity, firstSupplementaryIndex>>
  PROVE  OutputInv'
BY DEF OutputInv, Return, InLoops

(* So does a step that reads.                                              *)
LEMMA ReadOutput ==
  ASSUME OutputInv,
         InLoops' => InLoops,
         UNCHANGED <<dest, capacity, firstSupplementaryIndex, destLength,
                     destCPCount, status>>
  PROVE  OutputInv'
BY DEF OutputInv, OutputIsWhole, FirstPair

(* So does every step.                                                     *)
LEMMA StepOutput == IInv /\ OutputInv /\ [Next]_vars => OutputInv'
<1> SUFFICES ASSUME IInv, OutputInv, [Next]_vars PROVE OutputInv'
  OBVIOUS
<1>1. CASE \E s \in Seq(Nat), c \in 0 .. MaxInt : Call(s, c)
  BY <1>1, IntWidth, CallOutput
<1>2. CASE BeginInteger
  BY <1>2, ReadOutput DEF BeginInteger, InLoops
<1>3. CASE RejectTruncated
  <2>1. /\ Return(U_ILLEGAL_CHAR_FOUND, 0) /\ U_ILLEGAL_CHAR_FOUND \in Int
        /\ UNCHANGED <<dest, capacity, firstSupplementaryIndex>>
    BY <1>3 DEF RejectTruncated, Fail, U_ILLEGAL_CHAR_FOUND
  <2> QED BY <2>1, ReturnOutput
<1>4. CASE ReadDigit
  <2>1. /\ pc = "digit"
        /\ UNCHANGED <<dest, capacity, firstSupplementaryIndex, destCPCount>>
    BY <1>4 DEF ReadDigit
  <2>2. \/ Fail(U_INVALID_CHAR_FOUND) \/ Fail(U_ILLEGAL_CHAR_FOUND)
        \/ UNCHANGED <<destLength, status>>
    BY <1>4 DEF ReadDigit
  <2>3. CASE Fail(U_INVALID_CHAR_FOUND) \/ Fail(U_ILLEGAL_CHAR_FOUND)
    <3>1. U_ILLEGAL_CHAR_FOUND \in Int /\ U_INVALID_CHAR_FOUND \in Int
      BY DEF U_ILLEGAL_CHAR_FOUND, U_INVALID_CHAR_FOUND
    <3> QED BY <2>1, <2>3, <3>1, ReturnOutput DEF Fail
  <2>4. CASE UNCHANGED <<destLength, status>>
    BY <2>1, <2>4, ReadOutput DEF InLoops
  <2> QED BY <2>2, <2>3, <2>4
<1>5. CASE Insert
  BY <1>5, InsertOutput
<1>6. CASE Finish
  <2>1. /\ Return(TerminateStatus(capacity, destLength, status), destLength)
        /\ UNCHANGED <<dest, capacity, firstSupplementaryIndex>>
    BY <1>6 DEF Finish
  <2>2. destLength \in Nat /\ status \in Int
    BY DEF OutputInv
  <2>3. TerminateStatus(capacity, destLength, status) \in Int
    BY <2>2 DEF TerminateStatus, U_ZERO_ERROR, U_STRING_NOT_TERMINATED_WARNING,
                U_BUFFER_OVERFLOW_ERROR
  <2> QED BY <2>1, <2>2, <2>3, ReturnOutput
<1>7. CASE UNCHANGED vars
  BY <1>7, ReadOutput DEF vars, InLoops
<1> QED BY <1>1, <1>2, <1>3, <1>4, <1>5, <1>6, <1>7 DEF Next, Step

(* No call has been made.                                                  *)
LEMMA InitOutput == Init => OutputInv
BY DEF Init, OutputInv, InLoops, U_ZERO_ERROR

(* Both invariants hold throughout.                                        *)
LEMMA OutputIsInvariant == Spec => [](IInv /\ OutputInv)
<1>1. Init => IInv /\ OutputInv
  BY InitInv, InitOutput
<1>2. IInv /\ OutputInv /\ [Next]_vars => (IInv /\ OutputInv)'
  BY StepInv, StepOutput
<1> QED BY <1>1, <1>2, PTL DEF Spec

(* Together they hold the type of every variable.                          *)
LEMMA InvIsTyped == IInv /\ OutputInv => DecoderTypeOK
BY IntWidth, MaxCodePointIsNat DEF IInv, NumbersInv, OutputInv, DecoderTypeOK

(* Whatever is decoded, into whatever buffer, every variable of the        *)
(* decoder keeps its type: no counter becomes negative.                    *)
THEOREM DecoderIsTyped == Spec => []DecoderTypeOK
BY InvIsTyped, OutputIsInvariant, PTL

(* The index of the first pair is what the invariant says it is.           *)
LEMMA InvKnowsFirst == OutputInv => FirstSupplementaryIsFirst
<1> SUFFICES ASSUME OutputInv, InLoops, destLength <= capacity
             PROVE  LET pairs == {x \in 0 .. Len(dest) - 1 : StartsPair(dest, x)}
                    IN  IF pairs = {} THEN firstSupplementaryIndex > Len(dest)
                        ELSE /\ firstSupplementaryIndex \in pairs
                             /\ \A x \in pairs : firstSupplementaryIndex <= x
  BY DEF FirstSupplementaryIsFirst, InLoops
<1>1. /\ FirstPair(dest, firstSupplementaryIndex) /\ Len(dest) \in Nat
      /\ firstSupplementaryIndex \in Nat
  BY DEF OutputInv, OutputIsWhole
<1> QED BY <1>1 DEF FirstPair

(* The shortcut for strings without supplementary characters is right in   *)
(* every state of every call: firstSupplementaryIndex is the first pair of *)
(* the output as long as the output fits.                                  *)
THEOREM FirstSupplementaryIsAlwaysFirst == Spec => []FirstSupplementaryIsFirst
BY InvKnowsFirst, OutputIsInvariant, PTL

(* An insertion that fits puts one code point at its code point index.     *)
LEMMA StepInserts ==
  ASSUME IInv, OutputInv, Step \/ UNCHANGED vars
  PROVE  InsertsCodePoint
<1> SUFFICES ASSUME pc = "insert", pc' = "next", destLength' <= capacity
             PROVE  LET before   == CodePoints(dest)
                        position == i % (destCPCount + 1)
                    IN  CodePoints(dest') =
                          SubSeq(before, 1, position) \o <<n'>>
                            \o SubSeq(before, position + 1, Len(before))
  BY DEF InsertsCodePoint
<1>1. Insert
  BY DEF Step, BeginInteger, RejectTruncated, ReadDigit, Finish, vars
<1> DEFINE position == i % (destCPCount + 1)
           u        == CodeUnitIndex(position)
           length   == U16_LENGTH(n')
<1>2. /\ IsInsertion(dest', dest, u, n', length)
      /\ CountCodePoints(dest, 0, u) = position
  BY <1>1, InsertFits
<1> HIDE DEF position, u, length
<1> QED BY <1>2, SplicedCodePoints DEF position

(* Every insertion of every call that fits puts one code point at its code *)
(* point index and moves the others: no pair of the output is ever split,  *)
(* whatever the order in which the code points arrive.                     *)
THEOREM DecoderInsertsCodePoints == Spec => InsertionsAreExact
<1>1. IInv /\ OutputInv /\ [Next]_vars => InsertsCodePoint \/ UNCHANGED vars
  <2>1. ASSUME NEW s, NEW c, Call(s, c) PROVE InsertsCodePoint
    BY <2>1 DEF Call, InsertsCodePoint
  <2> QED BY <2>1, StepInserts DEF Next
<1> QED BY <1>1, OutputIsInvariant, PTL DEF Spec, InsertionsAreExact

-----------------------------------------------------------------------------
(* What the encoder is given when the caller hands a result on.            *)

CodeUnit == 0 .. FirstSupplementary - 1

(* Before a call fails, its output is UTF-16.                              *)
UnitsInv ==
  InLoops \/ (pc = "done" /\ U_SUCCESS(status)) => dest \in Seq(CodeUnit)

(* A code point is one unit, or a lead and a trail surrogate.              *)
LEMMA CodeUnitsAreUnits ==
  ASSUME NEW c \in 0 .. MaxCodePoint
  PROVE  CodeUnits(c) \in Seq(CodeUnit)
<1>1. c \in Nat
  BY MaxCodePointIsNat
<1>2. CASE c < FirstSupplementary
  BY <1>1, <1>2, SurrogateLayout DEF CodeUnits, U16_LENGTH, CodeUnit
<1>3. CASE ~(c < FirstSupplementary)
  <2>1. /\ U16_LEAD(c) \in Nat /\ IsLead(U16_LEAD(c))
        /\ U16_TRAIL(c) \in Nat /\ IsTrail(U16_TRAIL(c))
    <3>1. c \in FirstSupplementary .. MaxCodePoint
      BY <1>1, <1>3, MaxCodePointIsNat, SurrogateLayout
    <3> QED BY <3>1, SurrogatesOfCodePoint
  <2>2. U16_LEAD(c) \in CodeUnit /\ U16_TRAIL(c) \in CodeUnit
    BY <2>1, SurrogateLayout DEF IsLead, IsTrail, CodeUnit
  <2> QED BY <1>3, <2>2 DEF CodeUnits, U16_LENGTH
<1> QED BY <1>2, <1>3

(* A call that gets past its checks copies basic characters.               *)
LEMMA CallUnits ==
  ASSUME NEW s \in Seq(Nat), NEW c \in Nat, Call(s, c)
  PROVE  UnitsInv'
<1> DEFINE b     == LastDelimiter(s)
           basic == SubSeq(s, 1, b)
<1>1. b \in 0 .. Len(s) /\ Len(s) \in Nat
  <2>1. Len(s) \in Nat
    OBVIOUS
  <2> QED BY <2>1, LastDelimiterIsIndex
<1> HIDE DEF b
<1>2. basic \in Seq(Nat) /\ Len(basic) = b
  BY <1>1
<1> HIDE DEF basic
<1>3. /\ dest' = Store(<< >>, c, basic)
      /\ \/ /\ pc' = "done"
            /\ status' \in {U_INPUT_TOO_LONG_ERROR, U_INVALID_CHAR_FOUND}
         \/ \A x \in DOMAIN basic : IsBasic(basic[x])
  BY DEF Call, Fail, Return, b, basic
<1>4. CASE /\ pc' = "done"
           /\ status' \in {U_INPUT_TOO_LONG_ERROR, U_INVALID_CHAR_FOUND}
  BY <1>4 DEF UnitsInv, InLoops, U_SUCCESS, U_ZERO_ERROR, U_INPUT_TOO_LONG_ERROR,
              U_INVALID_CHAR_FOUND
<1>5. CASE \A x \in DOMAIN basic : IsBasic(basic[x])
  <2>1. \A x \in 1 .. b : basic[x] \in CodeUnit
    <3> SUFFICES ASSUME NEW x \in 1 .. b PROVE basic[x] \in CodeUnit
      OBVIOUS
    <3>1. basic[x] \in Nat /\ IsBasic(basic[x])
      BY <1>2, <1>5
    <3> QED BY <3>1, SurrogateLayout DEF IsBasic, InitialN, CodeUnit
  <2>2. basic \in Seq(CodeUnit)
    BY <1>2, <2>1
  <2>3. << >> \in Seq(CodeUnit) /\ Len(<< >>) <= c
    OBVIOUS
  <2>4. dest' \in Seq(CodeUnit)
    BY <1>3, <2>2, <2>3, StoreType
  <2> QED BY <2>4 DEF UnitsInv
<1> QED BY <1>3, <1>4, <1>5

(* Every step of a call inserts the units of a code point, or none.        *)
LEMMA StepUnits ==
  ASSUME IInv, OutputInv, UnitsInv, Step
  PROVE  UnitsInv'
<1>1. InLoops /\ dest \in Seq(CodeUnit)
  BY DEF UnitsInv, InLoops, Step, BeginInteger, RejectTruncated, ReadDigit,
         Insert, Finish
<1>2. CASE BeginInteger \/ RejectTruncated \/ ReadDigit \/ Finish
  <2>1. dest' = dest
    BY <1>2 DEF BeginInteger, RejectTruncated, ReadDigit, Finish
  <2> QED BY <1>1, <2>1 DEF UnitsInv
<1>3. CASE Insert
  <2> DEFINE u == CodeUnitIndex(i % (destCPCount + 1))
  <2>1. \/ dest' = dest
        \/ /\ dest' = SubSeq(dest, 1, u) \o CodeUnits(n')
                        \o SubSeq(dest, u + 1, Len(dest))
           /\ pc' = "next" /\ destLength' <= capacity
    BY <1>3 DEF Insert
  <2>2. CASE dest' = dest
    BY <1>1, <2>2 DEF UnitsInv
  <2>3. CASE /\ dest' = SubSeq(dest, 1, u) \o CodeUnits(n')
                        \o SubSeq(dest, u + 1, Len(dest))
             /\ pc' = "next" /\ destLength' <= capacity
    <3>1. u \in 0 .. Len(dest)
      <4> DEFINE position == i % (destCPCount + 1)
                 length   == U16_LENGTH(n')
      <4>1. IsInsertion(dest', dest, u, n', length)
        <5> HIDE DEF position, length
        <5> QED BY <1>3, <2>3, InsertFits DEF position, length
      <4> QED BY <4>1 DEF IsInsertion
    <3> HIDE DEF u
    <3>2. CodeUnits(n') \in Seq(CodeUnit)
      <4>1. n' \in 0 .. MaxCodePoint
        BY <1>3, InsertInv DEF IInv, NumbersInv
      <4> QED BY <4>1, CodeUnitsAreUnits
    <3>3. /\ SubSeq(dest, 1, u) \in Seq(CodeUnit)
          /\ SubSeq(dest, u + 1, Len(dest)) \in Seq(CodeUnit)
      BY <1>1, <3>1
    <3>4. dest' \in Seq(CodeUnit)
      BY <2>3, <3>2, <3>3
    <3> QED BY <3>4 DEF UnitsInv
  <2> QED BY <2>1, <2>2, <2>3
<1> QED BY <1>2, <1>3 DEF Step

-----------------------------------------------------------------------------
(* What a call returns does not depend on the capacity: destLength goes on *)
(* counting when nothing more fits.  DecView is the state of a call        *)
(* without dest, capacity and firstSupplementaryIndex, and without what    *)
(* the loop the call is in does not use; DecNext is one step of it.        *)
DecViews ==
  ({"next"} \X Nat \X Nat \X Nat \X Nat \X Nat \X Nat)
    \cup ({"digit"} \X Nat \X Nat \X Nat \X Nat \X Nat \X Nat \X Nat \X Nat \X Nat)
    \cup ({"insert"} \X Nat \X Nat \X Nat \X Nat \X Nat \X Nat \X Nat)
    \cup ({"done"} \X Nat \X Int)

(* The codes by which the length that is returned fits the capacity.       *)
Fitting == {U_ZERO_ERROR, U_STRING_NOT_TERMINATED_WARNING, U_BUFFER_OVERFLOW_ERROR}

DecView ==
  IF pc = "next" THEN <<"next", in, destLength, destCPCount, n, i, bias>>
  ELSE IF pc = "digit"
  THEN <<"digit", in, destLength, destCPCount, n, i, bias, oldi, w, k>>
  ELSE IF pc = "insert"
  THEN <<"insert", in, destLength, destCPCount, n, i, bias, oldi>>
  ELSE <<"done", destLength, IF status \in Fitting THEN U_ZERO_ERROR ELSE status>>

DecBegins(s) ==
  LET basicLength == LastDelimiter(s)
      basic       == SubSeq(s, 1, basicLength)
  IN  IF Len(s) > DecodeMaxChars THEN <<"done", 0, U_INPUT_TOO_LONG_ERROR>>
      ELSE IF \E x \in DOMAIN basic : ~IsBasic(basic[x])
      THEN <<"done", 0, U_INVALID_CHAR_FOUND>>
      ELSE <<"next", IF basicLength > 0 THEN basicLength + 1 ELSE 0, basicLength,
             basicLength, InitialN, 0, InitialBias>>

AfterNext(s, at, length, count, c, p, b) ==
  IF at < Len(s) THEN <<"digit", at, length, count, c, p, b, p, 1, Base>>
                 ELSE <<"done", length, U_ZERO_ERROR>>

AfterDigit(s, at, length, count, c, p, b, old, weight, position) ==
  LET digit == DecodeDigit(s[at + 1])
      t     == Threshold(position, b)
  IN  IF at >= Len(s) THEN <<"done", 0, U_ILLEGAL_CHAR_FOUND>>
      ELSE IF digit < 0 THEN <<"done", 0, U_INVALID_CHAR_FOUND>>
      ELSE IF digit > (MaxInt - p) \div weight
      THEN <<"done", 0, U_ILLEGAL_CHAR_FOUND>>
      ELSE IF digit < t
      THEN <<"insert", at + 1, length, count, c, p + digit * weight, b, old>>
      ELSE IF weight > MaxInt \div (Base - t)
      THEN <<"done", 0, U_ILLEGAL_CHAR_FOUND>>
      ELSE <<"digit", at + 1, length, count, c, p + digit * weight, b, old,
             weight * (Base - t), position + Base>>

AfterInsert(at, length, count, c, p, b, old) ==
  LET turns == p \div (count + 1)
  IN  IF turns > MaxInt - c \/ c + turns > MaxCodePoint \/ IsSurrogate(c + turns)
      THEN <<"done", 0, U_ILLEGAL_CHAR_FOUND>>
      ELSE <<"next", at, length + U16_LENGTH(c + turns), count + 1, c + turns,
             (p % (count + 1)) + 1, AdaptBias(p - old, count + 1, old = 0)>>

DecNext(s) ==
  [v \in {u \in DecViews : u[1] # "done"} |->
     IF v[1] = "next" THEN AfterNext(s, v[2], v[3], v[4], v[5], v[6], v[7])
     ELSE IF v[1] = "digit"
     THEN AfterDigit(s, v[2], v[3], v[4], v[5], v[6], v[7], v[8], v[9], v[10])
     ELSE AfterInsert(v[2], v[3], v[4], v[5], v[6], v[7], v[8])]

DecOrbit(s) == Orbit(DecNext(s), DecViews, DecBegins(s))

(* Some call with this input has returned, or would return, this length.   *)
DecReturns(s, length) == <<"done", length, U_ZERO_ERROR>> \in DecOrbit(s)

(* A call is somewhere in the orbit of its input.  While it runs nothing   *)
(* has failed, and if it returns a length, only the comparison with the    *)
(* capacity is left to decide on the status.                               *)
DecOrbitInv ==
  /\ pc # "ready" => DecView \in DecOrbit(src)
  /\ pc \notin {"ready", "done"} => status = U_ZERO_ERROR
  /\ pc = "done" /\ status \in Fitting =>
       status = TerminateStatus(capacity, destLength, U_ZERO_ERROR)

(* The view is one.                                                        *)
LEMMA DecViewType == IInv /\ OutputInv /\ pc # "ready" => DecView \in DecViews
<1> SUFFICES ASSUME IInv, OutputInv, pc # "ready" PROVE DecView \in DecViews
  OBVIOUS
<1>0. /\ in \in Nat /\ destLength \in Nat /\ destCPCount \in Nat /\ n \in Nat
      /\ i \in Nat /\ bias \in Nat /\ oldi \in Nat /\ w \in Nat /\ k \in Nat
      /\ status \in Int /\ pc \in {"next", "digit", "insert", "done"}
  BY DEF IInv, NumbersInv, OutputInv
<1>1. CASE pc = "next"
  BY <1>0, <1>1 DEF DecView, DecViews
<1>2. CASE pc = "digit"
  BY <1>0, <1>2 DEF DecView, DecViews
<1>3. CASE pc = "insert"
  BY <1>0, <1>3 DEF DecView, DecViews
<1>4. CASE pc = "done"
  BY <1>0, <1>4 DEF DecView, DecViews, U_ZERO_ERROR
<1> QED BY <1>0, <1>1, <1>2, <1>3, <1>4

(* So is the first.                                                        *)
LEMMA DecBeginsType ==
  ASSUME NEW s \in Seq(Nat) PROVE DecBegins(s) \in DecViews
<1>1. <<"done", 0, U_INPUT_TOO_LONG_ERROR>> \in DecViews
  BY DEF DecViews, U_INPUT_TOO_LONG_ERROR
<1>2. <<"done", 0, U_INVALID_CHAR_FOUND>> \in DecViews
  BY DEF DecViews, U_INVALID_CHAR_FOUND
<1>3. ASSUME NEW b \in Nat
      PROVE  <<"next", IF b > 0 THEN b + 1 ELSE 0, b, b, InitialN, 0, InitialBias>>
               \in DecViews
  BY DEF DecViews, InitialN, InitialBias
<1> QED BY <1>1, <1>2, <1>3, LastDelimiterIsIndex DEF DecBegins

(* Each action takes the view to the next one: the head of the main loop,  *)
LEMMA NextView ==
  ASSUME IInv, OutputInv, status = U_ZERO_ERROR, BeginInteger \/ Finish
  PROVE  /\ pc = "next"
         /\ DecView' = AfterNext(src, in, destLength, destCPCount, n, i, bias)
<1>1. CASE BeginInteger
  BY <1>1 DEF BeginInteger, DecView, AfterNext
<1>2. CASE Finish
  <2>1. pc = "next" /\ ~(in < Len(src))
    BY <1>2 DEF Finish, IInv, NumbersInv
  <2>2. DecView' = <<"done", destLength, U_ZERO_ERROR>>
    BY <1>2 DEF Finish, Return, DecView, TerminateStatus, Fitting, U_FAILURE,
                U_ZERO_ERROR
  <2> QED BY <2>1, <2>2 DEF AfterNext
<1> QED BY <1>1, <1>2

(* a call that fails,                                                      *)
LEMMA FailView ==
  ASSUME NEW code \in {U_ILLEGAL_CHAR_FOUND, U_INVALID_CHAR_FOUND}, Fail(code)
  PROVE  DecView' = <<"done", 0, code>> /\ status' \notin Fitting
BY DEF Fail, Return, DecView, Fitting, U_ILLEGAL_CHAR_FOUND, U_INVALID_CHAR_FOUND,
       U_ZERO_ERROR, U_STRING_NOT_TERMINATED_WARNING, U_BUFFER_OVERFLOW_ERROR

(* a digit,                                                                *)
LEMMA DigitView ==
  ASSUME IInv, OutputInv, status = U_ZERO_ERROR, RejectTruncated \/ ReadDigit
  PROVE  /\ pc = "digit"
         /\ DecView' = AfterDigit(src, in, destLength, destCPCount, n, i, bias,
                                  oldi, w, k)
<1>1. CASE RejectTruncated
  <2>1. pc = "digit" /\ in >= Len(src) /\ Fail(U_ILLEGAL_CHAR_FOUND)
    BY <1>1 DEF RejectTruncated
  <2> QED BY <2>1, FailView DEF AfterDigit
<1>2. CASE ReadDigit
  <2> DEFINE digit == DecodeDigit(src[in + 1])
             t     == Threshold(k, bias)
  <2>0. pc = "digit" /\ ~(in >= Len(src))
    BY <1>2 DEF ReadDigit, IInv, NumbersInv
  <2>1. CASE digit < 0
    <3>1. Fail(U_INVALID_CHAR_FOUND)
      BY <1>2, <2>1 DEF ReadDigit, NotADigit
    <3> QED BY <2>0, <2>1, <3>1, FailView DEF AfterDigit
  <2>2. CASE ~(digit < 0) /\ digit > (MaxInt - i) \div w
    <3>1. Fail(U_ILLEGAL_CHAR_FOUND)
      BY <1>2, <2>2 DEF ReadDigit, NotADigit, DigitWouldOverflow
    <3> QED BY <2>0, <2>2, <3>1, FailView DEF AfterDigit
  <2>3. CASE ~(digit < 0) /\ ~(digit > (MaxInt - i) \div w) /\ digit < t
    <3>1. /\ in' = in + 1 /\ i' = i + digit * w /\ pc' = "insert"
          /\ UNCHANGED <<destLength, destCPCount, n, bias, oldi>>
      BY <1>2, <2>3 DEF ReadDigit, NotADigit, DigitWouldOverflow
    <3>2. DecView' = <<"insert", in + 1, destLength, destCPCount, n, i + digit * w,
                       bias, oldi>>
      BY <3>1, Zenon DEF DecView
    <3> QED BY <2>0, <2>3, <3>2, Zenon DEF AfterDigit
  <2>4. CASE /\ ~(digit < 0) /\ ~(digit > (MaxInt - i) \div w) /\ ~(digit < t)
             /\ w > MaxInt \div (Base - t)
    <3>1. Fail(U_ILLEGAL_CHAR_FOUND)
      BY <1>2, <2>4 DEF ReadDigit, NotADigit, DigitWouldOverflow, WeightWouldOverflow
    <3> QED BY <2>0, <2>4, <3>1, FailView DEF AfterDigit
  <2>5. CASE /\ ~(digit < 0) /\ ~(digit > (MaxInt - i) \div w) /\ ~(digit < t)
             /\ ~(w > MaxInt \div (Base - t))
    <3>1. /\ in' = in + 1 /\ i' = i + digit * w /\ pc' = "digit"
          /\ w' = w * (Base - t) /\ k' = k + Base
          /\ UNCHANGED <<destLength, destCPCount, n, bias, oldi>>
      BY <1>2, <2>0, <2>5
         DEF ReadDigit, NotADigit, DigitWouldOverflow, WeightWouldOverflow
    <3>2. DecView' = <<"digit", in + 1, destLength, destCPCount, n, i + digit * w,
                       bias, oldi, w * (Base - t), k + Base>>
      BY <3>1, Zenon DEF DecView
    <3> QED BY <2>0, <2>5, <3>2, Zenon DEF AfterDigit
  <2> QED BY <2>0, <2>1, <2>2, <2>3, <2>4, <2>5
<1> QED BY <1>1, <1>2

(* and an insertion.                                                       *)
LEMMA InsertView ==
  ASSUME IInv, OutputInv, status = U_ZERO_ERROR, Insert
  PROVE  /\ pc = "insert"
         /\ DecView' = AfterInsert(in, destLength, destCPCount, n, i, bias, oldi)
<1> DEFINE turns == i \div (destCPCount + 1)
           bad   == \/ turns > MaxInt - n \/ n + turns > MaxCodePoint
                    \/ IsSurrogate(n + turns)
<1>0. pc = "insert"
  BY DEF Insert
<1>1. CASE bad
  <2>1. Fail(U_ILLEGAL_CHAR_FOUND)
    BY <1>1 DEF Insert
  <2> QED BY <1>0, <1>1, <2>1, FailView DEF AfterInsert
<1>2. CASE ~bad
  <2>1. /\ pc' = "next" /\ in' = in
        /\ destLength' = destLength + U16_LENGTH(n + turns)
        /\ destCPCount' = destCPCount + 1
        /\ n' = n + turns /\ i' = (i % (destCPCount + 1)) + 1
        /\ bias' = AdaptBias(i - oldi, destCPCount + 1, oldi = 0)
    BY <1>2 DEF Insert
  <2>2. DecView' = <<"next", in, destLength + U16_LENGTH(n + turns),
                     destCPCount + 1, n + turns, (i % (destCPCount + 1)) + 1,
                     AdaptBias(i - oldi, destCPCount + 1, oldi = 0)>>
    BY <2>1, Zenon DEF DecView
  <2> QED BY <1>0, <1>2, <2>2, Zenon DEF AfterInsert
<1> QED BY <1>1, <1>2

(* So a step of the decoder takes the view to the next one.                *)
LEMMA StepView ==
  ASSUME IInv, OutputInv, DecOrbitInv, Step
  PROVE  DecView \in DOMAIN DecNext(src) /\ DecView' = DecNext(src)[DecView]
<1>0. pc \in {"next", "digit", "insert"} /\ status = U_ZERO_ERROR
  <2>1. pc \in {"next", "digit", "insert"}
    BY DEF Step, BeginInteger, RejectTruncated, ReadDigit, Insert, Finish
  <2> QED BY <2>1 DEF DecOrbitInv
<1>1. DecView \in DecViews /\ DecView[1] = pc
  BY <1>0, DecViewType DEF DecView
<1>2. DecView \in DOMAIN DecNext(src)
  BY <1>0, <1>1 DEF DecNext
<1>3. DecNext(src)[DecView] =
        IF pc = "next" THEN AfterNext(src, DecView[2], DecView[3], DecView[4],
                                      DecView[5], DecView[6], DecView[7])
        ELSE IF pc = "digit"
        THEN AfterDigit(src, DecView[2], DecView[3], DecView[4], DecView[5],
                        DecView[6], DecView[7], DecView[8], DecView[9], DecView[10])
        ELSE AfterInsert(DecView[2], DecView[3], DecView[4], DecView[5],
                         DecView[6], DecView[7], DecView[8])
  BY <1>0, <1>1 DEF DecNext
<1>4. /\ DecView[2] = in /\ DecView[3] = destLength /\ DecView[4] = destCPCount
      /\ DecView[5] = n /\ DecView[6] = i /\ DecView[7] = bias
      /\ pc # "next" => DecView[8] = oldi
      /\ pc = "digit" => DecView[9] = w /\ DecView[10] = k
  BY <1>0 DEF DecView
<1>5. CASE BeginInteger \/ Finish
  BY <1>0, <1>2, <1>3, <1>4, <1>5, NextView
<1>6. CASE RejectTruncated \/ ReadDigit
  BY <1>0, <1>2, <1>3, <1>4, <1>6, DigitView
<1>7. CASE Insert
  BY <1>0, <1>2, <1>3, <1>4, <1>7, InsertView
<1> QED BY <1>5, <1>6, <1>7 DEF Step

(* No step changes the input or the capacity, and each either goes on with *)
(* no error, returns a code of failure, or compares with the capacity.     *)
LEMMA StepStatus ==
  ASSUME IInv, OutputInv, DecOrbitInv, Step
  PROVE  /\ src' = src /\ capacity' = capacity /\ pc' # "ready"
         /\ pc' # "done" => status' = U_ZERO_ERROR
         /\ pc' = "done" /\ status' \in Fitting =>
              status' = TerminateStatus(capacity', destLength', U_ZERO_ERROR)
<1>0. pc \in {"next", "digit", "insert"} => status = U_ZERO_ERROR
  BY DEF DecOrbitInv
<1>1. CASE Finish
  BY <1>0, <1>1 DEF Finish, Return
<1>2. CASE BeginInteger
  BY <1>0, <1>2 DEF BeginInteger
<1>3. CASE RejectTruncated
  BY <1>3, FailView DEF RejectTruncated, Fail, Return
<1>4. CASE ReadDigit
  <2>1. \/ Fail(U_INVALID_CHAR_FOUND) \/ Fail(U_ILLEGAL_CHAR_FOUND)
        \/ pc' = "insert" /\ status' = status
        \/ pc' = pc /\ status' = status
    BY <1>4 DEF ReadDigit
  <2>2. pc = "digit" /\ src' = src /\ capacity' = capacity
    BY <1>4 DEF ReadDigit
  <2> QED BY <1>0, <2>1, <2>2, FailView DEF Fail, Return
<1>5. CASE Insert
  <2>1. \/ Fail(U_ILLEGAL_CHAR_FOUND)
        \/ pc' = "next" /\ status' = status
    BY <1>5 DEF Insert
  <2>2. pc = "insert" /\ src' = src /\ capacity' = capacity
    BY <1>5 DEF Insert
  <2> QED BY <1>0, <2>1, <2>2, FailView DEF Fail, Return
<1> QED BY <1>1, <1>2, <1>3, <1>4, <1>5 DEF Step

(* A step goes on in the orbit of the call.                                *)
LEMMA StepOrbit ==
  ASSUME IInv, OutputInv, IInv', OutputInv', DecOrbitInv, Step
  PROVE  DecOrbitInv'
<1>1. DecView \in DOMAIN DecNext(src) /\ DecView' = DecNext(src)[DecView]
  BY StepView
<1>2. src' = src /\ pc' # "ready"
  BY StepStatus
<1>3. DecView' \in DecViews
  <2>1. (IInv /\ OutputInv /\ pc # "ready" => DecView \in DecViews)'
    BY DecViewType, PTL
  <2> QED BY <1>2, <2>1
<1>4. DecView \in DecOrbit(src)
  <2>1. pc # "ready"
    BY DEF Step, BeginInteger, RejectTruncated, ReadDigit, Insert, Finish
  <2> QED BY <2>1 DEF DecOrbitInv
<1>5. DecView' \in DecOrbit(src)
  BY <1>1, <1>3, <1>4, OrbitGoesOn DEF DecOrbit
<1> QED BY <1>2, <1>5, StepStatus DEF DecOrbitInv

(* A call begins one.                                                      *)
LEMMA CallOrbit ==
  ASSUME NEW s \in Seq(Nat), NEW c, Call(s, c)
  PROVE  DecOrbitInv'
<1> DEFINE b == LastDelimiter(s)
           basic == SubSeq(s, 1, b)
<1>1. src' = s
  BY DEF Call
<1>2. CASE Len(s) > DecodeMaxChars
  <2>1. Fail(U_INPUT_TOO_LONG_ERROR)
    BY <1>2 DEF Call
  <2>2. pc' = "done" /\ status' \notin Fitting
        /\ DecView' = <<"done", 0, U_INPUT_TOO_LONG_ERROR>>
    BY <2>1 DEF Fail, Return, DecView, Fitting, U_INPUT_TOO_LONG_ERROR,
       U_ZERO_ERROR, U_STRING_NOT_TERMINATED_WARNING, U_BUFFER_OVERFLOW_ERROR
  <2>3. DecView' = DecBegins(s)
    BY <1>2, <2>2 DEF DecBegins
  <2> QED BY <1>1, <2>2, <2>3, DecBeginsType, OrbitBegins DEF DecOrbitInv, DecOrbit
<1>3. CASE ~(Len(s) > DecodeMaxChars) /\ \E x \in DOMAIN basic : ~IsBasic(basic[x])
  <2>1. Fail(U_INVALID_CHAR_FOUND)
    BY <1>3 DEF Call
  <2>2. DecView' = <<"done", 0, U_INVALID_CHAR_FOUND>> /\ status' \notin Fitting
    BY <2>1, FailView
  <2>3. DecView' = DecBegins(s)
    BY <1>3, <2>2, Zenon DEF DecBegins
  <2>4. pc' = "done"
    BY <2>1 DEF Fail, Return
  <2> QED BY <1>1, <2>2, <2>3, <2>4, DecBeginsType, OrbitBegins DEF DecOrbitInv, DecOrbit
<1>4. CASE ~(Len(s) > DecodeMaxChars) /\ ~\E x \in DOMAIN basic : ~IsBasic(basic[x])
  <2>1. /\ pc' = "next" /\ status' = U_ZERO_ERROR /\ destLength' = b
        /\ destCPCount' = b /\ n' = InitialN /\ i' = 0 /\ bias' = InitialBias
        /\ in' = IF b > 0 THEN b + 1 ELSE 0
    BY <1>4, Zenon DEF Call
  <2>2. DecView' = <<"next", IF b > 0 THEN b + 1 ELSE 0, b, b, InitialN, 0, InitialBias>>
    BY <2>1, Zenon DEF DecView
  <2>3. DecView' = DecBegins(s)
    BY <1>4, <2>2, Zenon DEF DecBegins
  <2> QED BY <1>1, <2>1, <2>3, DecBeginsType, OrbitBegins DEF DecOrbitInv, DecOrbit
<1> QED BY <1>2, <1>3, <1>4

(* A call with room for the length that another call with the same input   *)
(* has returned returns the same length, and succeeds.                     *)
LEMMA DecReturnsTheSame ==
  ASSUME IInv, OutputInv, DecOrbitInv, pc = "done", NEW length \in Nat,
         DecReturns(src, length), capacity >= length
  PROVE  U_SUCCESS(status) /\ destLength = length
<1>1. DecView \in DecOrbit(src) /\ DecView[1] = "done"
  BY DEF DecOrbitInv, DecView
<1>2. DecView = <<"done", length, U_ZERO_ERROR>>
  <2>1. DecView \notin DOMAIN DecNext(src)
    BY <1>1 DEF DecNext
  <2>2. <<"done", length, U_ZERO_ERROR>> \notin DOMAIN DecNext(src)
    BY DEF DecNext
  <2>3. src \in Seq(Nat)
    BY DEF IInv, NumbersInv
  <2> QED BY <1>1, <2>1, <2>2, <2>3, DecBeginsType, OrbitEndsOnce
          DEF DecOrbit, DecReturns
<1>3. DecView = <<"done", destLength,
                  IF status \in Fitting THEN U_ZERO_ERROR ELSE status>>
  BY DEF DecView
<1>4. destLength = length /\ status \in Fitting
  BY <1>2, <1>3 DEF Fitting
<1>5. status = TerminateStatus(capacity, length, U_ZERO_ERROR) /\ capacity \in Nat
  BY <1>4 DEF DecOrbitInv, OutputInv
<1> QED BY <1>4, <1>5, RoomIsSuccess

(* The length that an overflow reports is one that is returned.            *)
LEMMA DecOverflowReturns ==
  ASSUME DecOrbitInv, pc = "done", status = U_BUFFER_OVERFLOW_ERROR
  PROVE  DecReturns(src, destLength)
BY DEF DecOrbitInv, DecReturns, DecView, Fitting

-----------------------------------------------------------------------------
(* The decoder computes what the definition says.  The definition is       *)
(* recursive, and its recursion is unfolded once for every digit and every *)
(* insertion: what the text stands for is, at any time, what the           *)
(* definition makes of the code points that are there and of what is left  *)
(* to read.                                                                *)

(* What is left to decode when the integer of state s is this one.         *)
DecodingWith(p, s, integer) ==
  IF NoInsertion(s, integer) THEN Malformed
  ELSE Decoding(p, LastDelimiter(p))[Inserted(s, integer, LastDelimiter(p))]

(* The state of the definition that the decoder is in when it starts an    *)
(* integer at i, with these code points.                                   *)
StateOf(at, start, c) ==
  [x |-> at + 1, n |-> n, i |-> start, bias |-> bias, c |-> c]

IntegerState == [x |-> in + 1, i |-> i, w |-> w, k |-> k]

(* The code points c are those of the output, and what the text stands for *)
(* is what the definition makes of them and of what is left to read.       *)
Decodes(c) ==
  /\ Len(c) = destCPCount /\ Len(c) >= LastDelimiter(src)
  /\ destLength <= capacity => CodePoints(dest) = c
  /\ (IF pc = "next" THEN i ELSE oldi) = 0 <=> Len(c) = LastDelimiter(src)
  /\ pc = "next" =>
       DecodedPoints(src) = Decoding(src, LastDelimiter(src))[StateOf(in, i, c)]
  /\ pc = "digit" =>
       DecodedPoints(src) = DecodingWith(src, StateOf(0, oldi, c),
                                         Integer(src, bias)[IntegerState])
  /\ pc = "insert" =>
       DecodedPoints(src) = DecodingWith(src, StateOf(0, oldi, c),
                                         [end |-> in + 1, value |-> i])

(* The decoder does what the definition says, and has done so.             *)
DecodesInv ==
  /\ InLoops => status = U_ZERO_ERROR /\ \E c \in Seq(Nat) : Decodes(c)
  /\ pc = "done" /\ status # U_BUFFER_OVERFLOW_ERROR =>
       /\ U_SUCCESS(status) = DecodedPoints(src).ok
       /\ U_SUCCESS(status) => CodePoints(dest) = DecodedPoints(src).text

(* Where the place that an integer is read from plays no part.             *)
LEMMA PlaceIsIrrelevant ==
  ASSUME NEW p, NEW at, NEW start, NEW c, NEW integer
  PROVE  DecodingWith(p, StateOf(at, start, c), integer) =
           DecodingWith(p, StateOf(0, start, c), integer)
<1> DEFINE s == StateOf(at, start, c)
           t == StateOf(0, start, c)
<1>1. s.n = t.n /\ s.i = t.i /\ s.c = t.c
  BY DEF StateOf
<1>2. NextPoint(s, integer) = NextPoint(t, integer)
  BY <1>1 DEF NextPoint
<1>3. NoInsertion(s, integer) = NoInsertion(t, integer)
  BY <1>2 DEF NoInsertion
<1>4. Inserted(s, integer, LastDelimiter(p)) = Inserted(t, integer, LastDelimiter(p))
  <2> HIDE DEF s, t
  <2> QED BY <1>1, <1>2, Zenon DEF Inserted
<1> HIDE DEF s, t
<1>5. DecodingWith(p, s, integer) = DecodingWith(p, t, integer)
  BY <1>3, <1>4, Zenon DEF DecodingWith
<1> QED BY <1>5 DEF s, t

(* The definition starts where a call starts.                              *)
LEMMA DecodedPointsBegin ==
  ASSUME NEW p \in Seq(Nat)
  PROVE  LET b     == LastDelimiter(p)
             basic == SubSeq(p, 1, b)
         IN  DecodedPoints(p) =
               IF Len(p) <= DecodeMaxChars /\ \A x \in DOMAIN basic : IsBasic(basic[x])
               THEN Decoding(p, b)[[x |-> IF b > 0 THEN b + 2 ELSE 1,
                                    n |-> InitialN, i |-> 0,
                                    bias |-> InitialBias, c |-> basic]]
               ELSE Malformed
<1> DEFINE delimiters == {x \in DOMAIN p : p[x] = Delimiter}
           last  == CHOOSE x \in delimiters \cup {1} : \A y \in delimiters : y <= x
           at    == {x \in 0 .. Len(p) - 1 : p[x + 1] = Delimiter}
           b     == LastDelimiter(p)
           From(l) == LET basic == SubSeq(p, 1, l - 1)
                          start == [x |-> IF l = 1 THEN 1 ELSE l + 1, n |-> InitialN,
                                    i |-> 0, bias |-> InitialBias, c |-> basic]
                      IN  IF /\ Len(p) <= DecodeMaxChars
                             /\ \A x \in DOMAIN basic : IsBasic(basic[x])
                          THEN Decoding(p, l - 1)[start]
                          ELSE Malformed
<1>1. Len(p) \in Nat /\ DOMAIN p = 1 .. Len(p)
  OBVIOUS
<1>2. b \in Nat /\ last = b + 1
  <2>1. CASE at = {}
    <3>1. delimiters = {}
      <4> SUFFICES ASSUME NEW x \in delimiters PROVE FALSE
        OBVIOUS
      <4>1. x - 1 \in at
        BY <1>1
      <4> QED BY <2>1, <4>1
    <3>2. last = 1
      <4> HIDE DEF delimiters
      <4> QED BY <3>1
    <3> QED BY <2>1, <3>2 DEF LastDelimiter
  <2>2. CASE at # {}
    <3>1. \E x \in at : \A y \in at : y <= x
      <4>1. at \in SUBSET (0 .. Len(p) - 1) /\ Len(p) - 1 \in Int
        BY <1>1
      <4> HIDE DEF at
      <4> QED BY <2>2, <4>1, RangeHasGreatest
    <3>2. b = CHOOSE x \in at : \A y \in at : y <= x
      BY <2>2, Zenon DEF LastDelimiter
    <3>3. b \in at /\ \A y \in at : y <= b
      <4> HIDE DEF at, b
      <4> QED BY <3>1, <3>2
    <3> HIDE DEF b
    <3>4. /\ b + 1 \in delimiters /\ b \in Nat
          /\ \A y \in delimiters : y - 1 \in at /\ y \in Int
      BY <1>1, <3>3
    <3>5. \A y \in delimiters : y <= b + 1
      <4> HIDE DEF at, delimiters
      <4> QED BY <3>3, <3>4
    <3> DEFINE D == delimiters \cup {1}
    <3>6. b + 1 \in D /\ \A y \in delimiters : y <= b + 1
      BY <3>4, <3>5
    <3>7. \A x \in D : (\A y \in delimiters : y <= x) => x = b + 1
      <4> SUFFICES ASSUME NEW x \in D, \A y \in delimiters : y <= x
                   PROVE  x = b + 1
        OBVIOUS
      <4> HIDE DEF delimiters
      <4>1. b + 1 <= x
        BY <3>4
      <4>2. x \in Int /\ x <= b + 1
        BY <3>4, <3>5
      <4> QED BY <3>4, <4>1, <4>2
    <3>8. last = b + 1
      <4> HIDE DEF delimiters, D
      <4>1. last = CHOOSE x \in D : \A y \in delimiters : y <= x
        BY DEF D
      <4> HIDE DEF last
      <4> QED BY <3>6, <3>7, <4>1
    <3> QED BY <3>4, <3>8
  <2> QED BY <2>1, <2>2
<1>3. DecodedPoints(p) = From(last)
  BY Zenon DEF DecodedPoints
<1> HIDE DEF last, b
<1>4. /\ (b + 1) - 1 = b /\ (b + 1) + 1 = b + 2
      /\ (IF b + 1 = 1 THEN 1 ELSE b + 2) = IF b > 0 THEN b + 2 ELSE 1
  BY <1>2
<1>5. From(b + 1) =
        LET basic == SubSeq(p, 1, b)
        IN  IF Len(p) <= DecodeMaxChars /\ \A x \in DOMAIN basic : IsBasic(basic[x])
            THEN Decoding(p, b)[[x |-> IF b > 0 THEN b + 2 ELSE 1,
                                 n |-> InitialN, i |-> 0,
                                 bias |-> InitialBias, c |-> basic]]
            ELSE Malformed
  BY <1>4, Zenon
<1> HIDE DEF From
<1> QED BY <1>2, <1>3, <1>5 DEF b

(* Without surrogate pairs, the code points are the units.                 *)
LEMMA CodePointsOfBasic ==
  ASSUME NEW s \in Seq(Nat), \A x \in DOMAIN s : IsBasic(s[x])
  PROVE  CodePoints(s) = s
<1>1. Len(s) \in Nat /\ \A x \in 0 .. Len(s) - 1 : s[x + 1] \in Nat /\ IsBasic(s[x + 1])
  OBVIOUS
<1>2. \A x \in 0 .. Len(s) - 1 : ~StartsPair(s, x)
  BY <1>1, SurrogateLayout DEF StartsPair, IsLead, IsBasic, InitialN
<1>3. \A x \in 0 .. Len(s) : IsBoundary(s, x) /\ CountCodePoints(s, 0, x) = x
  BY <1>1, <1>2, NoPairsCount
<1>4. CodePoints(s) \in Seq(Int) /\ Len(CodePoints(s)) = Len(s)
  <2>1. Len(s) \in 0 .. Len(s) /\ IsBoundary(s, Len(s)) /\ CountCodePoints(s, 0, Len(s)) = Len(s)
    BY <1>1, <1>3
  <2> QED BY <2>1, CodePointsAtBoundaries
<1>5. ASSUME NEW x \in 0 .. Len(s) - 1
      PROVE  CodePoints(s)[x + 1] = s[x + 1]
  <2>1. CodePoints(s)[CountCodePoints(s, 0, x) + 1] = CodePointAt(s, x)
    BY <1>1, <1>3, CodePointsAtBoundaries
  <2> QED BY <1>1, <1>2, <1>3, <2>1 DEF CodePointAt
<1>6. \A x \in 1 .. Len(s) : CodePoints(s)[x] = s[x]
  <2> SUFFICES ASSUME NEW x \in 1 .. Len(s) PROVE CodePoints(s)[x] = s[x]
    OBVIOUS
  <2>1. x - 1 \in 0 .. Len(s) - 1 /\ (x - 1) + 1 = x
    BY <1>1
  <2> QED BY <1>5, <2>1
<1> QED BY <1>1, <1>4, <1>6

(* A call that fails is right to do so when the text is malformed.         *)
LEMMA FailureDecodes ==
  ASSUME NEW code \in {U_INPUT_TOO_LONG_ERROR, U_INVALID_CHAR_FOUND,
                       U_ILLEGAL_CHAR_FOUND},
         pc' = "done", status' = code, DecodedPoints(src') = Malformed
  PROVE  DecodesInv'
<1>1. U_SUCCESS(status') = FALSE
  BY DEF U_SUCCESS, U_ZERO_ERROR, U_INPUT_TOO_LONG_ERROR, U_INVALID_CHAR_FOUND,
         U_ILLEGAL_CHAR_FOUND
<1>2. DecodedPoints(src').ok = FALSE
  BY DEF Malformed
<1> QED BY <1>1, <1>2 DEF DecodesInv, InLoops

(* A call that copies the basic characters starts the definition.          *)
LEMMA CallDecodes ==
  ASSUME NEW s \in Seq(Nat), NEW c \in Nat, Call(s, c)
  PROVE  DecodesInv'
<1> DEFINE b     == LastDelimiter(s)
           basic == SubSeq(s, 1, b)
           start == [x |-> IF b > 0 THEN b + 2 ELSE 1, n |-> InitialN, i |-> 0,
                     bias |-> InitialBias, c |-> basic]
<1>1. b \in 0 .. Len(s) /\ Len(s) \in Nat
  <2>1. Len(s) \in Nat
    OBVIOUS
  <2> QED BY <2>1, LastDelimiterIsIndex
<1> HIDE DEF b
<1>2. basic \in Seq(Nat) /\ Len(basic) = b
  BY <1>1
<1> HIDE DEF basic, start
<1>3. DecodedPoints(s) =
        IF Len(s) <= DecodeMaxChars /\ \A x \in DOMAIN basic : IsBasic(basic[x])
        THEN Decoding(s, b)[start] ELSE Malformed
  BY DecodedPointsBegin DEF b, basic, start
<1>4. /\ src' = s /\ capacity' = c /\ dest' = Store(<<>>, c, basic)
      /\ destCPCount' = b /\ n' = InitialN /\ i' = 0 /\ bias' = InitialBias
      /\ in' = IF b > 0 THEN b + 1 ELSE 0
  BY DEF Call, b, basic
<1>5. CASE Len(s) > DecodeMaxChars \/ \E x \in DOMAIN basic : ~IsBasic(basic[x])
  <2>1. /\ pc' = "done"
        /\ status' \in {U_INPUT_TOO_LONG_ERROR, U_INVALID_CHAR_FOUND}
    BY <1>5 DEF Call, Fail, Return, b, basic
  <2>2. DecodedPoints(s) = Malformed
    <3>1. Len(s) > DecodeMaxChars => ~(Len(s) <= DecodeMaxChars)
      BY <1>1 DEF DecodeMaxChars
    <3> QED BY <1>3, <1>5, <3>1
  <2> QED BY <1>4, <2>1, <2>2, FailureDecodes
<1>6. CASE ~(Len(s) > DecodeMaxChars) /\ ~\E x \in DOMAIN basic : ~IsBasic(basic[x])
  <2>1. pc' = "next" /\ status' = U_ZERO_ERROR /\ destLength' = b
    BY <1>6 DEF Call, b, basic
  <2>2. DecodedPoints(s) = Decoding(s, b)[start]
    <3>1. ~(Len(s) > DecodeMaxChars) => Len(s) <= DecodeMaxChars
      BY <1>1 DEF DecodeMaxChars
    <3> QED BY <1>3, <1>6, <3>1
  <2>3. start = StateOf(in, i, basic)'
    <3>1. in' + 1 = IF b > 0 THEN b + 2 ELSE 1
      BY <1>1, <1>4
    <3> QED BY <1>4, <3>1 DEF StateOf, start
  <2>4. destLength' <= capacity' => CodePoints(dest') = basic
    <3> SUFFICES ASSUME b <= c PROVE CodePoints(dest') = basic
      BY <1>4, <2>1
    <3>1. Store(<<>>, c, basic) = basic
      BY <1>1, <1>2, StoreFits
    <3> QED BY <1>2, <1>4, <1>6, <3>1, CodePointsOfBasic
  <2>5. Decodes(basic)'
    <3>1. (Len(basic) = destCPCount /\ Len(basic) >= LastDelimiter(src))'
      BY <1>1, <1>2, <1>4 DEF b
    <3>2. (((IF pc = "next" THEN i ELSE oldi) = 0) <=> Len(basic) = LastDelimiter(src))'
      BY <1>2, <1>4, <2>1 DEF b
    <3>3. (DecodedPoints(src) = Decoding(src, LastDelimiter(src))[StateOf(in, i, basic)])'
      BY <1>4, <2>2, <2>3 DEF b
    <3> QED BY <2>1, <2>4, <3>1, <3>2, <3>3 DEF Decodes
  <2> QED BY <1>2, <2>1, <2>5 DEF DecodesInv
<1> QED BY <1>5, <1>6

(* An integer that is begun is the one the definition reads.               *)
LEMMA BeginDecodes ==
  ASSUME IInv, DecodesInv, BeginInteger
  PROVE  DecodesInv'
<1>1. PICK c \in Seq(Nat) : Decodes(c)
  BY DEF DecodesInv, InLoops, BeginInteger
<1> DEFINE b == LastDelimiter(src)
           s == StateOf(in, i, c)
<1>2. /\ pc = "next" /\ in < Len(src) /\ pc' = "digit"
      /\ oldi' = i /\ w' = 1 /\ k' = Base
      /\ UNCHANGED <<src, capacity, dest, destLength, destCPCount, n, i, bias, in,
                     status>>
  BY DEF BeginInteger
<1>3. /\ src \in Seq(Nat) /\ in \in Nat /\ n \in Nat /\ i \in Nat /\ bias \in Nat
      /\ Len(src) \in Nat /\ b \in Nat
  BY MaxCodePointIsNat, IntWidth, LastDelimiterIsIndex DEF IInv, NumbersInv
<1>4. s \in DecoderStates(src) /\ ~(s.x > Len(src)) /\ s.x = in + 1 /\ s.bias = bias
      /\ s.i = i
  BY <1>2, <1>3 DEF StateOf, DecoderStates
<1>5. DecodedPoints(src) = Decoding(src, b)[s]
  BY <1>1, <1>2 DEF Decodes
<1> HIDE DEF b, s
<1>6. Decoding(src, b)[s] =
        IF NoInsertion(s, IntegerOf(src, s)) THEN Malformed
        ELSE Decoding(src, b)[Inserted(s, IntegerOf(src, s), b)]
  BY <1>3, <1>4, DecodingUnfolds
<1>7. Decoding(src, b)[s] = DecodingWith(src, s, IntegerOf(src, s))
  BY <1>6, Zenon DEF DecodingWith, b
<1>8. IntegerOf(src, s) = (Integer(src, bias)[IntegerState])'
  BY <1>2, <1>4 DEF IntegerOf, IntegerState
<1>9. DecodingWith(src, s, IntegerOf(src, s)) =
        DecodingWith(src, StateOf(0, i, c), IntegerOf(src, s))
  BY PlaceIsIrrelevant DEF s
<1>10. StateOf(0, i, c) = StateOf(0, oldi, c)'
  BY <1>2 DEF StateOf
<1>11. (DecodedPoints(src) = DecodingWith(src, StateOf(0, oldi, c),
                                          Integer(src, bias)[IntegerState]))'
  BY <1>2, <1>5, <1>7, <1>8, <1>9, <1>10
<1>12. Decodes(c)'
  BY <1>1, <1>2, <1>11 DEF Decodes
<1> QED BY <1>2, <1>12 DEF DecodesInv, InLoops

(* A digit is the one the definition reads.                                *)
LEMMA DigitDecodes ==
  ASSUME IInv, DecodesInv, RejectTruncated \/ ReadDigit
  PROVE  DecodesInv'
<1>1. PICK c \in Seq(Nat) : Decodes(c)
  BY DEF DecodesInv, InLoops, RejectTruncated, ReadDigit
<1> DEFINE s      == IntegerState
           old    == StateOf(0, oldi, c)
           number == Integer(src, bias)[s]
           digit  == DecodeDigit(src[in + 1])
           t      == Threshold(k, bias)
<1>2. pc = "digit" /\ UNCHANGED <<src, capacity, dest, destCPCount, n, bias, oldi>>
  BY DEF RejectTruncated, ReadDigit
<1>3. /\ src \in Seq(Nat) /\ in \in Nat /\ i \in Nat /\ w \in Nat /\ k \in Nat
      /\ bias \in Nat /\ Len(src) \in Nat /\ in <= Len(src)
  BY <1>2, IntWidth DEF IInv, NumbersInv, InputInv, InLoops
<1>4. /\ s \in IntegerStates(src)
      /\ s.x = in + 1 /\ s.i = i /\ s.w = w /\ s.k = k
  BY <1>3 DEF IntegerState, IntegerStates
<1>5. DecodedPoints(src) = DecodingWith(src, old, number)
  BY <1>1, <1>2 DEF Decodes
<1>6. StateOf(0, oldi, c)' = old
  BY <1>2 DEF StateOf
<1>7. /\ Digit(src, s) = digit /\ WithDigit(src, s) = i + digit * w
      /\ IsLastDigit(src, bias, s) <=> digit < t
      /\ NoDigit(src, bias, s) <=>
           \/ in >= Len(src) \/ digit < 0 \/ digit > (MaxInt - i) \div w
           \/ ~(digit < t) /\ w > MaxInt \div (Base - t)
  <2>1. Digit(src, s) = digit
    BY <1>4 DEF Digit
  <2>2. WithDigit(src, s) = i + digit * w
    BY <1>4, <2>1, Zenon DEF WithDigit
  <2>3. IsLastDigit(src, bias, s) <=> digit < t
    BY <1>4, <2>1, Zenon DEF IsLastDigit
  <2>4. s.x > Len(src) <=> in >= Len(src)
    BY <1>3, <1>4
  <2> HIDE DEF s, digit, t
  <2>5. NoDigit(src, bias, s) <=>
          \/ in >= Len(src) \/ digit < 0 \/ digit > (MaxInt - i) \div w
          \/ ~(digit < t) /\ w > MaxInt \div (Base - t)
    BY <1>4, <2>1, <2>3, <2>4, Zenon DEF NoDigit, t
  <2> QED BY <2>1, <2>2, <2>3, <2>5
<1>8. number = IF NoDigit(src, bias, s) THEN [end |-> 0, value |-> 0]
               ELSE IF IsLastDigit(src, bias, s)
               THEN [end |-> s.x + 1, value |-> WithDigit(src, s)]
               ELSE Integer(src, bias)[NextDigit(src, bias, s)]
  BY <1>3, <1>4, IntegerUnfolds
<1> HIDE DEF s, old, digit, t, number
<1>9. \/ NoDigit(src, bias, s) /\ \E code \in {U_INVALID_CHAR_FOUND,
                                               U_ILLEGAL_CHAR_FOUND} : Fail(code)
      \/ /\ ~NoDigit(src, bias, s) /\ in' = in + 1 /\ i' = i + digit * w
         /\ UNCHANGED <<destLength, status>>
         /\ \/ digit < t /\ pc' = "insert"
            \/ /\ ~(digit < t) /\ pc' = "digit" /\ w' = w * (Base - t)
               /\ k' = k + Base
  <2>1. CASE RejectTruncated
    BY <1>7, <2>1 DEF RejectTruncated
  <2>2. CASE ReadDigit
    <3>1. in < Len(src) /\ in' = in + 1
      BY <2>2 DEF ReadDigit
    <3>2. ~(in >= Len(src))
      BY <1>3, <3>1
    <3>3. \/ Fail(U_INVALID_CHAR_FOUND) /\ digit < 0
          \/ Fail(U_ILLEGAL_CHAR_FOUND) /\ digit > (MaxInt - i) \div w
          \/ /\ Fail(U_ILLEGAL_CHAR_FOUND) /\ ~(digit < t)
             /\ w > MaxInt \div (Base - t)
          \/ /\ ~(digit < 0) /\ ~(digit > (MaxInt - i) \div w) /\ i' = i + digit * w
             /\ UNCHANGED <<destLength, status>>
             /\ \/ digit < t /\ pc' = "insert"
                \/ /\ ~(digit < t) /\ ~(w > MaxInt \div (Base - t))
                   /\ pc' = pc /\ w' = w * (Base - t) /\ k' = k + Base
      BY <2>2 DEF ReadDigit, NotADigit, DigitWouldOverflow, WeightWouldOverflow, digit, t
    <3> QED BY <1>2, <1>7, <3>1, <3>2, <3>3
  <2> QED BY <2>1, <2>2
<1>10. ASSUME NoDigit(src, bias, s),
              NEW code \in {U_INVALID_CHAR_FOUND, U_ILLEGAL_CHAR_FOUND}, Fail(code)
       PROVE  DecodesInv'
  <2>1. number = [end |-> 0, value |-> 0]
    BY <1>8, <1>10
  <2>2. NoInsertion(old, number)
    BY <2>1 DEF NoInsertion
  <2>3. DecodedPoints(src') = Malformed
    BY <1>2, <1>5, <2>2 DEF DecodingWith
  <2> QED BY <1>10, <2>3, FailureDecodes DEF Fail, Return
<1>11. ASSUME ~NoDigit(src, bias, s), in' = in + 1, i' = i + digit * w,
              UNCHANGED <<destLength, status>>, digit < t, pc' = "insert"
       PROVE  DecodesInv'
  <2>1. number = [end |-> in + 2, value |-> i']
    <3>1. number = [end |-> s.x + 1, value |-> i']
      BY <1>7, <1>8, <1>11
    <3>2. s.x + 1 = in + 2
      BY <1>3, <1>4
    <3> QED BY <3>1, <3>2
  <2>2. in' + 1 = in + 2
    BY <1>3, <1>11
  <2>3. Decodes(c)'
    BY <1>1, <1>2, <1>5, <1>6, <1>11, <2>1, <2>2 DEF Decodes, old
  <2> QED BY <1>2, <1>11, <2>3 DEF DecodesInv, InLoops
<1>12. ASSUME ~NoDigit(src, bias, s), in' = in + 1, i' = i + digit * w,
              UNCHANGED <<destLength, status>>, ~(digit < t), pc' = "digit",
              w' = w * (Base - t), k' = k + Base
       PROVE  DecodesInv'
  <2>1. number = Integer(src, bias)[NextDigit(src, bias, s)]
    BY <1>7, <1>8, <1>12
  <2>2. NextDigit(src, bias, s) = IntegerState'
    BY <1>4, <1>7, <1>12 DEF NextDigit, IntegerState, t
  <2>3. Decodes(c)'
    BY <1>1, <1>2, <1>5, <1>6, <1>12, <2>1, <2>2 DEF Decodes, old
  <2> QED BY <1>2, <1>12, <2>3 DEF DecodesInv, InLoops
<1> QED BY <1>9, <1>10, <1>11, <1>12

(* The end of the input is that of the definition.                         *)
LEMMA FinishDecodes ==
  ASSUME IInv, OutputInv, DecodesInv, Finish
  PROVE  DecodesInv'
<1>1. PICK c \in Seq(Nat) : Decodes(c)
  BY DEF DecodesInv, InLoops, Finish
<1> DEFINE b == LastDelimiter(src)
           s == StateOf(in, i, c)
<1>2. /\ pc = "next" /\ in >= Len(src) /\ pc' = "done" /\ status = U_ZERO_ERROR
      /\ status' = TerminateStatus(capacity, destLength, status)
      /\ UNCHANGED <<src, capacity, dest>>
  BY DEF Finish, Return, DecodesInv, InLoops
<1>3. /\ src \in Seq(Nat) /\ in \in Nat /\ n \in Nat /\ i \in Nat /\ bias \in Nat
      /\ Len(src) \in Nat /\ b \in Nat /\ in <= Len(src)
      /\ destLength \in Nat /\ capacity \in Nat
  BY <1>2, MaxCodePointIsNat, IntWidth, LastDelimiterIsIndex
     DEF IInv, NumbersInv, InputInv, InLoops, OutputInv
<1>4. s \in DecoderStates(src) /\ s.x > Len(src) /\ s.c = c
  BY <1>2, <1>3 DEF StateOf, DecoderStates
<1>5. DecodedPoints(src) = Decoding(src, b)[s]
  BY <1>1, <1>2 DEF Decodes
<1> HIDE DEF b, s
<1>6. DecodedPoints(src) = [ok |-> TRUE, text |-> c]
  BY <1>3, <1>4, <1>5, DecodingUnfolds
<1>7. CASE destLength > capacity
  BY <1>2, <1>3, <1>7
     DEF DecodesInv, InLoops, TerminateStatus, U_FAILURE, U_ZERO_ERROR
<1>8. CASE ~(destLength > capacity)
  <2>1. U_SUCCESS(status') = TRUE
    BY <1>2, <1>3, <1>8 DEF U_SUCCESS, TerminateStatus, U_FAILURE, U_ZERO_ERROR,
                            U_STRING_NOT_TERMINATED_WARNING
  <2>2. CodePoints(dest) = c
    BY <1>1, <1>3, <1>8 DEF Decodes
  <2> QED BY <1>2, <1>6, <2>1, <2>2 DEF DecodesInv, InLoops
<1> QED BY <1>7, <1>8

(* An insertion is the one of the definition.                              *)
LEMMA InsertDecodes ==
  ASSUME IInv, OutputInv, DecodesInv, Insert
  PROVE  DecodesInv'
<1>1. PICK c \in Seq(Nat) : Decodes(c)
  BY DEF DecodesInv, InLoops, Insert
<1> DEFINE b        == LastDelimiter(src)
           old      == StateOf(0, oldi, c)
           number   == [end |-> in + 1, value |-> i]
           count    == destCPCount + 1
           turns    == i \div count
           point    == n + turns
           position == i % count
           u        == Inserted(old, number, b)
           d        == u.c
<1>2. /\ pc = "insert" /\ destCPCount' = count
      /\ bias' = AdaptBias(i - oldi, count, oldi = 0)
      /\ UNCHANGED <<src, capacity, in, oldi>>
      /\ status = U_ZERO_ERROR
  BY DEF Insert, DecodesInv, InLoops
<1>3. /\ src \in Seq(Nat) /\ in \in Nat /\ n \in Nat /\ i \in Nat /\ oldi \in Nat
      /\ Len(src) \in Nat /\ in <= Len(src) /\ oldi <= i /\ destCPCount \in Nat
      /\ destLength \in Nat /\ capacity \in Nat /\ dest \in Seq(Nat)
      /\ bias \in Nat /\ b \in Nat /\ n <= MaxCodePoint /\ MaxCodePoint \in Nat
  BY <1>2, MaxCodePointIsNat, IntWidth, LastDelimiterIsIndex
     DEF IInv, NumbersInv, InputInv, InLoops, OutputInv
<1>4. /\ Len(c) = destCPCount /\ Len(c) >= b /\ (oldi = 0 <=> Len(c) = b)
      /\ DecodedPoints(src) = DecodingWith(src, old, number)
      /\ destLength <= capacity => CodePoints(dest) = c
  BY <1>1, <1>2 DEF Decodes
<1>5. /\ count \in Nat /\ count > 0 /\ turns \in Nat /\ position \in 0 .. destCPCount
  <2>1. count \in Nat /\ count > 0
    BY <1>3
  <2> HIDE DEF count
  <2>2. turns \in Nat /\ position \in 0 .. count - 1
    BY <1>3, <2>1, QuotientIsNat
  <2> QED BY <1>3, <2>1, <2>2 DEF count
<1>6. /\ old.c = c /\ old.n = n /\ old.i = oldi /\ old.x = 1
      /\ number.end = in + 1 /\ number.value = i
      /\ NextPoint(old, number) = point
  BY <1>4 DEF StateOf, NextPoint
<1>7. u = [x |-> in + 1, n |-> point, i |-> position + 1, bias |-> bias',
           c |-> SubSeq(c, 1, position) \o <<point>>
                   \o SubSeq(c, position + 1, Len(c))]
  <2>1. (Len(c) = b) = (oldi = 0)
    BY <1>4
  <2>2. u = LET length == Len(c) + 1
                place  == i % length
            IN  [x |-> in + 1, n |-> point, i |-> place + 1,
                 bias |-> AdaptBias(i - oldi, length, Len(c) = b),
                 c |-> SubSeq(c, 1, place) \o <<point>>
                         \o SubSeq(c, place + 1, Len(c))]
    <3> HIDE DEF old, number, point
    <3> QED BY <1>6, Zenon DEF Inserted
  <2> HIDE DEF u, b
  <2> QED BY <1>2, <1>4, <2>1, <2>2
<1>8. /\ d = SubSeq(c, 1, position) \o <<point>> \o SubSeq(c, position + 1, Len(c))
      /\ d \in Seq(Nat) /\ Len(d) = count
  <2>1. point \in Nat /\ position \in 0 .. Len(c)
    BY <1>3, <1>4, <1>5
  <2>2. d = SubSeq(c, 1, position) \o <<point>> \o SubSeq(c, position + 1, Len(c))
    <3> HIDE DEF u, position, point
    <3> QED BY <1>7
  <2> HIDE DEF d, position, point
  <2> QED BY <1>4, <2>1, <2>2, InsertionType
<1> HIDE DEF b, old, number, u, d
<1>9. PICK e \in Seq(Nat) :
         /\ e = SubSeq(c, 1, position) \o <<point>> \o SubSeq(c, position + 1, Len(c))
         /\ e = d /\ Len(e) = count
  BY <1>8, Zenon
<1>10. CASE turns > MaxInt - n \/ point > MaxCodePoint \/ IsSurrogate(point)
  <2>1. Fail(U_ILLEGAL_CHAR_FOUND)
    BY <1>10 DEF Insert
  <2>2. NoInsertion(old, number)
    <3>1. turns > MaxInt - n => point > MaxCodePoint
      <4> HIDE DEF turns
      <4> QED BY <1>3, <1>5, IntWidth
    <3> HIDE DEF point, turns
    <3> QED BY <1>6, <1>10, <3>1 DEF NoInsertion
  <2>3. DecodedPoints(src') = Malformed
    BY <1>2, <1>4, <2>2 DEF DecodingWith
  <2> QED BY <2>1, <2>3, FailureDecodes DEF Fail, Return
<1>11. CASE ~(turns > MaxInt - n \/ point > MaxCodePoint \/ IsSurrogate(point))
  <2>1. /\ n' = point /\ i' = position + 1 /\ pc' = "next" /\ status' = status
        /\ destLength' = destLength + U16_LENGTH(point)
    BY <1>11 DEF Insert
  <2>2. ~NoInsertion(old, number)
    <3>1. number.end # 0
      BY <1>3, <1>6
    <3> HIDE DEF point
    <3> QED BY <1>6, <1>11, <3>1 DEF NoInsertion
  <2>3. DecodedPoints(src) = Decoding(src, b)[u]
    BY <1>4, <2>2 DEF DecodingWith, b, u
  <2>4. u = StateOf(in, i, e)'
    <3> HIDE DEF point, position
    <3>1. u = [x |-> in + 1, n |-> point, i |-> position + 1, bias |-> bias', c |-> e]
      BY <1>7, <1>9
    <3> QED BY <1>2, <2>1, <3>1 DEF StateOf
  <2>5. destLength' <= capacity' => CodePoints(dest') = e
    <3> SUFFICES ASSUME destLength' <= capacity PROVE CodePoints(dest') = e
      BY <1>2
    <3>1. destLength <= capacity
      <4>1. U16_LENGTH(point) \in Nat
        BY DEF U16_LENGTH
      <4> HIDE DEF point
      <4> QED BY <1>3, <2>1, <4>1
    <3>2. InsertsCodePoint
      BY StepInserts DEF Step
    <3>3. CodePoints(dest') =
            SubSeq(c, 1, i % (destCPCount + 1)) \o <<n'>>
              \o SubSeq(c, (i % (destCPCount + 1)) + 1, Len(c))
      BY <1>2, <1>4, <2>1, <3>1, <3>2, Zenon DEF InsertsCodePoint
    <3> HIDE DEF point
    <3> QED BY <1>9, <2>1, <3>3
  <2>6. Decodes(e)'
    <3>1. (Len(e) = destCPCount /\ Len(e) >= LastDelimiter(src))'
      <4>1. Len(e) = destCPCount'
        BY <1>2, <1>9
      <4>2. destCPCount' >= b
        BY <1>2, <1>3, <1>4
      <4> QED BY <1>2, <4>1, <4>2 DEF b
    <3>2. i' # 0 /\ Len(e) # b
      <4>1. i' # 0
        <5> HIDE DEF position
        <5> QED BY <1>5, <2>1
      <4> QED BY <1>3, <1>4, <1>9, <4>1
    <3>3. (((IF pc = "next" THEN i ELSE oldi) = 0) <=> Len(e) = LastDelimiter(src))'
      BY <1>2, <2>1, <3>2 DEF b
    <3>4. (DecodedPoints(src) = Decoding(src, LastDelimiter(src))[StateOf(in, i, e)])'
      BY <1>2, <2>3, <2>4 DEF b
    <3> QED BY <2>1, <2>5, <3>1, <3>3, <3>4 DEF Decodes
  <2> QED BY <1>2, <1>9, <2>1, <2>6 DEF DecodesInv, InLoops
<1> QED BY <1>10, <1>11

(* Every step of a call does as the definition does.                       *)
LEMMA StepDecodes ==
  ASSUME IInv, OutputInv, DecodesInv, Step
  PROVE  DecodesInv'
BY BeginDecodes, DigitDecodes, InsertDecodes, FinishDecodes DEF Step
=============================================================================
