------------------------ MODULE PunycodeCodecProofs -------------------------
(***************************************************************************)
(* The encoder, and both functions as they are called.                     *)
(*                                                                         *)
(* The first part is about the encoder alone, for every width of an        *)
(* integer, every layout of the surrogates and every input.  The overflow  *)
(* check at the head of a round is the only one, and delta is incremented  *)
(* without a check during the round.  The argument: at the head of a round *)
(* handledCPCount counts the code points smaller than n, so                *)
(* "MaxInt - handledCPCount" leaves room for one increment per smaller     *)
(* code point; a round that was begun meets at least one code point equal  *)
(* to n, which resets delta; from there on delta counts smaller code       *)
(* points only.  HandledAreTheSmaller and NoSignedOverflow therefore need  *)
(* each other, and a statement about the middle of a round (ScanInv).      *)
(*                                                                         *)
(* The second part: what the encoder and the decoder keep, each on its     *)
(* own, they keep when they are called the way processLabel() calls them:  *)
(* with a second try after an overflow, and with the result of one as the  *)
(* input of the other.  The encoder must be given UTF-16, and that is what *)
(* the decoder makes unless it fails; the decoder takes what the encoder   *)
(* has written.                                                            *)
(***************************************************************************)
EXTENDS PunycodeCodec, PunycodeProofs

Positions == DOMAIN cpBuffer
Smaller   == {x \in Positions : cpBuffer[x] < n}
Ahead     == {x \in Positions : x > j /\ cpBuffer[x] < n}
Passed    == {x \in Positions : x <= j /\ cpBuffer[x] < n}
Equal     == {x \in Positions : x <= j /\ cpBuffer[x] = n}
Basic     == {x \in Positions : cpBuffer[x] < InitialN}

InLoops == pc \in {"copy", "round", "scan", "integer"}

BuffersInv ==
  /\ src \in Seq(CodeUnit)
  /\ cpBuffer \in Seq(0 .. MaxCodePoint)
  /\ Len(dest) <= capacity
  /\ InLoops => Len(src) <= EncodeMaxCodeUnits /\ Len(cpBuffer) <= Len(src)

CopyInv ==
  pc = "copy" =>
    /\ j <= Len(src)
    /\ Len(cpBuffer) <= j
    /\ destLength = Cardinality(Basic)

RoundInv ==
  pc = "round" =>
    /\ n <= MaxCodePoint + 1
    /\ handledCPCount = Cardinality(Smaller)
    /\ delta <= handledCPCount

ScanInv ==
  pc \in {"scan", "integer"} =>
    /\ j <= Len(cpBuffer)
    /\ n <= MaxCodePoint
    /\ \E x \in Positions : cpBuffer[x] = n
    /\ handledCPCount = Cardinality(Smaller \cup Equal)
    /\ IF Equal = {} THEN delta + Cardinality(Ahead) <= MaxInt
                     ELSE delta <= Cardinality(Passed)
    /\ pc = "integer" => j < Len(cpBuffer) /\ cpBuffer[j + 1] = n

IInv == TypeOK /\ BuffersInv /\ CopyInv /\ RoundInv /\ ScanInv

-----------------------------------------------------------------------------
(* Sets of positions are finite, and no larger than the buffer.            *)
LEMMA PositionsAreFinite ==
  ASSUME BuffersInv, NEW S \in SUBSET Positions
  PROVE  /\ IsFiniteSet(S)
         /\ Cardinality(S) \in Nat
         /\ Cardinality(S) <= Len(cpBuffer)
<1>1. Len(cpBuffer) \in Nat /\ Positions = 1 .. Len(cpBuffer)
  BY DEF BuffersInv, Positions
<1>2. /\ IsFiniteSet(1 .. Len(cpBuffer))
      /\ Cardinality(1 .. Len(cpBuffer)) = Len(cpBuffer)
  <2>1. 1 \in Int /\ Len(cpBuffer) \in Int
    BY <1>1
  <2>2. /\ IsFiniteSet(1 .. Len(cpBuffer))
        /\ Cardinality(1 .. Len(cpBuffer)) =
             IF 1 > Len(cpBuffer) THEN 0 ELSE Len(cpBuffer) - 1 + 1
    BY <2>1, FS_Interval, Zenon
  <2> QED BY <1>1, <2>2
<1>3. IsFiniteSet(S) /\ Cardinality(S) <= Len(cpBuffer)
  BY <1>1, <1>2, FS_Subset
<1> QED BY <1>3, FS_CardinalityType

(* The positions are the indexes of the buffer, and it holds numbers.      *)
LEMMA PositionsAreIndexes ==
  ASSUME IInv
  PROVE  /\ Positions = 1 .. Len(cpBuffer) /\ Len(cpBuffer) \in Nat
         /\ \A x \in Positions : cpBuffer[x] \in Nat
BY DEF IInv, TypeOK, BuffersInv, Positions

(* The encoder starts in the invariant.                                    *)
LEMMA InitInv == Init => IInv
BY DEF Init, IInv, TypeOK, BuffersInv, CopyInv, RoundInv, ScanInv, InLoops,
       U_ZERO_ERROR

(* What a call leaves behind: the loops over src begin with empty buffers. *)
LEMMA CallInv ==
  ASSUME IInv, NEW s \in Seq(CodeUnit), NEW c \in Nat, Call(s, c)
  PROVE  IInv'
<1>1. MaxInt \in Nat
  BY IntWidth
<1>2. s \in Seq(Nat) /\ Len(s) \in Nat
  BY SurrogateLayout DEF CodeUnit
<1>3. TypeOK' /\ BuffersInv'
  <2>1. dest' = <<>> /\ cpBuffer' = <<>> /\ src' = s /\ capacity' = c /\ j' = 0
    BY DEF Call
  <2>2. /\ destLength' = 0 /\ status' \in Int
        /\ pc' \in {"copy", "done"}
        /\ pc' = "copy" => Len(s) <= EncodeMaxCodeUnits
    BY <1>2 DEF Call, Fail, Return, U_ZERO_ERROR, U_INPUT_TOO_LONG_ERROR,
       EncodeMaxCodeUnits
  <2>3. UNCHANGED numbers
    BY DEF Call
  <2>4. TypeOK'
    BY <1>1, <1>2, <2>1, <2>2, <2>3 DEF IInv, TypeOK, numbers
  <2>5. <<>> \in Seq(0 .. MaxCodePoint) /\ Len(<<>>) = 0
    OBVIOUS
  <2>6. BuffersInv'
    BY <1>1, <1>2, <2>1, <2>2, <2>5 DEF BuffersInv, InLoops
  <2> QED BY <2>4, <2>6
<1>4. CopyInv'
  <2>1. Basic' = {} /\ Len(cpBuffer') = 0
    BY DEF Call, Basic, Positions
  <2> QED BY <1>2, <2>1, FS_EmptySet DEF Call, CopyInv, Fail, Return
<1>5. RoundInv' /\ ScanInv'
  BY DEF Call, RoundInv, ScanInv, Fail, Return
<1> QED BY <1>3, <1>4, <1>5 DEF IInv

(* Writing keeps the buffer within its capacity.                           *)
LEMMA WriteType ==
  ASSUME IInv, NEW t \in Seq(Nat), Write(t)
  PROVE  /\ dest' \in Seq(Nat)
         /\ Len(dest') <= capacity
         /\ destLength' = destLength + Len(t)
         /\ destLength' \in Nat
<1>1. dest \in Seq(Nat) /\ capacity \in Nat /\ Len(dest) <= capacity
      /\ destLength \in Nat
  BY DEF IInv, TypeOK, BuffersInv
<1>2. dest' = Store(dest, capacity, t) /\ destLength' = destLength + Len(t)
  BY DEF Write
<1> QED BY <1>1, <1>2, StoreType

-----------------------------------------------------------------------------
(* A basic code point is one more of the positions that hold 0.            *)
LEMMA CopyBasicInv == ASSUME IInv, CopyBasic PROVE IInv'
<1>1. /\ pc = "copy" /\ j < Len(src) /\ src[j + 1] \in Nat
      /\ cpBuffer' = Append(cpBuffer, 0)
      /\ j' = j + 1
      /\ Write(<<src[j + 1]>>)
      /\ UNCHANGED <<pc, src, capacity, status>> /\ UNCHANGED numbers
  BY DEF CopyBasic, IInv, TypeOK
<1>2. /\ dest' \in Seq(Nat) /\ Len(dest') <= capacity
      /\ destLength' = destLength + 1 /\ destLength' \in Nat
  <2>1. <<src[j + 1]>> \in Seq(Nat) /\ Len(<<src[j + 1]>>) = 1
    BY <1>1
  <2> QED BY <1>1, <2>1, WriteType
<1>3. 0 \in 0 .. MaxCodePoint
  BY MaxCodePointIsNat
<1>4. /\ cpBuffer' \in Seq(0 .. MaxCodePoint) /\ cpBuffer' \in Seq(Nat)
      /\ Len(cpBuffer') = Len(cpBuffer) + 1
  BY <1>1, <1>3 DEF IInv, TypeOK, BuffersInv
<1>5. TypeOK'
  BY <1>1, <1>2, <1>4 DEF IInv, TypeOK, numbers
<1>6. BuffersInv'
  BY <1>1, <1>2, <1>4 DEF IInv, TypeOK, BuffersInv, CopyInv, InLoops
<1>7. Basic' = Basic \cup {Len(cpBuffer) + 1} /\ Len(cpBuffer) + 1 \notin Basic
  BY <1>1, <1>4 DEF IInv, BuffersInv, Basic, Positions, InitialN
<1>8. Cardinality(Basic') = Cardinality(Basic) + 1
  <2>1. IsFiniteSet(Basic)
    BY PositionsAreFinite DEF IInv, Basic
  <2> QED BY <1>7, <2>1, FS_AddElement
<1>9. CopyInv' /\ RoundInv' /\ ScanInv'
  BY <1>1, <1>2, <1>4, <1>8 DEF IInv, TypeOK, CopyInv, RoundInv, ScanInv
<1> QED BY <1>5, <1>6, <1>9 DEF IInv

(* Another code point is one of its own value, at least InitialN.          *)
LEMMA CopyExtendedInv == ASSUME IInv, CopyExtended PROVE IInv'
<1> DEFINE c == CodePointAt(src, j)
<1>1. /\ pc = "copy" /\ j < Len(src) /\ src[j + 1] >= InitialN
      /\ IsSurrogate(src[j + 1]) => StartsPair(src, j)
      /\ cpBuffer' = Append(cpBuffer, c)
      /\ j' \in {j + 1, j + 2} /\ j' <= Len(src)
      /\ UNCHANGED <<pc, src, capacity, dest, destLength, status>>
      /\ UNCHANGED numbers
  BY DEF CopyExtended, IInv, TypeOK, IsBasic, InitialN, StartsPair
<1>2. c \in InitialN .. MaxCodePoint
  <2>1. src \in Seq(CodeUnit) /\ src[j + 1] \in CodeUnit /\ j \in Nat
    BY <1>1 DEF IInv, TypeOK, BuffersInv
  <2>2. CASE StartsPair(src, j)
    <3>1. src[j + 1] \in Nat /\ src[j + 2] \in Nat
      BY <2>1, <2>2, SurrogateLayout DEF StartsPair, IInv, TypeOK
    <3>2. c \in FirstSupplementary .. MaxCodePoint
      BY <2>2, <3>1, PairIsSupplementary DEF StartsPair, CodePointAt
    <3> QED BY <3>2, SurrogateLayout, MaxCodePointIsNat DEF InitialN
  <2>3. CASE ~StartsPair(src, j)
    BY <1>1, <2>1, <2>3, SurrogateLayout, MaxCodePointIsNat
       DEF CodePointAt, CodeUnit, InitialN
  <2> QED BY <2>2, <2>3
<1>3. /\ cpBuffer' \in Seq(0 .. MaxCodePoint) /\ cpBuffer' \in Seq(Nat)
      /\ Len(cpBuffer') = Len(cpBuffer) + 1
  BY <1>1, <1>2 DEF IInv, TypeOK, BuffersInv, InitialN
<1>4. TypeOK'
  BY <1>1, <1>3 DEF IInv, TypeOK, numbers
<1>5. BuffersInv'
  BY <1>1, <1>3 DEF IInv, TypeOK, BuffersInv, CopyInv, InLoops
<1>6. Basic' = Basic
  BY <1>1, <1>2, <1>3 DEF IInv, BuffersInv, Basic, Positions, InitialN
<1>7. CopyInv' /\ RoundInv' /\ ScanInv'
  BY <1>1, <1>3, <1>6 DEF IInv, TypeOK, CopyInv, RoundInv, ScanInv
<1> QED BY <1>4, <1>5, <1>7 DEF IInv

(* A call that fails has no loop left to be in.                            *)
LEMMA FailInv ==
  ASSUME IInv, NEW code \in Int, NEW length \in Nat, Return(code, length),
         UNCHANGED <<src, capacity, dest, cpBuffer, numbers, j>>
  PROVE  IInv'
BY DEF IInv, Return, TypeOK, BuffersInv, CopyInv, RoundInv, ScanInv, InLoops,
       numbers

(* The first round: the smaller code points are the basic ones.            *)
LEMMA FinishBasicInv == ASSUME IInv, FinishBasic PROVE IInv'
<1> DEFINE t == IF destLength > 0 THEN <<Delimiter>> ELSE <<>>
<1>1. /\ pc = "copy" /\ pc' = "round"
      /\ basicLength' = destLength /\ handledCPCount' = destLength
      /\ Write(t)
      /\ n' = InitialN /\ delta' = 0 /\ bias' = InitialBias
      /\ UNCHANGED <<src, capacity, cpBuffer, j, q, k, status>>
  BY DEF FinishBasic
<1>2. t \in Seq(Nat)
  BY DEF Delimiter
<1>3. dest' \in Seq(Nat) /\ Len(dest') <= capacity /\ destLength' \in Nat
  <2> HIDE DEF t
  <2> QED BY <1>1, <1>2, WriteType
<1>4. TypeOK' /\ BuffersInv'
  BY <1>1, <1>3 DEF IInv, TypeOK, BuffersInv, InLoops, InitialN, InitialBias
<1>5. Smaller' = Basic
  BY <1>1 DEF Smaller, Basic, Positions
<1>6. RoundInv'
  BY <1>1, <1>5, SurrogateLayout, MaxCodePointIsNat
     DEF IInv, TypeOK, CopyInv, RoundInv, InitialN
<1>7. CopyInv' /\ ScanInv'
  BY <1>1 DEF CopyInv, ScanInv
<1> QED BY <1>4, <1>6, <1>7 DEF IInv

-----------------------------------------------------------------------------
(* As long as some position is not handled, the next code point is one of  *)
(* them: none lies in between, so the smaller ones stay the same.          *)
LEMMA NextCodePointIsLeast ==
  ASSUME IInv, pc = "round", handledCPCount < Len(cpBuffer)
  PROVE  /\ NextCodePoint \in n .. MaxCodePoint
         /\ \E x \in Positions : cpBuffer[x] = NextCodePoint
         /\ \A x \in Positions :
              cpBuffer[x] < n <=> cpBuffer[x] < NextCodePoint
<1> DEFINE values == {cpBuffer[x] : x \in DOMAIN cpBuffer}
           left   == values \cap (n .. MaxInt - 1)
<1>1. /\ \A x \in Positions : cpBuffer[x] \in 0 .. MaxCodePoint
      /\ MaxCodePoint \in Nat /\ MaxInt \in Nat /\ MaxCodePoint < MaxInt
      /\ n \in Nat
  BY IntWidth, MaxCodePointIsNat DEF IInv, TypeOK, BuffersInv, Positions
<1>2. \E x \in Positions : cpBuffer[x] >= n
  <2> SUFFICES ASSUME \A x \in Positions : cpBuffer[x] < n
               PROVE  FALSE
    BY <1>1
  <2>1. Smaller = Positions /\ Positions = 1 .. Len(cpBuffer)
    <3>1. Smaller = Positions
      BY DEF Smaller
    <3>2. Positions = 1 .. Len(cpBuffer)
      BY DEF Positions, IInv, BuffersInv
    <3> QED BY <3>1, <3>2
  <2>2. Len(cpBuffer) \in Nat
    BY DEF IInv, BuffersInv
  <2>3. Cardinality(1 .. Len(cpBuffer)) = Len(cpBuffer)
    <3>1. 1 \in Int /\ Len(cpBuffer) \in Int
      BY <2>2
    <3>2. Cardinality(1 .. Len(cpBuffer)) =
            IF 1 > Len(cpBuffer) THEN 0 ELSE Len(cpBuffer) - 1 + 1
      BY <3>1, FS_Interval, Zenon
    <3> QED BY <2>2, <3>2
  <2> QED BY <2>1, <2>2, <2>3 DEF IInv, RoundInv
<1>3. left # {} /\ left \subseteq Nat
  BY <1>1, <1>2 DEF Positions
<1>4. \E m \in left : \A y \in left : m <= y
  <2> HIDE DEF left
  <2> QED BY <1>3, NatHasLeast
<1>5. NextCodePoint \in left /\ \A y \in left : NextCodePoint <= y
  <2>1. NextCodePoint = CHOOSE m \in left : \A y \in left : m <= y
    BY <1>3, Zenon DEF NextCodePoint
  <2> HIDE DEF left
  <2> QED BY <1>4, <2>1
<1> HIDE DEF NextCodePoint
<1>6. /\ NextCodePoint \in n .. MaxCodePoint
      /\ \E x \in Positions : cpBuffer[x] = NextCodePoint
  BY <1>1, <1>5 DEF Positions
<1>7. \A x \in Positions : cpBuffer[x] < n <=> cpBuffer[x] < NextCodePoint
  BY <1>1, <1>5, <1>6 DEF Positions
<1> QED BY <1>6, <1>7

(* The check at the head of a round leaves room for one increment of delta *)
(* per smaller code point.                                                 *)
LEMMA BeginRoundInv == ASSUME IInv, BeginRound PROVE IInv'
<1> DEFINE m == NextCodePoint
<1>1. /\ pc = "round" /\ pc' = "scan" /\ j' = 0 /\ n' = m
      /\ handledCPCount < Len(cpBuffer)
      /\ ~DeltaWouldOverflow(m)
      /\ delta' = delta + (m - n) * (handledCPCount + 1)
      /\ UNCHANGED <<src, capacity, dest, destLength, cpBuffer, basicLength, bias,
                     handledCPCount, q, k, status>>
  BY DEF BeginRound
<1>2. /\ m \in n .. MaxCodePoint
      /\ \E x \in Positions : cpBuffer[x] = m
      /\ \A x \in Positions : cpBuffer[x] < n <=> cpBuffer[x] < m
  BY <1>1, NextCodePointIsLeast
<1> HIDE DEF m
<1>3. /\ n \in Nat /\ delta \in Nat /\ handledCPCount \in Nat
      /\ delta <= handledCPCount /\ MaxInt \in Nat
      /\ handledCPCount = Cardinality(Smaller)
      /\ m \in Nat /\ m - n \in Nat
  BY <1>1, <1>2, IntWidth, MaxCodePointIsNat DEF IInv, TypeOK, RoundInv
<1>4. MaxInt - handledCPCount - delta \in Nat
  <2>1. handledCPCount <= EncodeMaxCodeUnits
    BY <1>1, <1>3 DEF IInv, BuffersInv, InLoops, EncodeMaxCodeUnits
  <2> QED BY <1>3, <2>1, IntWidth DEF EncodeMaxCodeUnits
<1>5. (m - n) * (handledCPCount + 1) <= MaxInt - handledCPCount - delta
  <2>1. m - n <= (MaxInt - handledCPCount - delta) \div (handledCPCount + 1)
    <3>1. (MaxInt - handledCPCount - delta) \div (handledCPCount + 1) \in Nat
      BY <1>3, <1>4, QuotientIsNat
    <3> QED BY <1>1, <1>3, <3>1 DEF DeltaWouldOverflow
  <2>2. handledCPCount + 1 \in Nat /\ handledCPCount + 1 > 0
    BY <1>3
  <2> QED BY <1>3, <1>4, <2>1, <2>2, QuotientBoundsProduct
<1>6. (m - n) * (handledCPCount + 1) \in Nat
  BY <1>3
<1>7. delta' \in Nat /\ delta' + handledCPCount <= MaxInt
  <2> DEFINE gap == (m - n) * (handledCPCount + 1)
  <2>1. gap \in Nat /\ gap <= MaxInt - handledCPCount - delta
        /\ delta' = delta + gap
    BY <1>1, <1>5, <1>6
  <2> HIDE DEF gap
  <2> QED BY <1>3, <2>1
<1>8. TypeOK' /\ BuffersInv'
  BY <1>1, <1>3, <1>7 DEF IInv, TypeOK, BuffersInv, InLoops
<1>9. /\ Equal' = {} /\ Ahead' = Smaller
      /\ (Smaller \cup Equal)' = Smaller
      /\ Positions' = Positions
  BY <1>1, <1>2 DEF Equal, Ahead, Smaller, Positions, IInv, BuffersInv
<1>10. ScanInv'
  <2>1. j' <= Len(cpBuffer') /\ n' <= MaxCodePoint
    BY <1>1, <1>2, <1>3, MaxCodePointIsNat DEF IInv, BuffersInv
  <2>2. (\E x \in Positions : cpBuffer[x] = n)'
    BY <1>1, <1>2 DEF Positions
  <2>3. handledCPCount' = Cardinality((Smaller \cup Equal)')
    BY <1>1, <1>3, <1>9
  <2>4. Equal' = {} /\ delta' + Cardinality(Ahead') <= MaxInt
    BY <1>3, <1>7, <1>9
  <2> QED BY <1>1, <2>1, <2>2, <2>3, <2>4 DEF ScanInv
<1>11. CopyInv' /\ RoundInv'
  BY <1>1 DEF CopyInv, RoundInv
<1> QED BY <1>8, <1>10, <1>11 DEF IInv

-----------------------------------------------------------------------------
(* A smaller code point moves from the ones ahead to the ones passed.      *)
LEMMA ScanSmallerInv == ASSUME IInv, ScanSmaller PROVE IInv'
<1>1. /\ pc = "scan" /\ j < Len(cpBuffer) /\ cpBuffer[j + 1] < n
      /\ delta' = delta + 1 /\ j' = j + 1
      /\ UNCHANGED <<pc, src, capacity, dest, destLength, cpBuffer, basicLength,
                     n, bias, handledCPCount, q, k, status>>
  BY DEF ScanSmaller
<1>2. TypeOK' /\ BuffersInv'
  BY <1>1 DEF IInv, TypeOK, BuffersInv, InLoops
<1>3. /\ Positions = 1 .. Len(cpBuffer) /\ Len(cpBuffer) \in Nat
      /\ j \in Nat /\ n \in Nat /\ delta \in Nat /\ j + 1 \in Positions
      /\ \A x \in Positions : cpBuffer[x] \in Nat
      /\ MaxInt \in Nat
  BY <1>1, IntWidth DEF IInv, TypeOK, BuffersInv, Positions
<1>4. /\ Ahead' = Ahead \ {j + 1} /\ j + 1 \in Ahead
      /\ Passed' = Passed \cup {j + 1} /\ j + 1 \notin Passed
      /\ Equal' = Equal /\ Smaller' = Smaller
  BY <1>1, <1>3 DEF Ahead, Passed, Equal, Smaller, Positions
<1>5. IsFiniteSet(Ahead) /\ Cardinality(Ahead) \in Nat
      /\ IsFiniteSet(Passed) /\ Cardinality(Passed) \in Nat
  BY PositionsAreFinite DEF IInv, Ahead, Passed
<1>6. /\ Cardinality(Ahead') = Cardinality(Ahead) - 1
      /\ Cardinality(Passed') = Cardinality(Passed) + 1
  BY <1>4, <1>5, FS_RemoveElement, FS_AddElement
<1>7. ScanInv'
  <2>1. /\ j <= Len(cpBuffer) /\ n <= MaxCodePoint
        /\ \E x \in Positions : cpBuffer[x] = n
        /\ handledCPCount = Cardinality(Smaller \cup Equal)
        /\ IF Equal = {} THEN delta + Cardinality(Ahead) <= MaxInt
                         ELSE delta <= Cardinality(Passed)
    BY <1>1 DEF IInv, ScanInv
  <2> DEFINE ahead == Cardinality(Ahead)  passed == Cardinality(Passed)
             aheadNow == Cardinality(Ahead')  passedNow == Cardinality(Passed')
  <2>5. /\ ahead \in Nat /\ passed \in Nat
        /\ aheadNow = ahead - 1 /\ passedNow = passed + 1
        /\ IF Equal = {} THEN delta + ahead <= MaxInt ELSE delta <= passed
    BY <1>5, <1>6, <2>1
  <2>2. IF Equal' = {} THEN delta' + aheadNow <= MaxInt ELSE delta' <= passedNow
    <3> HIDE DEF ahead, passed, aheadNow, passedNow
    <3>1. /\ delta' = delta + 1 /\ Equal' = Equal
          /\ delta \in Nat /\ MaxInt \in Nat
      BY <1>1, <1>3, <1>4
    <3>2. CASE Equal = {}
      BY <2>5, <3>1, <3>2
    <3>3. CASE Equal # {}
      BY <2>5, <3>1, <3>3
    <3> QED BY <3>2, <3>3
  <2>3. handledCPCount' = Cardinality((Smaller \cup Equal)')
    BY <1>1, <1>4, <2>1
  <2>4. (\E x \in Positions : cpBuffer[x] = n)' /\ j' <= Len(cpBuffer')
    BY <1>1, <1>3, <2>1 DEF Positions
  <2> QED BY <1>1, <2>1, <2>2, <2>3, <2>4 DEF ScanInv
<1>8. CopyInv' /\ RoundInv'
  BY <1>1 DEF CopyInv, RoundInv
<1> QED BY <1>2, <1>7, <1>8 DEF IInv

(* A larger one is passed without a trace.                                 *)
LEMMA ScanLargerInv == ASSUME IInv, ScanLarger PROVE IInv'
<1>1. /\ pc = "scan" /\ j < Len(cpBuffer) /\ cpBuffer[j + 1] > n
      /\ j' = j + 1
      /\ UNCHANGED <<pc, src, capacity, dest, destLength, cpBuffer, status>>
      /\ UNCHANGED numbers
  BY DEF ScanLarger
<1>2. TypeOK' /\ BuffersInv'
  BY <1>1 DEF IInv, TypeOK, BuffersInv, InLoops, numbers
<1>3. /\ Positions = 1 .. Len(cpBuffer) /\ Len(cpBuffer) \in Nat
      /\ j \in Nat /\ n \in Nat
      /\ \A x \in Positions : cpBuffer[x] \in Nat
  BY PositionsAreIndexes DEF IInv, TypeOK
<1>4. /\ Ahead' = Ahead /\ Passed' = Passed
      /\ Equal' = Equal /\ Smaller' = Smaller
  BY <1>1, <1>3 DEF Ahead, Passed, Equal, Smaller, Positions, numbers
<1>5. ScanInv'
  BY <1>1, <1>3, <1>4 DEF IInv, ScanInv, Positions, numbers
<1>6. CopyInv' /\ RoundInv'
  BY <1>1 DEF CopyInv, RoundInv
<1> QED BY <1>2, <1>5, <1>6 DEF IInv

(* The integer's digits do not touch what the scan counts.                 *)
LEMMA ScanEqualInv == ASSUME IInv, ScanEqual PROVE IInv'
<1>1. /\ pc = "scan" /\ j < Len(cpBuffer) /\ cpBuffer[j + 1] = n
      /\ q' = delta /\ k' = Base /\ pc' = "integer"
      /\ UNCHANGED <<src, capacity, dest, destLength, cpBuffer, basicLength, n,
                     delta, bias, handledCPCount, j, status>>
  BY DEF ScanEqual
<1>2. TypeOK' /\ BuffersInv'
  BY <1>1 DEF IInv, TypeOK, BuffersInv, InLoops, Base
<1>3. ScanInv'
  BY <1>1 DEF IInv, ScanInv, Positions, Ahead, Passed, Equal, Smaller
<1>4. CopyInv' /\ RoundInv'
  BY <1>1 DEF CopyInv, RoundInv
<1> QED BY <1>2, <1>3, <1>4 DEF IInv

(* A digit that is not the last leaves q a smaller number, and the scan    *)
(* where it is.                                                            *)
LEMMA WriteDigitInv == ASSUME IInv, WriteDigit PROVE IInv'
<1> DEFINE t == Threshold(k, bias)
           digit == t + ((q - t) % (Base - t))
<1>1. /\ pc = "integer" /\ q >= t
      /\ Write(<<DigitToBasic(digit)>>)
      /\ q' = (q - t) \div (Base - t)
      /\ k' = k + Base
      /\ UNCHANGED <<pc, src, capacity, cpBuffer, basicLength, n, delta, bias,
                     handledCPCount, j, status>>
  BY DEF WriteDigit
<1>2. t \in TMin .. TMax /\ q \in Nat /\ k \in Nat
  BY ThresholdRange DEF IInv, TypeOK
<1>3. q' \in Nat /\ <<DigitToBasic(digit)>> \in Seq(Nat)
  <2> HIDE DEF t
  <2>1. q - t \in Nat /\ Base - t \in Nat /\ Base - t > 0
    BY <1>1, <1>2 DEF Base, TMin, TMax
  <2>2. (q - t) \div (Base - t) \in Nat /\ (q - t) % (Base - t) \in Nat
    BY <2>1, QuotientIsNat
  <2>3. digit \in Nat
    BY <1>2, <2>2 DEF TMin, TMax
  <2> HIDE DEF digit
  <2>4. DigitToBasic(digit) \in Nat
    BY <2>3 DEF DigitToBasic
  <2> QED BY <1>1, <2>2, <2>4
<1> HIDE DEF digit
<1>4. dest' \in Seq(Nat) /\ Len(dest') <= capacity /\ destLength' \in Nat
  BY <1>1, <1>3, WriteType
<1> HIDE DEF t
<1>5. TypeOK' /\ BuffersInv'
  BY <1>1, <1>2, <1>3, <1>4 DEF IInv, TypeOK, BuffersInv, InLoops, Base
<1>6. ScanInv'
  BY <1>1 DEF IInv, ScanInv, Positions, Ahead, Passed, Equal, Smaller
<1>7. CopyInv' /\ RoundInv'
  BY <1>1 DEF CopyInv, RoundInv
<1> QED BY <1>5, <1>6, <1>7 DEF IInv

(* The code point that has been written is one more of the equal ones, and *)
(* delta starts again from 0.                                              *)
LEMMA WriteLastDigitInv == ASSUME IInv, WriteLastDigit PROVE IInv'
<1>1. /\ pc = "integer" /\ pc' = "scan" /\ q < Threshold(k, bias)
      /\ Write(<<DigitToBasic(q)>>)
      /\ bias' = AdaptBias(delta, handledCPCount + 1,
                           handledCPCount = basicLength)
      /\ delta' = 0 /\ handledCPCount' = handledCPCount + 1 /\ j' = j + 1
      /\ UNCHANGED <<src, capacity, cpBuffer, basicLength, n, q, k, status>>
  BY DEF WriteLastDigit
<1>2. bias' \in Nat
  <2>1. /\ delta \in Nat /\ handledCPCount + 1 \in Nat
        /\ handledCPCount + 1 > 0
        /\ (handledCPCount = basicLength) \in BOOLEAN
    BY DEF IInv, TypeOK
  <2> QED BY <1>1, <2>1, AdaptBiasIsNat
<1>3. dest' \in Seq(Nat) /\ Len(dest') <= capacity /\ destLength' \in Nat
  <2>1. <<DigitToBasic(q)>> \in Seq(Nat)
    BY DEF IInv, TypeOK, DigitToBasic
  <2> QED BY <1>1, <2>1, WriteType
<1>4. TypeOK' /\ BuffersInv'
  BY <1>1, <1>2, <1>3 DEF IInv, TypeOK, BuffersInv, InLoops
<1>5. /\ Positions = 1 .. Len(cpBuffer) /\ Len(cpBuffer) \in Nat
      /\ j \in Nat /\ n \in Nat /\ j < Len(cpBuffer) /\ j + 1 \in Positions
      /\ cpBuffer[j + 1] = n
      /\ \A x \in Positions : cpBuffer[x] \in Nat
  <2>1. j < Len(cpBuffer) /\ cpBuffer[j + 1] = n /\ j \in Nat /\ n \in Nat
    BY <1>1 DEF IInv, TypeOK, ScanInv
  <2>2. /\ Positions = 1 .. Len(cpBuffer) /\ Len(cpBuffer) \in Nat
        /\ \A x \in Positions : cpBuffer[x] \in Nat
    BY PositionsAreIndexes
  <2> QED BY <2>1, <2>2
<1>6. /\ Equal' = Equal \cup {j + 1} /\ Smaller' = Smaller
      /\ j + 1 \notin Equal /\ j + 1 \notin Smaller
  BY <1>1, <1>5 DEF Equal, Smaller, Positions
<1>7. Cardinality((Smaller \cup Equal)') = Cardinality(Smaller \cup Equal) + 1
  <2>1. IsFiniteSet(Smaller \cup Equal)
    BY PositionsAreFinite DEF IInv, Smaller, Equal
  <2>2. /\ (Smaller \cup Equal)' = (Smaller \cup Equal) \cup {j + 1}
        /\ j + 1 \notin Smaller \cup Equal
    BY <1>6
  <2> QED BY <2>1, <2>2, FS_AddElement
<1>8. Cardinality(Passed') \in Nat
  <2>1. Passed' = {x \in Positions : x <= j + 1 /\ cpBuffer[x] < n}
    BY <1>1 DEF Passed, Positions
  <2>2. {x \in Positions : x <= j + 1 /\ cpBuffer[x] < n} \in SUBSET Positions
    OBVIOUS
  <2> QED BY <2>1, <2>2, PositionsAreFinite DEF IInv
<1>9. ScanInv'
  <2>1. /\ n <= MaxCodePoint
        /\ \E x \in Positions : cpBuffer[x] = n
        /\ handledCPCount = Cardinality(Smaller \cup Equal)
    BY <1>1 DEF IInv, ScanInv
  <2>2. Equal' # {} /\ delta' <= Cardinality(Passed')
    BY <1>1, <1>6, <1>8
  <2>3. (\E x \in Positions : cpBuffer[x] = n)' /\ j' <= Len(cpBuffer')
    BY <1>1, <1>5, <2>1 DEF Positions
  <2> QED BY <1>1, <1>7, <2>1, <2>2, <2>3 DEF ScanInv
<1>10. CopyInv' /\ RoundInv'
  BY <1>1 DEF CopyInv, RoundInv
<1> QED BY <1>4, <1>9, <1>10 DEF IInv

(* The code points equal to n become smaller ones.  There was at least     *)
(* one, so that delta stays below the count of the handled ones.           *)
LEMMA EndRoundInv == ASSUME IInv, EndRound PROVE IInv'
<1>1. /\ pc = "scan" /\ pc' = "round" /\ j = Len(cpBuffer)
      /\ delta' = delta + 1 /\ n' = n + 1
      /\ UNCHANGED <<src, capacity, dest, destLength, cpBuffer, basicLength, bias,
                     handledCPCount, j, q, k, status>>
  BY DEF EndRound
<1>2. TypeOK' /\ BuffersInv'
  BY <1>1 DEF IInv, TypeOK, BuffersInv, InLoops
<1>3. /\ Positions = 1 .. Len(cpBuffer) /\ Len(cpBuffer) \in Nat
      /\ n \in Nat /\ delta \in Nat
      /\ \A x \in Positions : cpBuffer[x] \in Nat
  BY <1>1 DEF IInv, TypeOK, BuffersInv, Positions
<1>4. /\ n <= MaxCodePoint
      /\ \E x \in Positions : cpBuffer[x] = n
      /\ handledCPCount = Cardinality(Smaller \cup Equal)
      /\ Equal # {} => delta <= Cardinality(Passed)
  BY <1>1 DEF IInv, ScanInv
<1>5. /\ Passed = Smaller /\ Equal # {} /\ Smaller \cap Equal = {}
      /\ Smaller' = Smaller \cup Equal
  BY <1>1, <1>3, <1>4 DEF Passed, Smaller, Equal, Positions
<1>6. Cardinality(Smaller) < Cardinality(Smaller \cup Equal)
  <2>1. IsFiniteSet(Smaller \cup Equal)
    BY PositionsAreFinite DEF IInv, Smaller, Equal
  <2>2. Smaller \in SUBSET (Smaller \cup Equal) /\ Smaller # Smaller \cup Equal
    BY <1>5
  <2>3. /\ Cardinality(Smaller) <= Cardinality(Smaller \cup Equal)
        /\ Cardinality(Smaller) # Cardinality(Smaller \cup Equal)
    BY <2>1, <2>2, FS_Subset
  <2>4. Cardinality(Smaller) \in Nat /\ Cardinality(Smaller \cup Equal) \in Nat
    BY PositionsAreFinite DEF IInv, Smaller, Equal
  <2> QED BY <2>3, <2>4
<1>7. delta' <= handledCPCount'
  <2>1. delta <= Cardinality(Smaller)
    BY <1>4, <1>5
  <2>2. Cardinality(Smaller) \in Nat /\ Cardinality(Smaller \cup Equal) \in Nat
    BY PositionsAreFinite DEF IInv, Smaller, Equal
  <2> QED BY <1>1, <1>3, <1>4, <1>6, <2>1, <2>2
<1>8. RoundInv'
  BY <1>1, <1>3, <1>4, <1>5, <1>7, MaxCodePointIsNat DEF RoundInv
<1>9. CopyInv' /\ ScanInv'
  BY <1>1 DEF CopyInv, ScanInv
<1> QED BY <1>2, <1>8, <1>9 DEF IInv

-----------------------------------------------------------------------------
(* Every step keeps the invariant.                                         *)
LEMMA StepInv == IInv /\ [Next]_vars => IInv'
<1> SUFFICES ASSUME IInv, [Next]_vars PROVE IInv'
  OBVIOUS
<1>1. CASE \E s \in Seq(CodeUnit), c \in 0 .. MaxInt : Call(s, c)
  BY <1>1, IntWidth, CallInv
<1>2. CASE CopyBasic
  BY <1>2, CopyBasicInv
<1>3. CASE CopyExtended
  BY <1>3, CopyExtendedInv
<1>4. CASE RejectSurrogate
  BY <1>4, FailInv DEF RejectSurrogate, Fail, U_INVALID_CHAR_FOUND
<1>5. CASE FinishBasic
  BY <1>5, FinishBasicInv
<1>6. CASE BeginRound
  BY <1>6, BeginRoundInv
<1>7. CASE RejectOverflow
  BY <1>7, FailInv DEF RejectOverflow, Fail, U_INTERNAL_PROGRAM_ERROR
<1>8. CASE ScanSmaller
  BY <1>8, ScanSmallerInv
<1>9. CASE ScanLarger
  BY <1>9, ScanLargerInv
<1>10. CASE ScanEqual
  BY <1>10, ScanEqualInv
<1>11. CASE WriteDigit
  BY <1>11, WriteDigitInv
<1>12. CASE WriteLastDigit
  BY <1>12, WriteLastDigitInv
<1>13. CASE EndRound
  BY <1>13, EndRoundInv
<1>14. CASE Finish
  <2>1. TerminateStatus(capacity, destLength, status) \in Int
    BY DEF IInv, TypeOK, TerminateStatus, U_ZERO_ERROR,
       U_STRING_NOT_TERMINATED_WARNING, U_BUFFER_OVERFLOW_ERROR
  <2>2. destLength \in Nat
    BY DEF IInv, TypeOK
  <2> QED BY <1>14, <2>1, <2>2, FailInv DEF Finish
<1>15. CASE UNCHANGED vars
  <2>1. UNCHANGED <<Positions, Smaller, Ahead, Passed, Equal, Basic>>
    BY <1>15 DEF vars, Positions, Smaller, Ahead, Passed, Equal, Basic
  <2> QED BY <1>15, <2>1
          DEF vars, IInv, TypeOK, BuffersInv, CopyInv, RoundInv, ScanInv, InLoops,
              Positions
<1> QED BY <1>1, <1>2, <1>3, <1>4, <1>5, <1>6, <1>7, <1>8, <1>9, <1>10, <1>11,
           <1>12, <1>13, <1>14, <1>15 DEF Next, Step

(* The encoder's state is what its types say: no counter of a call is ever *)
(* negative, and the buffers hold code units and code points.              *)
THEOREM EncoderTypeOK == Spec => []TypeOK
<1>1. Init => IInv
  BY InitInv
<1>2. IInv /\ [Next]_vars => IInv'
  BY StepInv
<1>3. IInv => TypeOK
  BY DEF IInv
<1> QED BY <1>1, <1>2, <1>3, PTL DEF Spec

(* No int32_t of u_strToPunycode() overflows: the one check at the head of *)
(* a round covers every increment of delta up to the next check.           *)
THEOREM EncoderNoSignedOverflow == Spec => []NoSignedOverflow
<1>1. IInv => NoSignedOverflow
  <2> SUFFICES ASSUME IInv PROVE NoSignedOverflow
    OBVIOUS
  <2>1. /\ MaxInt \in Nat /\ MaxCodePoint \in Nat /\ MaxCodePoint < MaxInt
        /\ delta \in Nat /\ n \in Nat /\ handledCPCount \in Nat
        /\ Len(cpBuffer) \in Nat
        /\ 2 * (EncodeMaxCodeUnits + 1) <= MaxInt
    BY IntWidth, MaxCodePointIsNat DEF IInv, TypeOK
  <2>2. InLoops => Len(cpBuffer) <= EncodeMaxCodeUnits
    BY <2>1 DEF IInv, BuffersInv, EncodeMaxCodeUnits, InLoops, TypeOK
  <2>3. CASE pc = "round"
    <3>1. Cardinality(Smaller) <= Len(cpBuffer)
      BY PositionsAreFinite DEF IInv, Smaller
    <3>2. handledCPCount <= EncodeMaxCodeUnits
      BY <2>1, <2>2, <2>3, <3>1 DEF IInv, RoundInv, InLoops, EncodeMaxCodeUnits
    <3> QED BY <2>1, <2>3, <3>2
            DEF IInv, RoundInv, NoSignedOverflow, EncodeMaxCodeUnits
  <2>4. CASE pc \in {"scan", "integer"}
    <3>1. /\ Cardinality(Passed) <= Len(cpBuffer) /\ Cardinality(Passed) \in Nat
          /\ Cardinality(Ahead) \in Nat
      BY PositionsAreFinite DEF IInv, Passed, Ahead
    <3>2. delta <= MaxInt
      BY <2>1, <2>2, <2>4, <3>1
         DEF IInv, ScanInv, InLoops, EncodeMaxCodeUnits
    <3>3. n <= MaxInt
      BY <2>1, <2>4 DEF IInv, ScanInv
    <3> QED BY <2>4, <3>2, <3>3 DEF NoSignedOverflow
  <2> QED BY <2>3, <2>4 DEF NoSignedOverflow
<1>2. Init => IInv
  BY InitInv
<1>3. IInv /\ [Next]_vars => IInv'
  BY StepInv
<1> QED BY <1>1, <1>2, <1>3, PTL DEF Spec

(* At the head of every round exactly the code points below n have been    *)
(* written, once each.                                                     *)
THEOREM EncoderHandlesTheSmaller == Spec => []HandledAreTheSmaller
<1>1. IInv => HandledAreTheSmaller
  BY DEF IInv, RoundInv, HandledAreTheSmaller, Smaller, Positions
<1>2. Init => IInv
  BY InitInv
<1>3. IInv /\ [Next]_vars => IInv'
  BY StepInv
<1> QED BY <1>1, <1>2, <1>3, PTL DEF Spec

-----------------------------------------------------------------------------
(* What every write does to the buffer.                                    *)
LEMMA WriteHoldsPrefix ==
  ASSUME IInv, BufferHoldsPrefix, InLoops, NEW t \in Seq(Nat), Write(t),
         capacity' = capacity
  PROVE  BufferHoldsPrefix'
<1>1. /\ dest \in Seq(Nat) /\ capacity \in Nat /\ destLength \in Nat
      /\ Len(dest) = IF destLength < capacity THEN destLength ELSE capacity
      /\ Len(t) \in Nat
  BY DEF IInv, TypeOK, BufferHoldsPrefix, InLoops
<1>2. Len(dest') = IF destLength + Len(t) < capacity THEN destLength + Len(t)
                                                     ELSE capacity
  <2>1. Len(Store(dest, capacity, t)) =
          IF destLength + Len(t) < capacity THEN destLength + Len(t) ELSE capacity
    BY <1>1, StoreHoldsPrefix, ZenonT(30)
  <2> QED BY <2>1 DEF Write
<1> QED BY <1>1, <1>2 DEF Write, BufferHoldsPrefix

(* A step that leaves the output alone, or ends the call, keeps it.        *)
LEMMA NoWriteHoldsPrefix ==
  ASSUME BufferHoldsPrefix, UNCHANGED <<dest, capacity>>,
         pc' = "done" \/ (InLoops /\ UNCHANGED destLength)
  PROVE  BufferHoldsPrefix'
BY DEF BufferHoldsPrefix, InLoops

(* A digit is one unit of the output.                                      *)
LEMMA DigitIsUnit ==
  ASSUME NEW digit \in Nat
  PROVE  <<DigitToBasic(digit)>> \in Seq(Nat)
BY DEF DigitToBasic

(* The output buffer always holds the beginning of the whole output: a     *)
(* caller that gives a larger buffer on U_BUFFER_OVERFLOW_ERROR loses      *)
(* nothing, and one that counts first with capacity 0 writes nothing.      *)
THEOREM EncoderBufferHoldsPrefix == Spec => []BufferHoldsPrefix
<1>1. Init => BufferHoldsPrefix
  BY DEF Init, BufferHoldsPrefix
<1>2. ASSUME IInv, BufferHoldsPrefix, [Next]_vars
      PROVE  BufferHoldsPrefix'
  <2>1. CASE \E s \in Seq(CodeUnit), c \in 0 .. MaxInt : Call(s, c)
    <3>1. PICK s \in Seq(CodeUnit), c \in 0 .. MaxInt : Call(s, c)
      BY <2>1
    <3>2. /\ dest' = <<>> /\ capacity' = c /\ c \in Nat
          /\ pc' = "done" \/ destLength' = 0
          /\ pc' \in {"copy", "done"}
      BY <3>1, IntWidth DEF Call, Fail, Return
    <3> QED BY <3>2 DEF BufferHoldsPrefix
  <2>2. CASE CopyBasic
    <3>1. /\ InLoops /\ capacity' = capacity /\ Write(<<src[j + 1]>>)
          /\ j < Len(src) /\ j \in Nat /\ src \in Seq(Nat)
      BY <1>2, <2>2 DEF CopyBasic, InLoops, IInv, TypeOK
    <3>2. <<src[j + 1]>> \in Seq(Nat)
      BY <3>1
    <3> QED BY <1>2, <3>1, <3>2, WriteHoldsPrefix
  <2>3. CASE FinishBasic
    <3> DEFINE t == IF destLength > 0 THEN <<Delimiter>> ELSE <<>>
    <3>1. InLoops /\ capacity' = capacity /\ Write(t)
      BY <2>3 DEF FinishBasic, InLoops
    <3>2. t \in Seq(Nat)
      BY DEF Delimiter
    <3> HIDE DEF t
    <3> QED BY <1>2, <3>1, <3>2, WriteHoldsPrefix
  <2>4. CASE WriteDigit
    <3> DEFINE t == Threshold(k, bias)
               digit == t + ((q - t) % (Base - t))
    <3>1. /\ InLoops /\ capacity' = capacity /\ q >= t
          /\ Write(<<DigitToBasic(digit)>>)
      BY <2>4 DEF WriteDigit, InLoops
    <3>2. t \in TMin .. TMax /\ q \in Nat
      BY <1>2, ThresholdRange DEF IInv, TypeOK
    <3>3. digit \in Nat
      <4> HIDE DEF t
      <4>1. q - t \in Nat /\ Base - t \in Nat /\ Base - t > 0
        BY <3>1, <3>2 DEF Base, TMin, TMax
      <4>2. (q - t) % (Base - t) \in Nat
        BY <4>1, QuotientIsNat
      <4> QED BY <3>2, <4>2 DEF TMin, TMax
    <3> HIDE DEF digit
    <3> QED BY <1>2, <3>1, <3>3, DigitIsUnit, WriteHoldsPrefix
  <2>5. CASE WriteLastDigit
    <3>1. /\ InLoops /\ capacity' = capacity /\ Write(<<DigitToBasic(q)>>)
          /\ q \in Nat
      BY <1>2, <2>5 DEF WriteLastDigit, InLoops, IInv, TypeOK
    <3> QED BY <1>2, <3>1, DigitIsUnit, WriteHoldsPrefix
  <2>6. CASE RejectSurrogate \/ RejectOverflow \/ Finish
    <3>1. UNCHANGED <<dest, capacity>> /\ pc' = "done"
      BY <2>6 DEF RejectSurrogate, RejectOverflow, Finish, Fail, Return
    <3> QED BY <1>2, <3>1, NoWriteHoldsPrefix
  <2>7. CASE \/ CopyExtended \/ BeginRound \/ ScanSmaller \/ ScanLarger
             \/ ScanEqual \/ EndRound
    <3>1. UNCHANGED <<dest, capacity, destLength>> /\ InLoops
      BY <2>7 DEF CopyExtended, BeginRound, ScanSmaller, ScanLarger, ScanEqual,
                  EndRound, InLoops
    <3> QED BY <1>2, <3>1, NoWriteHoldsPrefix
  <2>8. CASE UNCHANGED vars
    BY <1>2, <2>8 DEF vars, BufferHoldsPrefix
  <2> QED BY <1>2, <2>1, <2>2, <2>3, <2>4, <2>5, <2>6, <2>7, <2>8 DEF Next, Step
<1>3. Init => IInv
  BY InitInv
<1>4. IInv /\ [Next]_vars => IInv'
  BY StepInv
<1> QED BY <1>1, <1>2, <1>3, <1>4, PTL DEF Spec

-----------------------------------------------------------------------------
(* What a call returns does not depend on the capacity: the loops never    *)
(* look at it.  EncView is the state of a call without dest and capacity,  *)
(* and without the numbers that the loop the call is in does not use (the  *)
(* next call finds there what the last one left).  EncNext is one step of  *)
(* that view.                                                              *)
EncViews ==
  ({"copy"} \X Nat \X Seq(Nat) \X Nat)
    \cup ({"round", "scan"} \X Nat \X Seq(Nat) \X Nat \X Nat \X Nat \X Nat
             \X Nat \X Nat)
    \cup ({"integer"} \X Nat \X Seq(Nat) \X Nat \X Nat \X Nat \X Nat \X Nat
             \X Nat \X Nat \X Nat)
    \cup ({"done"} \X Nat \X Int)

(* The codes by which the length that is returned fits the capacity.       *)
Fitting == {U_ZERO_ERROR, U_STRING_NOT_TERMINATED_WARNING, U_BUFFER_OVERFLOW_ERROR}

EncView ==
  IF pc = "copy" THEN <<"copy", j, cpBuffer, destLength>>
  ELSE IF pc = "integer"
  THEN <<"integer", j, cpBuffer, destLength, basicLength, n, delta, bias,
         handledCPCount, q, k>>
  ELSE IF pc = "done"
  THEN <<"done", destLength, IF status \in Fitting THEN U_ZERO_ERROR ELSE status>>
  ELSE <<pc, j, cpBuffer, destLength, basicLength, n, delta, bias, handledCPCount>>

EncBegins(s) ==
  IF Len(s) > EncodeMaxCodeUnits THEN <<"done", 0, U_INPUT_TOO_LONG_ERROR>>
                                 ELSE <<"copy", 0, <<>>, 0>>

SmallestFrom(cp, c) ==
  LET left == {cp[x] : x \in DOMAIN cp} \cap (c .. MaxInt - 1)
  IN  IF left = {} THEN MaxInt ELSE CHOOSE m \in left : \A y \in left : m <= y

AfterCopy(s, x, cp, length) ==
  IF x = Len(s)
  THEN <<"round", x, cp, length + (IF length > 0 THEN 1 ELSE 0), length,
         InitialN, 0, InitialBias, length>>
  ELSE IF IsBasic(s[x + 1]) THEN <<"copy", x + 1, Append(cp, 0), length + 1>>
  ELSE IF IsSurrogate(s[x + 1]) /\ ~StartsPair(s, x)
  THEN <<"done", 0, U_INVALID_CHAR_FOUND>>
  ELSE <<"copy", IF StartsPair(s, x) THEN x + 2 ELSE x + 1,
         Append(cp, CodePointAt(s, x)), length>>

AfterRound(x, cp, length, basic, c, d, b, handled) ==
  LET m == SmallestFrom(cp, c)
  IN  IF handled >= Len(cp) THEN <<"done", length, U_ZERO_ERROR>>
      ELSE IF m - c > (MaxInt - handled - d) \div (handled + 1)
      THEN <<"done", 0, U_INTERNAL_PROGRAM_ERROR>>
      ELSE <<"scan", 0, cp, length, basic, m, d + (m - c) * (handled + 1), b, handled>>

AfterScan(x, cp, length, basic, c, d, b, handled) ==
  IF x = Len(cp)
  THEN <<"round", x, cp, length, basic, c + 1, d + 1, b, handled>>
  ELSE IF cp[x + 1] < c
  THEN <<"scan", x + 1, cp, length, basic, c, d + 1, b, handled>>
  ELSE IF cp[x + 1] > c
  THEN <<"scan", x + 1, cp, length, basic, c, d, b, handled>>
  ELSE <<"integer", x, cp, length, basic, c, d, b, handled, d, Base>>

AfterInteger(x, cp, length, basic, c, d, b, handled, rest, position) ==
  LET t == Threshold(position, b)
  IN  IF rest < t
      THEN <<"scan", x + 1, cp, length + 1, basic, c, 0,
             AdaptBias(d, handled + 1, handled = basic), handled + 1>>
      ELSE <<"integer", x, cp, length + 1, basic, c, d, b, handled,
             (rest - t) \div (Base - t), position + Base>>

EncNext(s) ==
  [v \in {u \in EncViews : u[1] # "done"} |->
     IF v[1] = "copy" THEN AfterCopy(s, v[2], v[3], v[4])
     ELSE IF v[1] = "round"
     THEN AfterRound(v[2], v[3], v[4], v[5], v[6], v[7], v[8], v[9])
     ELSE IF v[1] = "scan"
     THEN AfterScan(v[2], v[3], v[4], v[5], v[6], v[7], v[8], v[9])
     ELSE AfterInteger(v[2], v[3], v[4], v[5], v[6], v[7], v[8], v[9], v[10], v[11])]

EncOrbit(s) == Orbit(EncNext(s), EncViews, EncBegins(s))

(* A call is somewhere in the orbit of its input.  While it runs nothing   *)
(* has failed, and if it returns a length, only the comparison with the    *)
(* capacity is left to decide on the status.                               *)
EncOrbitInv ==
  /\ pc # "ready" => EncView \in EncOrbit(src)
  /\ pc \notin {"ready", "done"} => status = U_ZERO_ERROR
  /\ pc = "done" /\ status \in Fitting =>
       status = TerminateStatus(capacity, destLength, U_ZERO_ERROR)

(* The view is one.                                                        *)
LEMMA EncViewType == TypeOK /\ pc # "ready" => EncView \in EncViews
<1> SUFFICES ASSUME TypeOK, pc # "ready" PROVE EncView \in EncViews
  OBVIOUS
<1>1. CASE pc = "copy"
  BY <1>1 DEF TypeOK, EncView, EncViews
<1>2. CASE pc = "round" \/ pc = "scan"
  BY <1>2 DEF TypeOK, EncView, EncViews
<1>3. CASE pc = "integer"
  BY <1>3 DEF TypeOK, EncView, EncViews
<1>4. CASE pc = "done"
  BY <1>4 DEF TypeOK, EncView, EncViews, U_ZERO_ERROR
<1> QED BY <1>1, <1>2, <1>3, <1>4 DEF TypeOK

(* So is the first.                                                        *)
LEMMA EncBeginsType ==
  ASSUME NEW s PROVE EncBegins(s) \in EncViews
<1>1. <<"done", 0, U_INPUT_TOO_LONG_ERROR>> \in EncViews
  BY DEF EncViews, U_INPUT_TOO_LONG_ERROR
<1>2. <<"copy", 0, <<>>, 0>> \in EncViews
  <2>1. <<>> \in Seq(Nat)
    OBVIOUS
  <2>2. <<"copy", 0, <<>>, 0>> \in {"copy"} \X Nat \X Seq(Nat) \X Nat
    BY <2>1
  <2> QED BY <2>2, Zenon DEF EncViews
<1> QED BY <1>1, <1>2 DEF EncBegins

(* Each loop takes the view to the next one: the loop over src,            *)
LEMMA CopyView ==
  ASSUME TypeOK, status = U_ZERO_ERROR,
         CopyBasic \/ CopyExtended \/ RejectSurrogate \/ FinishBasic
  PROVE  pc = "copy" /\ EncView' = AfterCopy(src, j, cpBuffer, destLength)
<1>1. CASE CopyBasic
  <2>1. pc = "copy" /\ j # Len(src) /\ IsBasic(src[j + 1])
    BY <1>1 DEF TypeOK, CopyBasic
  <2>2. EncView' = <<"copy", j + 1, Append(cpBuffer, 0), destLength + 1>>
    BY <1>1 DEF TypeOK, CopyBasic, Write, EncView
  <2> QED BY <2>1, <2>2 DEF AfterCopy
<1>2. CASE CopyExtended
  <2>1. /\ pc = "copy" /\ j # Len(src) /\ ~IsBasic(src[j + 1])
        /\ IsSurrogate(src[j + 1]) => StartsPair(src, j)
    BY <1>2 DEF TypeOK, CopyExtended
  <2>2. EncView' = <<"copy", IF StartsPair(src, j) THEN j + 2 ELSE j + 1,
                     Append(cpBuffer, CodePointAt(src, j)), destLength>>
    BY <1>2 DEF CopyExtended, EncView
  <2> QED BY <2>1, <2>2 DEF AfterCopy
<1>3. CASE RejectSurrogate
  <2>1. ~IsBasic(src[j + 1])
    BY <1>3, SurrogateLayout DEF TypeOK, RejectSurrogate, IsSurrogate, IsBasic, InitialN,
       StartsPair, IsLead, IsTrail
  <2>2. EncView' = <<"done", 0, U_INVALID_CHAR_FOUND>>
    BY <1>3 DEF RejectSurrogate, Fail, Return, EncView, Fitting, U_INVALID_CHAR_FOUND,
       U_ZERO_ERROR, U_STRING_NOT_TERMINATED_WARNING, U_BUFFER_OVERFLOW_ERROR
  <2>3. pc = "copy" /\ j # Len(src) /\ IsSurrogate(src[j + 1]) /\ ~StartsPair(src, j)
    BY <1>3 DEF TypeOK, RejectSurrogate
  <2> QED BY <2>1, <2>2, <2>3 DEF AfterCopy
<1>4. CASE FinishBasic
  BY <1>4 DEF TypeOK, FinishBasic, Write, EncView, AfterCopy
<1> QED BY <1>1, <1>2, <1>3, <1>4

(* the head of a round,                                                    *)
LEMMA RoundView ==
  ASSUME TypeOK, status = U_ZERO_ERROR, BeginRound \/ RejectOverflow \/ Finish
  PROVE  /\ pc = "round"
         /\ EncView' = AfterRound(j, cpBuffer, destLength, basicLength, n, delta,
                                  bias, handledCPCount)
<1>0. SmallestFrom(cpBuffer, n) = NextCodePoint
  BY DEF SmallestFrom, NextCodePoint
<1>1. CASE BeginRound
  <2>1. ~(handledCPCount >= Len(cpBuffer)) /\ pc = "round"
    BY <1>1 DEF TypeOK, BeginRound
  <2>2. EncView' = <<"scan", 0, cpBuffer, destLength, basicLength, NextCodePoint,
                     delta + (NextCodePoint - n) * (handledCPCount + 1), bias,
                     handledCPCount>>
    BY <1>1 DEF BeginRound, EncView
  <2>3. ~DeltaWouldOverflow(NextCodePoint)
    BY <1>1 DEF BeginRound
  <2> QED BY <1>0, <2>1, <2>2, <2>3, Zenon DEF AfterRound, DeltaWouldOverflow
<1>2. CASE RejectOverflow
  <2>1. ~(handledCPCount >= Len(cpBuffer)) /\ pc = "round"
    BY <1>2 DEF TypeOK, RejectOverflow
  <2>2. EncView' = <<"done", 0, U_INTERNAL_PROGRAM_ERROR>>
    BY <1>2 DEF RejectOverflow, Fail, Return, EncView, Fitting, U_INTERNAL_PROGRAM_ERROR,
       U_ZERO_ERROR, U_STRING_NOT_TERMINATED_WARNING, U_BUFFER_OVERFLOW_ERROR
  <2>3. DeltaWouldOverflow(NextCodePoint)
    BY <1>2 DEF RejectOverflow
  <2> QED BY <1>0, <2>1, <2>2, <2>3, Zenon DEF AfterRound, DeltaWouldOverflow
<1>3. CASE Finish
  BY <1>3 DEF TypeOK, Finish, Return, EncView, AfterRound,
              TerminateStatus, Fitting, U_FAILURE, U_ZERO_ERROR
<1> QED BY <1>1, <1>2, <1>3

(* the scan,                                                               *)
LEMMA ScanView ==
  ASSUME TypeOK, status = U_ZERO_ERROR,
         ScanSmaller \/ ScanLarger \/ ScanEqual \/ EndRound
  PROVE  /\ pc = "scan"
         /\ EncView' = AfterScan(j, cpBuffer, destLength, basicLength, n, delta,
                                 bias, handledCPCount)
<1>1. CASE ScanSmaller
  <2>1. pc = "scan" /\ j # Len(cpBuffer) /\ cpBuffer[j + 1] < n
    BY <1>1 DEF TypeOK, ScanSmaller
  <2>2. EncView' = <<"scan", j + 1, cpBuffer, destLength, basicLength, n, delta + 1,
                     bias, handledCPCount>>
    BY <1>1 DEF ScanSmaller, EncView
  <2> QED BY <2>1, <2>2 DEF AfterScan
<1>2. CASE ScanLarger
  <2>1. /\ pc = "scan" /\ j # Len(cpBuffer)
        /\ ~(cpBuffer[j + 1] < n) /\ cpBuffer[j + 1] > n
    BY <1>2 DEF TypeOK, ScanLarger
  <2>2. EncView' = <<"scan", j + 1, cpBuffer, destLength, basicLength, n, delta,
                     bias, handledCPCount>>
    BY <1>2 DEF ScanLarger, EncView, numbers
  <2> QED BY <2>1, <2>2 DEF AfterScan
<1>3. CASE ScanEqual
  <2>1. /\ pc = "scan" /\ j # Len(cpBuffer)
        /\ ~(cpBuffer[j + 1] < n) /\ ~(cpBuffer[j + 1] > n)
    BY <1>3 DEF TypeOK, ScanEqual
  <2>2. EncView' = <<"integer", j, cpBuffer, destLength, basicLength, n, delta,
                     bias, handledCPCount, delta, Base>>
    BY <1>3 DEF ScanEqual, EncView
  <2> QED BY <2>1, <2>2 DEF AfterScan
<1>4. CASE EndRound
  BY <1>4 DEF TypeOK, EndRound, EncView, AfterScan
<1> QED BY <1>1, <1>2, <1>3, <1>4

(* and the digits of an integer.                                           *)
LEMMA IntegerView ==
  ASSUME TypeOK, status = U_ZERO_ERROR, WriteDigit \/ WriteLastDigit
  PROVE  /\ pc = "integer"
         /\ EncView' = AfterInteger(j, cpBuffer, destLength, basicLength, n, delta,
                                    bias, handledCPCount, q, k)
<1>0. Threshold(k, bias) \in Nat
  <2>1. Threshold(k, bias) \in TMin .. TMax
    BY ThresholdRange DEF TypeOK
  <2> QED BY <2>1 DEF TMin, TMax
<1>1. CASE WriteDigit
  <2>1. pc = "integer" /\ ~(q < Threshold(k, bias))
    BY <1>0, <1>1 DEF TypeOK, WriteDigit
  <2>2. EncView' = <<"integer", j, cpBuffer, destLength + 1, basicLength, n, delta,
                     bias, handledCPCount,
                     (q - Threshold(k, bias)) \div (Base - Threshold(k, bias)),
                     k + Base>>
    BY <1>1 DEF TypeOK, WriteDigit, Write, EncView
  <2> QED BY <2>1, <2>2 DEF AfterInteger
<1>2. CASE WriteLastDigit
  <2>1. pc = "integer" /\ q < Threshold(k, bias)
    BY <1>2 DEF WriteLastDigit
  <2>2. EncView' = <<"scan", j + 1, cpBuffer, destLength + 1, basicLength, n, 0,
                     AdaptBias(delta, handledCPCount + 1, handledCPCount = basicLength),
                     handledCPCount + 1>>
    BY <1>2 DEF TypeOK, WriteLastDigit, Write, EncView
  <2> QED BY <2>1, <2>2 DEF AfterInteger
<1> QED BY <1>1, <1>2

(* So a step of the encoder takes the view to the next one.                *)
LEMMA StepView ==
  ASSUME TypeOK, EncOrbitInv, Step
  PROVE  EncView \in DOMAIN EncNext(src) /\ EncView' = EncNext(src)[EncView]
<1>0. pc \in {"copy", "round", "scan", "integer"} /\ status = U_ZERO_ERROR
  <2>1. pc \in {"copy", "round", "scan", "integer"}
    BY DEF Step, CopyBasic, CopyExtended, RejectSurrogate, FinishBasic, BeginRound,
           RejectOverflow, ScanSmaller, ScanLarger, ScanEqual, WriteDigit,
           WriteLastDigit, EndRound, Finish
  <2> QED BY <2>1 DEF EncOrbitInv
<1>1. EncView \in EncViews /\ EncView[1] = pc
  BY <1>0, EncViewType DEF EncView
<1>2. EncView \in DOMAIN EncNext(src)
  BY <1>0, <1>1 DEF EncNext
<1>3. EncNext(src)[EncView] =
        IF pc = "copy" THEN AfterCopy(src, EncView[2], EncView[3], EncView[4])
        ELSE IF pc = "round"
        THEN AfterRound(EncView[2], EncView[3], EncView[4], EncView[5], EncView[6],
                        EncView[7], EncView[8], EncView[9])
        ELSE IF pc = "scan"
        THEN AfterScan(EncView[2], EncView[3], EncView[4], EncView[5], EncView[6],
                       EncView[7], EncView[8], EncView[9])
        ELSE AfterInteger(EncView[2], EncView[3], EncView[4], EncView[5], EncView[6],
                          EncView[7], EncView[8], EncView[9], EncView[10], EncView[11])
  BY <1>0, <1>1 DEF EncNext
<1>4. CASE CopyBasic \/ CopyExtended \/ RejectSurrogate \/ FinishBasic
  <2>1. pc = "copy" /\ EncView' = AfterCopy(src, j, cpBuffer, destLength)
    BY <1>0, <1>4, CopyView
  <2>2. EncView[2] = j /\ EncView[3] = cpBuffer /\ EncView[4] = destLength
    BY <2>1 DEF EncView
  <2> QED BY <1>2, <1>3, <2>1, <2>2
<1>5. CASE BeginRound \/ RejectOverflow \/ Finish
  <2>1. /\ pc = "round"
        /\ EncView' = AfterRound(j, cpBuffer, destLength, basicLength, n, delta,
                                 bias, handledCPCount)
    BY <1>0, <1>5, RoundView
  <2>2. /\ EncView[2] = j /\ EncView[3] = cpBuffer /\ EncView[4] = destLength
        /\ EncView[5] = basicLength /\ EncView[6] = n /\ EncView[7] = delta
        /\ EncView[8] = bias /\ EncView[9] = handledCPCount
    BY <2>1 DEF EncView
  <2> QED BY <1>2, <1>3, <2>1, <2>2
<1>6. CASE ScanSmaller \/ ScanLarger \/ ScanEqual \/ EndRound
  <2>1. /\ pc = "scan"
        /\ EncView' = AfterScan(j, cpBuffer, destLength, basicLength, n, delta,
                                bias, handledCPCount)
    BY <1>0, <1>6, ScanView
  <2>2. /\ EncView[2] = j /\ EncView[3] = cpBuffer /\ EncView[4] = destLength
        /\ EncView[5] = basicLength /\ EncView[6] = n /\ EncView[7] = delta
        /\ EncView[8] = bias /\ EncView[9] = handledCPCount
    BY <2>1 DEF EncView
  <2> QED BY <1>2, <1>3, <2>1, <2>2
<1>7. CASE WriteDigit \/ WriteLastDigit
  <2>1. /\ pc = "integer"
        /\ EncView' = AfterInteger(j, cpBuffer, destLength, basicLength, n, delta,
                                   bias, handledCPCount, q, k)
    BY <1>0, <1>7, IntegerView
  <2>2. /\ EncView[2] = j /\ EncView[3] = cpBuffer /\ EncView[4] = destLength
        /\ EncView[5] = basicLength /\ EncView[6] = n /\ EncView[7] = delta
        /\ EncView[8] = bias /\ EncView[9] = handledCPCount
        /\ EncView[10] = q /\ EncView[11] = k
    BY <2>1 DEF EncView
  <2> QED BY <1>2, <1>3, <2>1, <2>2
<1> QED BY <1>4, <1>5, <1>6, <1>7 DEF Step

(* No step changes the input or the capacity, and each either goes on with *)
(* no error, returns a code of failure, or compares with the capacity.     *)
LEMMA StepStatus ==
  ASSUME TypeOK, EncOrbitInv, Step
  PROVE  /\ src' = src /\ capacity' = capacity /\ pc' # "ready"
         /\ pc' # "done" => status' = U_ZERO_ERROR
         /\ pc' = "done" /\ status' \in Fitting =>
              status' = TerminateStatus(capacity', destLength', U_ZERO_ERROR)
<1>0. pc \in {"copy", "round", "scan", "integer"} => status = U_ZERO_ERROR
  BY DEF EncOrbitInv
<1>1. CASE Finish
  BY <1>0, <1>1 DEF Finish, Return
<1>2. CASE RejectSurrogate
  BY <1>2 DEF RejectSurrogate, Fail, Return, Fitting, U_INVALID_CHAR_FOUND,
       U_ZERO_ERROR, U_STRING_NOT_TERMINATED_WARNING, U_BUFFER_OVERFLOW_ERROR
<1>3. CASE RejectOverflow
  BY <1>3 DEF RejectOverflow, Fail, Return, Fitting, U_INTERNAL_PROGRAM_ERROR,
       U_ZERO_ERROR, U_STRING_NOT_TERMINATED_WARNING, U_BUFFER_OVERFLOW_ERROR
<1>4. CASE CopyBasic \/ CopyExtended \/ FinishBasic
  BY <1>0, <1>4 DEF CopyBasic, CopyExtended, FinishBasic
<1>5. CASE BeginRound \/ ScanSmaller \/ ScanLarger \/ ScanEqual \/ EndRound
  BY <1>0, <1>5 DEF BeginRound, ScanSmaller, ScanLarger, ScanEqual, EndRound
<1>6. CASE WriteDigit \/ WriteLastDigit
  BY <1>0, <1>6 DEF WriteDigit, WriteLastDigit
<1> QED BY <1>1, <1>2, <1>3, <1>4, <1>5, <1>6 DEF Step

(* A step goes on in the orbit of the call.                                *)
LEMMA StepOrbit ==
  ASSUME TypeOK, TypeOK', EncOrbitInv, Step
  PROVE  EncOrbitInv'
<1>1. EncView \in DOMAIN EncNext(src) /\ EncView' = EncNext(src)[EncView]
  BY StepView
<1>2. src' = src /\ pc' # "ready"
  BY StepStatus
<1>3. EncView' \in EncViews
  <2>1. (TypeOK /\ pc # "ready" => EncView \in EncViews)'
    BY EncViewType, PTL
  <2> QED BY <1>2, <2>1
<1>4. EncView \in EncOrbit(src)
  <2>1. pc # "ready"
    BY DEF Step, CopyBasic, CopyExtended, RejectSurrogate, FinishBasic, BeginRound,
           RejectOverflow, ScanSmaller, ScanLarger, ScanEqual, WriteDigit,
           WriteLastDigit, EndRound, Finish
  <2> QED BY <2>1 DEF EncOrbitInv
<1>5. EncView' \in EncOrbit(src)
  BY <1>1, <1>3, <1>4, OrbitGoesOn DEF EncOrbit
<1> QED BY <1>2, <1>5, StepStatus DEF EncOrbitInv

(* A call begins one.                                                      *)
LEMMA CallOrbit ==
  ASSUME NEW s, NEW c, Call(s, c)
  PROVE  EncOrbitInv'
<1>1. src' = s /\ pc' # "ready" /\ EncView' = EncBegins(s)
  BY DEF Call, Fail, Return, EncView, EncBegins, Fitting, U_INPUT_TOO_LONG_ERROR,
       U_ZERO_ERROR, U_STRING_NOT_TERMINATED_WARNING, U_BUFFER_OVERFLOW_ERROR
<1>2. EncView' \in EncOrbit(s)
  BY <1>1, EncBeginsType, OrbitBegins DEF EncOrbit
<1>3. pc' # "done" => status' = U_ZERO_ERROR
  BY DEF Call, Fail, Return
<1>4. pc' = "done" => status' \notin Fitting
  BY DEF Call, Fail, Return, Fitting, U_INPUT_TOO_LONG_ERROR,
       U_ZERO_ERROR, U_STRING_NOT_TERMINATED_WARNING, U_BUFFER_OVERFLOW_ERROR
<1> QED BY <1>1, <1>2, <1>3, <1>4 DEF EncOrbitInv

(* A call with room for the length that another call with the same input   *)
(* has returned returns the same length, and succeeds.                     *)
LEMMA EncReturnsTheSame ==
  ASSUME TypeOK, EncOrbitInv, pc = "done", NEW length \in Nat,
         <<"done", length, U_ZERO_ERROR>> \in EncOrbit(src), capacity >= length
  PROVE  U_SUCCESS(status) /\ destLength = length
<1>1. EncView \in EncOrbit(src) /\ EncView[1] = "done"
  BY DEF EncOrbitInv, EncView
<1>2. EncView = <<"done", length, U_ZERO_ERROR>>
  <2>1. EncView \notin DOMAIN EncNext(src)
    BY <1>1 DEF EncNext
  <2>2. <<"done", length, U_ZERO_ERROR>> \notin DOMAIN EncNext(src)
    BY DEF EncNext
  <2> QED BY <1>1, <2>1, <2>2, EncBeginsType, OrbitEndsOnce DEF EncOrbit
<1>3. EncView = <<"done", destLength,
                  IF status \in Fitting THEN U_ZERO_ERROR ELSE status>>
  BY DEF EncView
<1>4. destLength = length /\ status \in Fitting
  BY <1>2, <1>3 DEF Fitting
<1> QED BY <1>4, RoomIsSuccess DEF EncOrbitInv, TypeOK

-----------------------------------------------------------------------------
(* The codec.                                                              *)

DecP == INSTANCE PunycodeDecoderProofs WITH
  pc <- dpc, src <- dsrc, capacity <- dcapacity, dest <- ddest,
  destLength <- ddestLength, destCPCount <- ddestCPCount, n <- dn, i <- di,
  bias <- dbias, in <- din, oldi <- doldi, w <- dw, k <- dk,
  firstSupplementaryIndex <- dfirst, status <- dstatus

(* The labels a behaviour starts from: UTF-16, well-formed or not, and any *)
(* characters.                                                             *)
CodecInputs ==
  /\ UnicodeLabels \subseteq Seq(CodeUnit)
  /\ PunycodeLabels \subseteq Seq(Nat)
  /\ Capacities \subseteq Nat

DecoderInv == DecP!IInv /\ DecP!OutputInv /\ DecP!UnitsInv

CodecInv == IInv /\ DecoderInv

-----------------------------------------------------------------------------
(* The decoder of the codec is the one the proofs are about: the steps of  *)
(* the one instance are those of the other.                                *)

(* The numbers.                                                            *)
LEMMA SameNumbers ==
  /\ Dec!NoSupplementary = DecP!NoSupplementary
  /\ Dec!DecodeMaxChars = DecP!DecodeMaxChars
  /\ U_SUCCESS(dstatus) = DecP!U_SUCCESS(dstatus)
  /\ CodeUnit = DecP!CodeUnit
BY SMT DEF Dec!NoSupplementary, DecP!NoSupplementary, Dec!DecodeMaxChars,
       DecP!DecodeMaxChars, U_SUCCESS, DecP!U_SUCCESS, U_ZERO_ERROR,
       DecP!U_ZERO_ERROR, CodeUnit, DecP!CodeUnit

(* The bias.                                                               *)
LEMMA SameAdaptBias ==
  ASSUME NEW delta1, NEW length, NEW firstTime
  PROVE  Dec!AdaptBias(delta1, length, firstTime) =
           DecP!AdaptBias(delta1, length, firstTime)
BY SMT DEF Dec!AdaptBias, DecP!AdaptBias, Dec!PowersOf35, DecP!PowersOf35,
           Dec!Damp, DecP!Damp, Dec!Base, DecP!Base, Dec!Skew, DecP!Skew,
           Dec!TMax, DecP!TMax, Dec!TMin, DecP!TMin,
           Dec!Cardinality, DecP!Cardinality

(* The place of an insertion.                                              *)
LEMMA SameCodeUnitIndex ==
  ASSUME NEW position
  PROVE  Dec!CodeUnitIndex(position) = DecP!CodeUnitIndex(position)
BY Zenon
   DEF Dec!CodeUnitIndex, DecP!CodeUnitIndex, Dec!U16_FWD_N, DecP!U16_FWD_N,
       Dec!CountCodePoints, DecP!CountCodePoints, Dec!IsBoundary, DecP!IsBoundary,
       Dec!StartsPair, DecP!StartsPair, Dec!IsLead, DecP!IsLead,
       Dec!IsTrail, DecP!IsTrail, Dec!Cardinality, DecP!Cardinality

(* A call.                                                                 *)
LEMMA SameCall ==
  ASSUME NEW s, NEW c, Dec!Call(s, c)
  PROVE  DecP!Call(s, c)
BY SameNumbers, Zenon
   DEF Dec!Call, DecP!Call, Dec!LastDelimiter, DecP!LastDelimiter,
       Dec!Delimiter, DecP!Delimiter, Dec!IsBasic, DecP!IsBasic,
       Dec!InitialN, DecP!InitialN, Dec!InitialBias, DecP!InitialBias,
       Dec!Store, DecP!Store, Dec!Fail, DecP!Fail, Dec!Return, DecP!Return,
       Dec!U_INPUT_TOO_LONG_ERROR, DecP!U_INPUT_TOO_LONG_ERROR,
       Dec!U_INVALID_CHAR_FOUND, DecP!U_INVALID_CHAR_FOUND,
       Dec!U_ZERO_ERROR, DecP!U_ZERO_ERROR

(* An insertion.                                                           *)
LEMMA SameInsert ==
  ASSUME Dec!Insert
  PROVE  DecP!Insert
BY SameAdaptBias, SameCodeUnitIndex, Zenon
   DEF Dec!Insert, DecP!Insert, Dec!CodeUnits, DecP!CodeUnits,
       Dec!U16_LENGTH, DecP!U16_LENGTH, Dec!U16_LEAD, DecP!U16_LEAD,
       Dec!U16_TRAIL, DecP!U16_TRAIL, Dec!IsSurrogate, DecP!IsSurrogate,
       Dec!MaxCodePoint, DecP!MaxCodePoint,
       Dec!NextFirstSupplementary, DecP!NextFirstSupplementary,
       Dec!Fail, DecP!Fail, Dec!Return, DecP!Return,
       Dec!U_ILLEGAL_CHAR_FOUND, DecP!U_ILLEGAL_CHAR_FOUND

(* A digit.                                                                *)
LEMMA SameReadDigit ==
  ASSUME Dec!ReadDigit
  PROVE  DecP!ReadDigit
BY Zenon
   DEF Dec!ReadDigit, DecP!ReadDigit, Dec!DecodeDigit, DecP!DecodeDigit,
       Dec!NotADigit, DecP!NotADigit, Dec!DigitWouldOverflow,
       DecP!DigitWouldOverflow, Dec!WeightWouldOverflow,
       DecP!WeightWouldOverflow, Dec!Threshold, DecP!Threshold,
       Dec!Base, DecP!Base, Dec!TMin, DecP!TMin, Dec!TMax, DecP!TMax,
       Dec!Fail, DecP!Fail, Dec!Return, DecP!Return,
       Dec!U_ILLEGAL_CHAR_FOUND, DecP!U_ILLEGAL_CHAR_FOUND,
       Dec!U_INVALID_CHAR_FOUND, DecP!U_INVALID_CHAR_FOUND

(* And every other step.                                                   *)
LEMMA SameStep ==
  ASSUME Dec!Step
  PROVE  DecP!Step
<1>1. Dec!BeginInteger => DecP!BeginInteger
  BY Zenon DEF Dec!BeginInteger, DecP!BeginInteger, Dec!Base, DecP!Base
<1>2. Dec!RejectTruncated => DecP!RejectTruncated
  BY Zenon DEF Dec!RejectTruncated, DecP!RejectTruncated, Dec!Fail, DecP!Fail,
               Dec!Return, DecP!Return, Dec!U_ILLEGAL_CHAR_FOUND,
               DecP!U_ILLEGAL_CHAR_FOUND
<1>3. Dec!Finish => DecP!Finish
  BY Zenon DEF Dec!Finish, DecP!Finish, Dec!Return, DecP!Return,
               Dec!TerminateStatus, DecP!TerminateStatus, Dec!U_FAILURE,
               DecP!U_FAILURE, Dec!U_ZERO_ERROR, DecP!U_ZERO_ERROR,
               Dec!U_STRING_NOT_TERMINATED_WARNING,
               DecP!U_STRING_NOT_TERMINATED_WARNING,
               Dec!U_BUFFER_OVERFLOW_ERROR, DecP!U_BUFFER_OVERFLOW_ERROR
<1> QED BY <1>1, <1>2, <1>3, SameReadDigit, SameInsert, Zenon
        DEF Dec!Step, DecP!Step

(* The assumptions on the numbers of the one are those of the other.       *)
LEMMA SameAssumptions ==
  /\ MaxInt \in Nat /\ MaxInt <= 2147483647
  /\ DecP!MaxCodePoint < MaxInt
  /\ 2 * (DecP!EncodeMaxCodeUnits + 1) <= MaxInt
  /\ DecP!Base * (DecP!DecodeMaxChars + 1) <= MaxInt
BY IntWidth, SMT
   DEF MaxCodePoint, DecP!MaxCodePoint, EncodeMaxCodeUnits,
       DecP!EncodeMaxCodeUnits, Base, DecP!Base, DecodeMaxChars,
       DecP!DecodeMaxChars

-----------------------------------------------------------------------------
(* Calls and steps of the decoder keep its invariant.                      *)
LEMMA DecoderCallInv ==
  ASSUME DecoderInv, NEW s \in Seq(Nat), NEW c \in Nat, Dec!Call(s, c)
  PROVE  DecoderInv'
<1>1. DecP!Call(s, c)
  BY SameCall
<1>2. DecP!IInv'
  BY <1>1, SameAssumptions, SurrogateLayout, DecP!CallInv DEF DecoderInv
<1>3. DecP!OutputInv'
  BY <1>1, SameAssumptions, SurrogateLayout, DecP!CallOutput DEF DecoderInv
<1>4. DecP!UnitsInv'
  BY <1>1, SameAssumptions, SurrogateLayout, DecP!CallUnits DEF DecoderInv
<1> QED BY <1>2, <1>3, <1>4 DEF DecoderInv

(* Steps.                                                                  *)
LEMMA DecoderStepInv ==
  ASSUME DecoderInv, Dec!Step
  PROVE  DecoderInv'
<1>1. DecP!Step
  BY SameStep
<1>2. DecP!Next
  BY <1>1 DEF DecP!Next
<1>3. DecP!IInv'
  BY <1>2, SameAssumptions, SurrogateLayout, DecP!StepInv DEF DecoderInv
<1>4. DecP!OutputInv'
  BY <1>2, SameAssumptions, SurrogateLayout, DecP!StepOutput DEF DecoderInv
<1>5. DecP!UnitsInv'
  BY <1>1, SameAssumptions, SurrogateLayout, DecP!StepUnits DEF DecoderInv
<1> QED BY <1>3, <1>4, <1>5 DEF DecoderInv

(* So does whatever leaves the decoder alone.                              *)
LEMMA DecoderIdleInv ==
  ASSUME DecoderInv, UNCHANGED decoder
  PROVE  DecoderInv'
<1>1. UNCHANGED DecP!vars
  BY DEF decoder, DecP!vars
<1>2. DecP!IInv' /\ DecP!OutputInv'
  <2>1. DecP!IInv'
    BY <1>1, SameAssumptions, SurrogateLayout, DecP!StepInv DEF DecoderInv
  <2>2. DecP!OutputInv'
    BY <1>1, SameAssumptions, SurrogateLayout, DecP!StepOutput DEF DecoderInv
  <2> QED BY <2>1, <2>2
<1>3. DecP!UnitsInv'
  BY DEF decoder, DecoderInv, DecP!UnitsInv, DecP!InLoops
<1> QED BY <1>2, <1>3 DEF DecoderInv

(* Before the first call.                                                  *)
LEMMA DecoderInitInv == Dec!Init => DecoderInv
<1> SUFFICES ASSUME Dec!Init PROVE DecoderInv
  OBVIOUS
<1>1. DecP!Init
  BY DEF Dec!Init, DecP!Init, Dec!U_ZERO_ERROR, DecP!U_ZERO_ERROR
<1>2. DecP!IInv
  BY <1>1, SameAssumptions, SurrogateLayout, DecP!InitInv
<1>3. DecP!OutputInv
  BY <1>1, SameAssumptions, SurrogateLayout, DecP!InitOutput
<1>4. DecP!UnitsInv
  BY DEF Dec!Init, DecP!UnitsInv, DecP!InLoops
<1> QED BY <1>2, <1>3, <1>4 DEF DecoderInv

(* What the caller hands on has the type that is expected.                 *)
LEMMA HandedOn ==
  ASSUME CodecInv
  PROVE  /\ src \in Seq(CodeUnit) /\ dest \in Seq(Nat) /\ destLength \in Nat
         /\ dsrc \in Seq(Nat) /\ ddestLength \in Nat
         /\ dpc = "done" /\ U_SUCCESS(dstatus) => ddest \in Seq(CodeUnit)
<1>1. src \in Seq(CodeUnit) /\ dest \in Seq(Nat) /\ destLength \in Nat
  BY DEF CodecInv, IInv, BuffersInv, TypeOK
<1>2. dsrc \in Seq(Nat) /\ ddestLength \in Nat
  BY DEF CodecInv, DecoderInv, DecP!IInv, DecP!NumbersInv, DecP!OutputInv
<1>3. dpc = "done" /\ U_SUCCESS(dstatus) => ddest \in Seq(CodeUnit)
  BY SameNumbers DEF CodecInv, DecoderInv, DecP!UnitsInv
<1> QED BY <1>1, <1>2, <1>3

(* What a step of the codec is to the encoder and to the decoder.          *)
LEMMA CodecStep ==
  ASSUME CodecInputs, CodecInv, [CodecNext]_allVars
  PROVE  /\ \/ \E s \in Seq(CodeUnit), c \in Nat : Call(s, c)
            \/ Step \/ UNCHANGED vars
         /\ \/ \E s \in Seq(Nat), c \in Nat : Dec!Call(s, c)
            \/ Dec!Step \/ UNCHANGED decoder
<1>1. CASE UNCHANGED allVars
  BY <1>1 DEF allVars
<1>2. ASSUME NEW c \in Nat,
             \/ \E s \in UnicodeLabels : StartEncode(s, c)
             \/ \E s \in PunycodeLabels : StartDecode(s, c)
      PROVE  /\ UNCHANGED vars \/ \E s \in Seq(CodeUnit) : Call(s, c)
             /\ UNCHANGED decoder \/ \E s \in Seq(Nat) : Dec!Call(s, c)
  BY <1>2, Zenon DEF CodecInputs, StartEncode, StartDecode
<1>3. ASSUME NEW c \in {destLength, destLength + 1}, RetryEncode(c)
      PROVE  c \in Nat /\ src \in Seq(CodeUnit) /\ Call(src, c) /\ UNCHANGED decoder
  BY <1>3, HandedOn DEF RetryEncode
<1>4. ASSUME NEW c \in {ddestLength, ddestLength + 1}, RetryDecode(c)
      PROVE  c \in Nat /\ dsrc \in Seq(Nat) /\ Dec!Call(dsrc, c) /\ UNCHANGED vars
  BY <1>4, HandedOn DEF RetryDecode
<1>5. ASSUME NEW c \in Nat, DecodeResult(c)
      PROVE  dest \in Seq(Nat) /\ Dec!Call(dest, c) /\ UNCHANGED vars
  BY <1>5, HandedOn DEF DecodeResult
<1>6. ASSUME NEW c \in Nat, EncodeResult(c)
      PROVE  ddest \in Seq(CodeUnit) /\ Call(ddest, c) /\ UNCHANGED decoder
  BY <1>6, HandedOn DEF EncodeResult
<1>7. CASE EncoderStep \/ DecoderStep
  BY <1>7 DEF EncoderStep, DecoderStep
<1>8. CASE CodecNext
  <2>1. Capacities \subseteq Nat
    BY DEF CodecInputs
  <2>2. CASE \E c \in Capacities : \/ \E s \in UnicodeLabels : StartEncode(s, c)
                                 \/ \E s \in PunycodeLabels : StartDecode(s, c)
    BY <1>2, <2>1, <2>2, Zenon
  <2>3. CASE \E c \in {destLength, destLength + 1} : RetryEncode(c)
    BY <1>3, <2>3, Zenon
  <2>4. CASE \E c \in {ddestLength, ddestLength + 1} : RetryDecode(c)
    BY <1>4, <2>4, Zenon
  <2>5. CASE \E c \in Capacities : DecodeResult(c) \/ EncodeResult(c)
    BY <1>5, <1>6, <2>1, <2>5, Zenon
  <2> QED BY <1>7, <1>8, <2>2, <2>3, <2>4, <2>5, Zenon DEF CodecNext
<1> QED BY <1>1, <1>8

(* Both invariants hold throughout, whoever is called with what.           *)
LEMMA CodecIsInvariant ==
  ASSUME CodecInputs
  PROVE  CodecSpec => []CodecInv
<1>1. CodecInit => CodecInv
  BY InitInv, DecoderInitInv DEF CodecInit, CodecInv
<1>2. CodecInv /\ [CodecNext]_allVars => CodecInv'
  <2> SUFFICES ASSUME CodecInv, [CodecNext]_allVars PROVE CodecInv'
    OBVIOUS
  <2>1. IInv'
    <3>1. CASE \E s \in Seq(CodeUnit), c \in Nat : Call(s, c)
      BY <3>1, CallInv DEF CodecInv
    <3>2. CASE Step \/ UNCHANGED vars
      BY <3>2, StepInv DEF CodecInv, Next
    <3> QED BY <3>1, <3>2, CodecStep
  <2>2. DecoderInv'
    <3>1. CASE \E s \in Seq(Nat), c \in Nat : Dec!Call(s, c)
      BY <3>1, DecoderCallInv DEF CodecInv
    <3>2. CASE Dec!Step
      BY <3>2, DecoderStepInv DEF CodecInv
    <3>3. CASE UNCHANGED decoder
      BY <3>3, DecoderIdleInv DEF CodecInv
    <3> QED BY <3>1, <3>2, <3>3, CodecStep
  <2> QED BY <2>1, <2>2 DEF CodecInv
<1> QED BY <1>1, <1>2, PTL DEF CodecSpec

(* Whatever the caller does, every variable of the decoder keeps its type: *)
(* no counter becomes negative.                                            *)
THEOREM CodecDecoderIsTyped ==
  ASSUME CodecInputs
  PROVE  CodecSpec => []DecoderTypeOK
<1>1. CodecInv => DecoderTypeOK
  <2> SUFFICES ASSUME CodecInv PROVE DecoderTypeOK
    OBVIOUS
  <2>1. DecP!DecoderTypeOK
    BY SameAssumptions, SurrogateLayout, DecP!InvIsTyped DEF CodecInv, DecoderInv
  <2> QED BY <2>1, Zenon DEF DecoderTypeOK, Dec!DecoderTypeOK, DecP!DecoderTypeOK
<1> QED BY <1>1, CodecIsInvariant, PTL

(* No int32_t of u_strFromPunycode() overflows, and n stays a code point,  *)
(* also when it decodes what u_strToPunycode() has written.                *)
THEOREM CodecDecodesInRange ==
  ASSUME CodecInputs
  PROVE  CodecSpec => []DecodeInRange
<1>1. CodecInv => DecodeInRange
  <2> SUFFICES ASSUME CodecInv PROVE DecodeInRange
    OBVIOUS
  <2>1. DecP!DecodeInRange
    BY SameAssumptions, SurrogateLayout, DecP!InvIsInRange DEF CodecInv, DecoderInv
  <2> QED BY <2>1, Zenon DEF DecodeInRange, Dec!DecodeInRange, DecP!DecodeInRange,
                             Dec!MaxCodePoint, DecP!MaxCodePoint
<1> QED BY <1>1, CodecIsInvariant, PTL

(* firstSupplementaryIndex is the first pair of the output, in every call  *)
(* of a second try as in the first.                                        *)
THEOREM CodecKnowsFirstSupplementary ==
  ASSUME CodecInputs
  PROVE  CodecSpec => []FirstSupplementaryIsFirst
<1>1. CodecInv => FirstSupplementaryIsFirst
  <2> SUFFICES ASSUME CodecInv PROVE FirstSupplementaryIsFirst
    OBVIOUS
  <2>1. DecP!FirstSupplementaryIsFirst
    BY SameAssumptions, SurrogateLayout, DecP!InvKnowsFirst DEF CodecInv, DecoderInv
  <2> QED BY <2>1, Zenon
          DEF FirstSupplementaryIsFirst, Dec!FirstSupplementaryIsFirst,
              DecP!FirstSupplementaryIsFirst, Dec!StartsPair, DecP!StartsPair,
              Dec!IsLead, DecP!IsLead, Dec!IsTrail, DecP!IsTrail
<1> QED BY <1>1, CodecIsInvariant, PTL

(* Every insertion that fits puts one code point at its code point index   *)
(* and moves the others, in the output of every call the caller makes: no  *)
(* surrogate pair is ever split.                                           *)
THEOREM CodecInsertsCodePoints ==
  ASSUME CodecInputs
  PROVE  CodecSpec => InsertionsAreExact
<1>1. CodecInv /\ [CodecNext]_allVars => Dec!InsertsCodePoint \/ UNCHANGED Dec!vars
  <2> SUFFICES ASSUME CodecInv, [CodecNext]_allVars, ~UNCHANGED decoder
               PROVE  Dec!InsertsCodePoint
    BY DEF decoder, Dec!vars
  <2>1. CASE \E s \in Seq(Nat), c \in Nat : Dec!Call(s, c)
    BY <2>1 DEF Dec!Call, Dec!InsertsCodePoint
  <2>2. CASE Dec!Step
    <3>1. DecP!Step
      BY <2>2, SameStep
    <3>2. DecP!InsertsCodePoint
      BY <3>1, SameAssumptions, SurrogateLayout, DecP!StepInserts
         DEF CodecInv, DecoderInv
    <3> QED BY <3>2, Zenon
            DEF Dec!InsertsCodePoint, DecP!InsertsCodePoint,
                Dec!CodePoints, DecP!CodePoints, Dec!CodePointAt, DecP!CodePointAt,
                Dec!U16_GET_SUPPLEMENTARY, DecP!U16_GET_SUPPLEMENTARY,
                Dec!StartsPair, DecP!StartsPair,
                Dec!IsLead, DecP!IsLead, Dec!IsTrail, DecP!IsTrail
  <2> QED BY <2>1, <2>2, CodecStep
<1> QED BY <1>1, CodecIsInvariant, PTL DEF CodecSpec, InsertionsAreExact,
                                           Dec!InsertionsAreExact

-----------------------------------------------------------------------------
(* The second try.  A caller that asks again does so with the same input,  *)
(* so the second call is in the orbit in which the first one ended; with   *)
(* room for the length it was told, it returns that length.                *)

(* A call of the encoder with this input returns this length.              *)
EncReturns(s, length) == <<"done", length, U_ZERO_ERROR>> \in EncOrbit(s)

(* What asked says of the call in hand.  In flow "encode" the encoder is   *)
(* in hand until the decoder is called, in flow "decode" the decoder until *)
(* the encoder is.                                                         *)
AskedInv ==
  /\ asked \in Nat \cup {-1}
  /\ flow = "none" => pc = "ready" /\ dpc = "ready"
  /\ flow = "encode" /\ dpc # "ready" => pc = "done" /\ U_SUCCESS(status)
  /\ asked >= 0 /\ flow = "encode" /\ dpc = "ready" /\ pc # "ready" =>
       EncReturns(src, asked) /\ capacity >= asked
  /\ asked >= 0 /\ dpc # "ready" /\ (flow = "encode" \/ pc = "ready") =>
       DecP!DecReturns(dsrc, asked) /\ dcapacity >= asked

RetryInv == CodecInv /\ EncOrbitInv /\ DecP!DecOrbitInv /\ AskedInv

(* The length that an overflow reports is one that is returned.            *)
LEMMA EncOverflowReturns ==
  ASSUME EncOrbitInv, pc = "done", status = U_BUFFER_OVERFLOW_ERROR
  PROVE  EncReturns(src, destLength)
BY DEF EncOrbitInv, EncReturns, EncView, Fitting

(* Whatever leaves the encoder alone leaves its call where it is;          *)
LEMMA EncIdleOrbit ==
  ASSUME EncOrbitInv, UNCHANGED vars PROVE EncOrbitInv'
<1>1. EncView' = EncView
  BY DEF vars, EncView
<1> QED BY <1>1 DEF vars, EncOrbitInv

(* likewise the decoder.                                                   *)
LEMMA DecIdleOrbit ==
  ASSUME DecP!DecOrbitInv, UNCHANGED decoder PROVE DecP!DecOrbitInv'
<1>1. DecP!DecView' = DecP!DecView
  BY DEF decoder, DecP!DecView
<1> QED BY <1>1 DEF decoder, DecP!DecOrbitInv

(* A call of the decoder begins an orbit of its own,                       *)
LEMMA DecCallOrbit ==
  ASSUME NEW s \in Seq(Nat), NEW c, Dec!Call(s, c)
  PROVE  DecP!DecOrbitInv'
<1>1. DecP!Call(s, c)
  BY SameCall
<1> QED BY <1>1, SameAssumptions, SurrogateLayout, DecP!CallOrbit

(* and a step of it goes on in it.                                         *)
LEMMA DecStepOrbit ==
  ASSUME DecoderInv, DecoderInv', DecP!DecOrbitInv, Dec!Step
  PROVE  DecP!DecOrbitInv' /\ dsrc' = dsrc /\ dcapacity' = dcapacity
<1>1. DecP!Step
  BY SameStep
<1>2. DecP!DecOrbitInv'
  BY <1>1, SameAssumptions, SurrogateLayout, DecP!StepOrbit DEF DecoderInv
<1>3. dsrc' = dsrc /\ dcapacity' = dcapacity
  BY <1>1, SameAssumptions, SurrogateLayout, DecP!StepStatus DEF DecoderInv
<1> QED BY <1>2, <1>3

(* What a call leaves and where a step is made.                            *)
LEMMA CallPlaces ==
  /\ \A s, c : Call(s, c) => pc' # "ready" /\ src' = s /\ capacity' = c
  /\ \A s, c : Dec!Call(s, c) => dpc' # "ready" /\ dsrc' = s /\ dcapacity' = c
  /\ Step => pc \notin {"ready", "done"} /\ pc' # "ready"
  /\ Dec!Step => dpc \notin {"ready", "done"} /\ dpc' # "ready"
<1>1. \A s, c : Call(s, c) => pc' # "ready" /\ src' = s /\ capacity' = c
  BY DEF Call, Fail, Return
<1>2. \A s, c : Dec!Call(s, c) => dpc' # "ready" /\ dsrc' = s /\ dcapacity' = c
  BY DEF Dec!Call, Dec!Fail, Dec!Return
<1>3. Step => pc \notin {"ready", "done"} /\ pc' # "ready"
  BY DEF Step, CopyBasic, CopyExtended, RejectSurrogate, FinishBasic, BeginRound,
         RejectOverflow, ScanSmaller, ScanLarger, ScanEqual, WriteDigit,
         WriteLastDigit, EndRound, Finish, Fail, Return
<1>4. Dec!Step => dpc \notin {"ready", "done"} /\ dpc' # "ready"
  BY DEF Dec!Step, Dec!BeginInteger, Dec!RejectTruncated, Dec!ReadDigit, Dec!Insert,
         Dec!Finish, Dec!Fail, Dec!Return
<1> QED BY <1>1, <1>2, <1>3, <1>4

(* An overflow is a failure, in the words of either instance.              *)
LEMMA OverflowIsFailure ==
  /\ ~U_SUCCESS(U_BUFFER_OVERFLOW_ERROR)
  /\ U_BUFFER_OVERFLOW_ERROR = DecP!U_BUFFER_OVERFLOW_ERROR
BY DEF U_SUCCESS, U_BUFFER_OVERFLOW_ERROR, U_ZERO_ERROR, DecP!U_BUFFER_OVERFLOW_ERROR

(* Every step keeps what asked says.                                       *)
LEMMA AskedStep ==
  ASSUME CodecInputs, RetryInv, CodecNext
  PROVE  AskedInv'
<1>0. /\ destLength \in Nat /\ ddestLength \in Nat
      /\ \A x \in {destLength, destLength + 1} : x >= destLength
  BY HandedOn DEF RetryInv
<1>1. ASSUME NEW c, NEW s, flow = "none", StartEncode(s, c) \/ StartDecode(s, c)
      PROVE  AskedInv'
  BY <1>1, CallPlaces DEF RetryInv, AskedInv, StartEncode, StartDecode, vars, decoder
<1>2. ASSUME NEW c, RetryEncode(c) PROVE AskedInv'
  <2>1. pc = "done" /\ status = U_BUFFER_OVERFLOW_ERROR /\ Call(src, c)
        /\ c >= destLength /\ asked' = destLength
        /\ UNCHANGED <<decoder, flow, input>>
    BY <1>2 DEF RetryEncode
  <2>2. pc' # "ready" /\ src' = src /\ capacity' = c
    BY <2>1, CallPlaces
  <2>3. EncReturns(src, destLength)
    BY <2>1, EncOverflowReturns DEF RetryInv
  <2>4. ~(flow = "encode" /\ dpc # "ready") /\ flow # "none"
    BY <2>1, OverflowIsFailure DEF RetryInv, AskedInv
  <2> QED BY <1>0, <2>1, <2>2, <2>3, <2>4 DEF AskedInv, decoder
<1>3. ASSUME NEW c, RetryDecode(c) PROVE AskedInv'
  <2>1. dpc = "done" /\ dstatus = U_BUFFER_OVERFLOW_ERROR /\ Dec!Call(dsrc, c)
        /\ c >= ddestLength /\ asked' = ddestLength
        /\ UNCHANGED <<vars, flow, input>>
    BY <1>3 DEF RetryDecode
  <2>2. dpc' # "ready" /\ dsrc' = dsrc /\ dcapacity' = c
    BY <2>1, CallPlaces
  <2>3. DecP!DecReturns(dsrc, ddestLength)
    BY <2>1, OverflowIsFailure, SameAssumptions, SurrogateLayout,
       DecP!DecOverflowReturns DEF RetryInv
  <2>4. flow # "none" /\ (flow = "encode" => pc = "done" /\ U_SUCCESS(status))
    BY <2>1 DEF RetryInv, AskedInv
  <2>5. pc' = pc /\ status' = status
    BY <2>1 DEF vars
  <2>6. U_SUCCESS(status)' = U_SUCCESS(status)
    BY <2>5 DEF U_SUCCESS
  <2> QED BY <1>0, <2>1, <2>2, <2>3, <2>4, <2>5, <2>6 DEF AskedInv
<1>4. ASSUME NEW c, DecodeResult(c) \/ EncodeResult(c) PROVE AskedInv'
  BY <1>4, CallPlaces
     DEF RetryInv, AskedInv, DecodeResult, EncodeResult, vars, decoder, U_SUCCESS
<1>5. CASE EncoderStep
  <2>1. /\ pc \notin {"ready", "done"} /\ pc' # "ready"
        /\ src' = src /\ capacity' = capacity
        /\ UNCHANGED <<decoder, flow, asked>>
    BY <1>5, CallPlaces, StepStatus DEF EncoderStep, RetryInv, CodecInv, IInv, caller
  <2> QED BY <2>1 DEF RetryInv, AskedInv, decoder
<1>6. CASE DecoderStep
  <2>1. dpc \notin {"ready", "done"} /\ dpc' # "ready" /\ UNCHANGED <<vars, flow, asked>>
    BY <1>6, CallPlaces DEF DecoderStep, caller
  <2>2. dsrc' = dsrc /\ dcapacity' = dcapacity
    <3>1. DecP!Step
      BY <1>6, SameStep DEF DecoderStep
    <3> QED BY <3>1, SameAssumptions, SurrogateLayout, DecP!StepStatus
            DEF RetryInv, CodecInv, DecoderInv
  <2>3. pc' = pc /\ status' = status /\ flow' = flow /\ asked' = asked
    BY <2>1 DEF vars
  <2>4. U_SUCCESS(status)' = U_SUCCESS(status)
    BY <2>3 DEF U_SUCCESS
  <2> QED BY <2>1, <2>2, <2>3, <2>4 DEF RetryInv, AskedInv
<1> QED BY <1>1, <1>2, <1>3, <1>4, <1>5, <1>6, Zenon DEF CodecNext

(* What is needed about both tries holds throughout.                       *)
LEMMA RetryIsInvariant ==
  ASSUME CodecInputs
  PROVE  CodecSpec => []RetryInv
<1>1. CodecInit => RetryInv
  <2> SUFFICES ASSUME CodecInit PROVE RetryInv
    OBVIOUS
  <2>1. CodecInv
    BY InitInv, DecoderInitInv DEF CodecInit, CodecInv
  <2>2. EncOrbitInv /\ DecP!DecOrbitInv
    BY DEF CodecInit, Init, Dec!Init, EncOrbitInv, DecP!DecOrbitInv
  <2>3. AskedInv
    BY DEF CodecInit, Init, Dec!Init, AskedInv
  <2> QED BY <2>1, <2>2, <2>3 DEF RetryInv
<1>2. CodecInv /\ CodecInv' /\ RetryInv /\ [CodecNext]_allVars => RetryInv'
  <2> SUFFICES ASSUME CodecInv, CodecInv', RetryInv, [CodecNext]_allVars PROVE RetryInv'
    OBVIOUS
  <2>1. EncOrbitInv'
    <3>1. CASE \E s \in Seq(CodeUnit), c \in Nat : Call(s, c)
      BY <3>1, CallOrbit
    <3>2. CASE Step
      BY <3>2, StepOrbit DEF RetryInv, CodecInv, IInv
    <3>3. CASE UNCHANGED vars
      BY <3>3, EncIdleOrbit DEF RetryInv
    <3> QED BY <3>1, <3>2, <3>3, CodecStep
  <2>2. DecP!DecOrbitInv'
    <3>1. CASE \E s \in Seq(Nat), c \in Nat : Dec!Call(s, c)
      BY <3>1, DecCallOrbit
    <3>2. CASE Dec!Step
      BY <3>2, DecStepOrbit DEF RetryInv, CodecInv
    <3>3. CASE UNCHANGED decoder
      BY <3>3, DecIdleOrbit DEF RetryInv
    <3> QED BY <3>1, <3>2, <3>3, CodecStep
  <2>3. AskedInv'
    <3>1. CASE CodecNext
      BY <3>1, AskedStep
    <3>2. CASE UNCHANGED allVars
      <4>1. /\ UNCHANGED <<pc, dpc, status, src, capacity, dsrc, dcapacity>>
            /\ UNCHANGED <<flow, asked>>
        BY <3>2 DEF allVars, vars, decoder, caller
      <4> QED BY <4>1 DEF RetryInv, AskedInv, U_SUCCESS
    <3> QED BY <3>1, <3>2
  <2> QED BY <2>1, <2>2, <2>3 DEF RetryInv
<1> QED BY <1>1, <1>2, CodecIsInvariant, PTL DEF CodecSpec

(* The second try of either function, in either flow, succeeds and returns *)
(* the length that the first one asked for.                                *)
THEOREM CodecRetrySucceeds ==
  ASSUME CodecInputs
  PROVE  CodecSpec => []RetrySucceeds
<1>1. RetryInv => RetrySucceeds
  <2> SUFFICES ASSUME RetryInv, asked >= 0
               PROVE  /\ flow = "encode" /\ dpc = "ready" /\ pc = "done" =>
                           U_SUCCESS(status) /\ destLength = asked
                      /\ dpc = "done" /\ (flow = "encode" \/ pc = "ready") =>
                           U_SUCCESS(dstatus) /\ ddestLength = asked
    BY DEF RetrySucceeds
  <2>0. asked \in Nat
    BY DEF RetryInv, AskedInv
  <2>1. ASSUME flow = "encode", dpc = "ready", pc = "done"
        PROVE  U_SUCCESS(status) /\ destLength = asked
    <3>1. EncReturns(src, asked) /\ capacity >= asked
      BY <2>1 DEF RetryInv, AskedInv
    <3> QED BY <2>0, <2>1, <3>1, EncReturnsTheSame
            DEF RetryInv, CodecInv, IInv, EncReturns
  <2>2. ASSUME dpc = "done", flow = "encode" \/ pc = "ready"
        PROVE  U_SUCCESS(dstatus) /\ ddestLength = asked
    <3>1. DecP!DecReturns(dsrc, asked) /\ dcapacity >= asked
      BY <2>2 DEF RetryInv, AskedInv
    <3>2. DecP!U_SUCCESS(dstatus) /\ ddestLength = asked
      BY <2>0, <2>2, <3>1, SameAssumptions, SurrogateLayout, DecP!DecReturnsTheSame
         DEF RetryInv, CodecInv, DecoderInv
    <3> QED BY <3>2, SameNumbers
  <2> QED BY <2>1, <2>2
<1> QED BY <1>1, RetryIsInvariant, PTL

-----------------------------------------------------------------------------
(* The decoder computes the definition, in every call of the caller.       *)

(* The definition of the codec is the one the proofs are about: its        *)
(* integers,                                                               *)
LEMMA SameInteger ==
  ASSUME NEW p, NEW b
  PROVE  Integer(p, b) = DecP!Integer(p, b)
BY Zenon
   DEF Integer, DecP!Integer, IntegerStates, DecP!IntegerStates, NoDigit,
       DecP!NoDigit, IsLastDigit, DecP!IsLastDigit, WithDigit, DecP!WithDigit,
       NextDigit, DecP!NextDigit, Digit, DecP!Digit, DecodeDigit,
       DecP!DecodeDigit, Threshold, DecP!Threshold, Base, DecP!Base,
       TMin, DecP!TMin, TMax, DecP!TMax

(* the bias,                                                               *)
LEMMA SameBias ==
  ASSUME NEW delta1, NEW length, NEW firstTime
  PROVE  AdaptBias(delta1, length, firstTime) =
           DecP!AdaptBias(delta1, length, firstTime)
BY SMT DEF AdaptBias, DecP!AdaptBias, PowersOf35, DecP!PowersOf35,
           Damp, DecP!Damp, Base, DecP!Base, Skew, DecP!Skew,
           TMax, DecP!TMax, TMin, DecP!TMin, Cardinality, DecP!Cardinality

(* its steps,                                                              *)
LEMMA SameInserted ==
  ASSUME NEW s, NEW integer, NEW basics
  PROVE  /\ NoInsertion(s, integer) <=> DecP!NoInsertion(s, integer)
         /\ Inserted(s, integer, basics) = DecP!Inserted(s, integer, basics)
BY SameBias, Zenon
   DEF NoInsertion, DecP!NoInsertion, Inserted, DecP!Inserted, NextPoint,
       DecP!NextPoint, IsSurrogate, DecP!IsSurrogate, MaxCodePoint,
       DecP!MaxCodePoint

(* their recursion                                                         *)
LEMMA SameDecoding ==
  ASSUME NEW p, NEW basics
  PROVE  Decoding(p, basics) = DecP!Decoding(p, basics)
<1> DEFINE From(f) ==
             [s \in DecoderStates(p) |->
                IF s.x > Len(p) THEN [ok |-> TRUE, text |-> s.c]
                ELSE IF NoInsertion(s, IntegerOf(p, s)) THEN Malformed
                ELSE f[Inserted(s, IntegerOf(p, s), basics)]]
           Other(f) ==
             [s \in DecP!DecoderStates(p) |->
                IF s.x > Len(p) THEN [ok |-> TRUE, text |-> s.c]
                ELSE IF DecP!NoInsertion(s, DecP!IntegerOf(p, s)) THEN DecP!Malformed
                ELSE f[DecP!Inserted(s, DecP!IntegerOf(p, s), basics)]]
<1>1. DecoderStates(p) = DecP!DecoderStates(p) /\ Malformed = DecP!Malformed
  BY Zenon DEF DecoderStates, DecP!DecoderStates, Malformed, DecP!Malformed
<1>2. \A s : IntegerOf(p, s) = DecP!IntegerOf(p, s)
  BY SameInteger, Zenon DEF IntegerOf, DecP!IntegerOf, Base, DecP!Base
<1>3. \A s, integer : /\ NoInsertion(s, integer) <=> DecP!NoInsertion(s, integer)
                      /\ Inserted(s, integer, basics)
                           = DecP!Inserted(s, integer, basics)
  BY SameInserted
<1>4. \A f : From(f) = Other(f)
  BY <1>1, <1>2, <1>3
<1>5. Decoding(p, basics) = CHOOSE f : f = From(f)
  BY Zenon DEF Decoding
<1>6. DecP!Decoding(p, basics) = CHOOSE f : f = Other(f)
  BY Zenon DEF DecP!Decoding
<1> HIDE DEF From, Other
<1>7. (CHOOSE f : f = From(f)) = CHOOSE f : f = Other(f)
  BY <1>4, Zenon
<1> QED BY <1>5, <1>6, <1>7

(* and where it starts.                                                    *)
LEMMA SameDecodedPoints ==
  ASSUME NEW p
  PROVE  DecodedPoints(p) = DecP!DecodedPoints(p)
<1> DEFINE last(d) == LET delimiters == {x \in DOMAIN p : p[x] = d}
                      IN  CHOOSE x \in delimiters \cup {1} :
                            \A y \in delimiters : y <= x
           start(l, c) == [x |-> IF l = 1 THEN 1 ELSE l + 1, n |-> InitialN, i |-> 0,
                           bias |-> InitialBias, c |-> c]
           From(l) == LET basic == SubSeq(p, 1, l - 1)
                      IN  IF /\ Len(p) <= DecodeMaxChars
                             /\ \A x \in DOMAIN basic : IsBasic(basic[x])
                          THEN Decoding(p, l - 1)[start(l, basic)]
                          ELSE Malformed
           Other(l) == LET basic == SubSeq(p, 1, l - 1)
                       IN  IF /\ Len(p) <= DecodeMaxChars
                              /\ \A x \in DOMAIN basic : IsBasic(basic[x])
                           THEN DecP!Decoding(p, l - 1)[start(l, basic)]
                           ELSE Malformed
<1>1. \A l : From(l) = Other(l)
  <2>1. \A l : Decoding(p, l - 1) = DecP!Decoding(p, l - 1)
    BY SameDecoding
  <2> HIDE DEF start
  <2> QED BY <2>1, Zenon
<1>2. DecodedPoints(p) = From(last(Delimiter))
  BY Zenon DEF DecodedPoints
<1>3. DecP!DecodedPoints(p) = Other(last(Delimiter))
  BY Zenon
     DEF DecP!DecodedPoints, Delimiter, DecP!Delimiter, InitialN, DecP!InitialN,
         InitialBias, DecP!InitialBias, IsBasic, DecP!IsBasic, DecodeMaxChars,
         DecP!DecodeMaxChars, Malformed, DecP!Malformed
<1> HIDE DEF From, Other, last
<1> QED BY <1>1, <1>2, <1>3

(* The code points of the output.                                          *)
LEMMA SameCodePoints ==
  ASSUME NEW s
  PROVE  CodePoints(s) = DecP!CodePoints(s)
BY Zenon
   DEF CodePoints, DecP!CodePoints, CodePointAt, DecP!CodePointAt,
       U16_GET_SUPPLEMENTARY, DecP!U16_GET_SUPPLEMENTARY, StartsPair,
       DecP!StartsPair, IsLead, DecP!IsLead, IsTrail, DecP!IsTrail

(* Whatever text a call is given, and however often it is made: a call     *)
(* that is not asking for a larger buffer accepts what RFC 3492 accepts,   *)
(* and returns the code points that it defines.                            *)
THEOREM CodecDecodesTheDefinition ==
  ASSUME CodecInputs
  PROVE  CodecSpec => []DecodesTheDefinition
<1>1. CodecInit => DecP!DecodesInv
  BY DEF CodecInit, Dec!Init, DecP!DecodesInv, DecP!InLoops
<1>2. CodecInv /\ DecP!DecodesInv /\ [CodecNext]_allVars => DecP!DecodesInv'
  <2> SUFFICES ASSUME CodecInv, DecP!DecodesInv, [CodecNext]_allVars
               PROVE  DecP!DecodesInv'
    OBVIOUS
  <2>1. ASSUME NEW s \in Seq(Nat), NEW c \in Nat, Dec!Call(s, c)
        PROVE  DecP!DecodesInv'
    <3>1. DecP!Call(s, c)
      BY <2>1, SameCall
    <3> QED BY <3>1, SameAssumptions, SurrogateLayout, DecP!CallDecodes
  <2>2. CASE Dec!Step
    <3>1. DecP!Step
      BY <2>2, SameStep
    <3> QED BY <3>1, SameAssumptions, SurrogateLayout, DecP!StepDecodes
            DEF CodecInv, DecoderInv
  <2>3. CASE UNCHANGED decoder
    <3>1. UNCHANGED <<dpc, dsrc, dcapacity, ddest, ddestLength, ddestCPCount, dn, di,
                      dbias, din, doldi, dw, dk, dstatus>>
      BY <2>3 DEF decoder
    <3> QED BY <3>1
            DEF DecP!DecodesInv, DecP!InLoops, DecP!Decodes, DecP!StateOf,
                DecP!IntegerState
  <2> QED BY <2>1, <2>2, <2>3, CodecStep
<1>3. DecP!DecodesInv => DecodesTheDefinition
  <2> SUFFICES ASSUME DecP!DecodesInv, dpc = "done",
                      dstatus # U_BUFFER_OVERFLOW_ERROR
               PROVE  /\ U_SUCCESS(dstatus) = DecodedPoints(dsrc).ok
                      /\ U_SUCCESS(dstatus) =>
                           CodePoints(ddest) = DecodedPoints(dsrc).text
    BY DEF DecodesTheDefinition
  <2>1. /\ DecP!U_SUCCESS(dstatus) = DecP!DecodedPoints(dsrc).ok
        /\ DecP!U_SUCCESS(dstatus) =>
             DecP!CodePoints(ddest) = DecP!DecodedPoints(dsrc).text
    BY OverflowIsFailure DEF DecP!DecodesInv
  <2> QED BY <2>1, SameNumbers, SameDecodedPoints, SameCodePoints, Zenon
<1> QED BY <1>1, <1>2, <1>3, CodecIsInvariant, PTL DEF CodecSpec

-----------------------------------------------------------------------------
(* What the encoder has written can be read back.                          *)

(* The code points of the input, where the buffer has them.                *)
Points == CodePoints(src)

PointsInv ==
  /\ InLoops =>
       /\ Len(cpBuffer) <= Len(Points)
       /\ \A x \in Positions :
            /\ ~IsSurrogate(Points[x])
            /\ cpBuffer[x] = IF IsBasic(Points[x]) THEN 0 ELSE Points[x]
  /\ pc = "copy" => /\ IsBoundary(src, j)
                    /\ CountCodePoints(src, 0, j) = Len(cpBuffer)
  /\ pc \in {"round", "scan", "integer"} => Len(cpBuffer) = Len(Points)

(* Their types.                                                            *)
LEMMA PointsType ==
  ASSUME BuffersInv
  PROVE  /\ Points \in Seq(0 .. MaxCodePoint) /\ Points \in Seq(Nat)
         /\ Len(Points) \in Nat /\ Len(Points) = CountCodePoints(src, 0, Len(src))
<1>1. Points \in Seq(0 .. MaxCodePoint)
  BY CodePointsType DEF BuffersInv, CodeUnit, Points
<1>2. src \in Seq(Nat)
  BY SurrogateLayout DEF BuffersInv, CodeUnit
<1>3. Len(Points) = CountCodePoints(src, 0, Len(src))
  BY <1>2, CodePointsAtBoundaries DEF Points
<1> DEFINE c == Points
<1> HIDE DEF c
<1>4. c \in Seq(Nat) /\ Len(c) \in Nat
  <2>1. c \in Seq(0 .. MaxCodePoint)
    BY <1>1 DEF c
  <2>2. /\ Len(c) \in Nat /\ c = [x \in 1 .. Len(c) |-> c[x]]
        /\ \A x \in 1 .. Len(c) : c[x] \in 0 .. MaxCodePoint
    <3> DEFINE S == 0 .. MaxCodePoint
    <3>1. c \in Seq(S)
      BY <2>1
    <3> HIDE DEF S
    <3>2. /\ Len(c) \in Nat /\ c = [x \in 1 .. Len(c) |-> c[x]]
          /\ \A x \in 1 .. Len(c) : c[x] \in S
      BY <3>1
    <3> QED BY <3>2 DEF S
  <2>3. [x \in 1 .. Len(c) |-> c[x]] \in [1 .. Len(c) -> Nat]
    BY <2>2
  <2>4. c \in [1 .. Len(c) -> Nat]
    BY <2>2, <2>3, Zenon
  <2> QED BY <2>2, <2>4, SeqDef, Zenon
<1>5. Points \in Seq(Nat) /\ Len(Points) \in Nat
  BY <1>4 DEF c
<1> QED BY <1>1, <1>3, <1>5

(* The next code point of src becomes the next one of the buffer.          *)
LEMMA NextPointIsCopied ==
  ASSUME IInv, PointsInv, pc = "copy", j < Len(src), NEW c, c = CodePointAt(src, j),
         ~IsSurrogate(c), cpBuffer' = Append(cpBuffer, IF IsBasic(c) THEN 0 ELSE c),
         j' = NextIndex(src, j), UNCHANGED <<pc, src>>
  PROVE  /\ PointsInv'
         /\ Len(cpBuffer) + 1 \in 1 .. Len(Points) /\ Points[Len(cpBuffer) + 1] = c
         /\ Points' = Points
<1>1. /\ src \in Seq(CodeUnit) /\ src \in Seq(Nat) /\ j \in Nat /\ Len(src) \in Nat
      /\ cpBuffer \in Seq(0 .. MaxCodePoint) /\ Len(cpBuffer) \in Nat
      /\ j \in 0 .. Len(src) - 1
  BY DEF IInv, BuffersInv, TypeOK
<1>2. /\ Points \in Seq(Nat) /\ Len(Points) \in Nat
      /\ Len(Points) = CountCodePoints(src, 0, Len(src))
  BY PointsType DEF IInv
<1>3. IsBoundary(src, j) /\ CountCodePoints(src, 0, j) = Len(cpBuffer)
  BY DEF PointsInv
<1>4. Points[Len(cpBuffer) + 1] = c
  BY <1>1, <1>3, CodePointsAtBoundaries DEF Points
<1>5. Len(cpBuffer) + 1 <= Len(Points)
  BY <1>1, <1>2, <1>3, CountOfBoundary
<1>6. /\ IsBoundary(src, NextIndex(src, j))
      /\ CountCodePoints(src, 0, NextIndex(src, j)) = Len(cpBuffer) + 1
  BY <1>1, <1>3, NextIndexIsBoundary, NextBoundaryCount
<1>7. c \in 0 .. MaxCodePoint
  BY <1>1, CodePointAtRange DEF CodeUnit
<1> DEFINE v == IF IsBasic(c) THEN 0 ELSE c
<1>8. v \in 0 .. MaxCodePoint
  BY <1>7, MaxCodePointIsNat
<1>9. /\ Len(cpBuffer') = Len(cpBuffer) + 1 /\ Positions = 1 .. Len(cpBuffer)
      /\ Positions' = 1 .. Len(cpBuffer) + 1
      /\ \A x \in Positions : cpBuffer'[x] = cpBuffer[x]
      /\ cpBuffer'[Len(cpBuffer) + 1] = v
  <2> HIDE DEF v
  <2>1. cpBuffer' = Append(cpBuffer, v)
    BY DEF v
  <2> QED BY <1>1, <1>8, <2>1 DEF Positions
<1>10. Points' = Points
  BY DEF Points
<1>11. \A x \in Positions' : x \in Positions \/ x = Len(cpBuffer) + 1
  BY <1>1, <1>9, SMTT(30)
<1>12. /\ Len(cpBuffer) <= Len(Points)
       /\ \A x \in Positions :
            /\ ~IsSurrogate(Points[x])
            /\ cpBuffer[x] = IF IsBasic(Points[x]) THEN 0 ELSE Points[x]
  BY DEF PointsInv, InLoops
<1> HIDE DEF Points
<1>13. \A x \in Positions' :
         /\ ~IsSurrogate(Points[x])
         /\ cpBuffer'[x] = IF IsBasic(Points[x]) THEN 0 ELSE Points[x]
  BY <1>4, <1>9, <1>11, <1>12
<1>14. IsBoundary(src', j') /\ CountCodePoints(src', 0, j') = Len(cpBuffer')
  BY <1>6, <1>9
<1>15. PointsInv'
  <2> HIDE DEF Positions
  <2> QED BY <1>5, <1>9, <1>10, <1>13, <1>14 DEF PointsInv
<1>16. Len(cpBuffer) + 1 \in 1 .. Len(Points)
  BY <1>1, <1>2, <1>5
<1> QED BY <1>4, <1>10, <1>15, <1>16

(* A step that leaves the code points alone.                               *)
LEMMA PointsStay ==
  ASSUME PointsInv, UNCHANGED <<src, cpBuffer>>,
         \/ pc' = "done"
         \/ pc \in {"round", "scan", "integer"} /\ pc' \in {"round", "scan", "integer"}
  PROVE  PointsInv' /\ Points' = Points /\ Positions' = Positions
BY DEF PointsInv, InLoops, Points, Positions

(* What has been handled: the smaller code points, and of those equal to n *)
(* the ones that the scan has passed.                                      *)
Handled == IF pc = "round" THEN Smaller ELSE Smaller \cup Equal

(* How many of them the scan has passed.                                   *)
Place == IF pc = "round" THEN 0 ELSE UpTo(Handled, j)

(* delta counts from where the decoder is at code point start and position *)
(* i of the text c, to where the scan is.                                  *)
CountsFrom(c, start, i) ==
  /\ IsTextOf(c, Points, Handled)
  /\ start \in InitialN .. n /\ i \in Nat
  /\ delta + i = (n - start) * (handledCPCount + 1) + Place

(* A state of the decoder.                                                 *)
Ready(x, c, start, i) == [x |-> x, n |-> start, i |-> i, bias |-> bias, c |-> c]

(* The basic characters are copied.                                        *)
CopyTextInv ==
  pc = "copy" /\ destLength <= capacity =>
    /\ Len(dest) = destLength
    /\ IsTextOf(dest, Points, Basic)
    /\ \A x \in 1 .. Len(dest) : IsBasic(dest[x])

(* What has been written is read back as what has been handled.            *)
RoundTextInv ==
  pc \in {"round", "scan"} /\ destLength <= capacity =>
    /\ Len(dest) = destLength /\ IsEncoded(dest, basicLength)
    /\ \E c, start, i : /\ CountsFrom(c, start, i)
                        /\ Reaches(dest, basicLength, Ready(Len(dest) + 1, c, start, i))

(* Inside an integer the digits so far make value, and q digits of weight  *)
(* w are missing.                                                          *)
DigitsSoFar(c, start, i, x, value, w) ==
  /\ CountsFrom(c, start, i) /\ x \in 1 .. Len(dest) + 1
  /\ Reaches(dest, basicLength, Ready(x, c, start, i))
  /\ ReadsOn(dest, Ready(x, c, start, i), value, w, k)
  /\ value \in Nat /\ IsWeight(w, k, bias) /\ value + q * w = i + delta

IntegerTextInv ==
  pc = "integer" /\ destLength <= capacity =>
    /\ Len(dest) = destLength /\ IsEncoded(dest, basicLength)
    /\ \E c, start, i, x, value, w : DigitsSoFar(c, start, i, x, value, w)

(* A call that has succeeded has written what the decoder reads as src.    *)
DoneTextInv ==
  pc = "done" /\ U_SUCCESS(status) /\ Len(dest) <= DecodeMaxChars =>
    DecodedPoints(dest) = [ok |-> TRUE, text |-> Points]

TextInv ==
  PointsInv /\ CopyTextInv /\ RoundTextInv /\ IntegerTextInv /\ DoneTextInv

(* As long as everything fits, a write goes behind what is there.          *)
LEMMA WriteFits ==
  ASSUME IInv, NEW t \in Seq(Nat), Write(t), destLength + Len(t) <= capacity,
         destLength <= capacity => Len(dest) = destLength
  PROVE  /\ dest' = dest \o t /\ Len(dest) = destLength
         /\ Len(dest') = destLength' /\ destLength <= capacity
<1>1. /\ dest \in Seq(Nat) /\ destLength \in Nat /\ capacity \in Nat
      /\ Len(t) \in Nat /\ Len(dest) \in Nat
  BY DEF IInv, TypeOK
<1>2. destLength <= capacity /\ Len(dest) = destLength
  BY <1>1
<1>3. dest \o t \in Seq(Nat) /\ Len(dest \o t) = Len(dest) + Len(t)
  BY <1>1
<1> DEFINE length == Len(dest) + Len(t)
           e == dest \o t
<1>4. (IF length < capacity THEN length ELSE capacity) = length
  BY <1>1, <1>2, SMTT(30)
<1>5. dest' = SubSeq(e, 1, length)
  BY <1>4 DEF Write, Store
<1>6. SubSeq(e, 1, length) = e
  <2> HIDE DEF e, length
  <2>1. e \in Seq(Nat) /\ Len(e) = length
    BY <1>3 DEF e, length
  <2> QED BY <2>1
<1> QED BY <1>2, <1>3, <1>5, <1>6 DEF Write

(* A basic code point is written and counts as one.                        *)
LEMMA CopyBasicText == ASSUME IInv, TextInv, CopyBasic PROVE TextInv'
<1> DEFINE c == src[j + 1]
           z == Len(cpBuffer) + 1
<1>1. /\ pc = "copy" /\ pc' = "copy" /\ j < Len(src) /\ IsBasic(c)
      /\ cpBuffer' = Append(cpBuffer, 0) /\ Write(<<c>>) /\ j' = j + 1
      /\ UNCHANGED <<src, capacity, status>>
  BY DEF CopyBasic
<1>2. j \in Nat /\ c \in Nat /\ Len(src) \in Nat /\ cpBuffer \in Seq(Nat)
      /\ Len(cpBuffer) \in Nat
  BY <1>1 DEF IInv, TypeOK
<1>3. ~StartsPair(src, j) /\ ~IsSurrogate(c)
  BY <1>1, <1>2, SurrogateLayout DEF StartsPair, IsLead, IsSurrogate, IsBasic, InitialN
<1>4. CodePointAt(src, j) = c /\ NextIndex(src, j) = j + 1
  BY <1>3 DEF CodePointAt, NextIndex
<1>5. PointsInv' /\ z \in 1 .. Len(Points) /\ Points[z] = c /\ Points' = Points
  <2>1. cpBuffer' = Append(cpBuffer, IF IsBasic(c) THEN 0 ELSE c)
        /\ j' = NextIndex(src, j) /\ UNCHANGED <<pc, src>>
    BY <1>1, <1>4
  <2> HIDE DEF c, z
  <2> QED BY <1>1, <1>3, <1>4, <2>1, NextPointIsCopied DEF TextInv, z
<1>6. Basic' = Basic \cup {z} /\ Basic \in SUBSET (1 .. Len(Points))
      /\ \A x \in Basic : x < z
  <2>1. Len(cpBuffer) <= Len(Points) /\ Len(Points) \in Nat
    BY <1>1, PointsType DEF TextInv, PointsInv, InLoops, IInv
  <2>2. Positions = 1 .. Len(cpBuffer)
    BY PositionsAreIndexes
  <2>3. Positions' = 1 .. z /\ cpBuffer'[z] = 0
        /\ \A x \in 1 .. Len(cpBuffer) : cpBuffer'[x] = cpBuffer[x]
    BY <1>1, <1>2 DEF Positions
  <2>4. \A x \in 1 .. z : x \in 1 .. Len(cpBuffer) \/ x = z
    BY <1>2
  <2>5. \A x \in 1 .. Len(cpBuffer) : x \in 1 .. z /\ x < z
    BY <1>2
  <2>6. z \in 1 .. z
    BY <1>2
  <2>7. Basic = {x \in 1 .. Len(cpBuffer) : cpBuffer[x] < InitialN}
    BY <2>2 DEF Basic
  <2>8. Basic' = {x \in 1 .. z : cpBuffer'[x] < InitialN}
    BY <2>3 DEF Basic
  <2>9. 0 < InitialN
    BY DEF InitialN
  <2> HIDE DEF z
  <2>10. Basic' = Basic \cup {z}
    BY <2>3, <2>4, <2>5, <2>6, <2>7, <2>8, <2>9
  <2>11. Basic \in SUBSET (1 .. Len(Points)) /\ \A x \in Basic : x < z
    BY <1>2, <2>1, <2>5, <2>7
  <2> QED BY <2>10, <2>11
<1>7. CopyTextInv'
  <2> SUFFICES ASSUME destLength' <= capacity'
               PROVE  /\ Len(dest') = destLength'
                      /\ IsTextOf(dest', Points', Basic')
                      /\ \A x \in 1 .. Len(dest') : IsBasic(dest'[x])
    BY DEF CopyTextInv
  <2>1. <<c>> \in Seq(Nat) /\ Len(<<c>>) = 1
    BY <1>2
  <2>2. destLength + Len(<<c>>) <= capacity
    BY <1>1, <2>1 DEF Write
  <2>3. destLength <= capacity => Len(dest) = destLength
    BY <1>1 DEF TextInv, CopyTextInv
  <2>4. /\ dest' = dest \o <<c>> /\ Len(dest') = destLength' /\ destLength <= capacity
    BY <1>1, <2>1, <2>2, <2>3, WriteFits
  <2>5. IsTextOf(dest, Points, Basic) /\ \A x \in 1 .. Len(dest) : IsBasic(dest[x])
    BY <1>1, <2>4 DEF TextInv, CopyTextInv
  <2>6. Points \in Seq(Nat)
    BY PointsType DEF IInv
  <2>7. IsTextOf(dest \o <<Points[z]>>, Points, Basic \cup {z})
    <3> HIDE DEF z, c, Points
    <3> QED BY <1>5, <1>6, <2>5, <2>6, TextGoesOn
  <2>8. IsTextOf(dest', Points', Basic')
    BY <1>5, <1>6, <2>4, <2>7, Zenon
  <2>9. \A x \in 1 .. Len(dest') : IsBasic(dest'[x])
    <3>1. dest \in Seq(Nat) /\ Len(dest) \in Nat
      BY DEF IInv, TypeOK
    <3>2. Len(dest') = Len(dest) + 1 /\ dest'[Len(dest) + 1] = c
          /\ \A x \in 1 .. Len(dest) : dest'[x] = dest[x]
      BY <1>2, <2>4, <3>1
    <3>3. \A x \in 1 .. Len(dest) + 1 : x \in 1 .. Len(dest) \/ x = Len(dest) + 1
      BY <3>1
    <3> QED BY <1>1, <2>5, <3>2, <3>3
  <2> QED BY <2>4, <2>8, <2>9
<1>8. RoundTextInv' /\ IntegerTextInv' /\ DoneTextInv'
  BY <1>1 DEF RoundTextInv, IntegerTextInv, DoneTextInv
<1> QED BY <1>5, <1>7, <1>8 DEF TextInv

(* Another code point is not written yet.                                  *)
LEMMA CopyExtendedText == ASSUME IInv, TextInv, CopyExtended PROVE TextInv'
<1> DEFINE c == CodePointAt(src, j)
           z == Len(cpBuffer) + 1
<1>1. /\ pc = "copy" /\ pc' = "copy" /\ j < Len(src) /\ ~IsBasic(src[j + 1])
      /\ IsSurrogate(src[j + 1]) => StartsPair(src, j)
      /\ cpBuffer' = Append(cpBuffer, c) /\ j' = NextIndex(src, j)
      /\ UNCHANGED <<src, capacity, dest, destLength, numbers, status>>
  BY DEF CopyExtended, NextIndex
<1>2. /\ j \in Nat /\ src \in Seq(Nat) /\ Len(src) \in Nat /\ src[j + 1] \in Nat
      /\ cpBuffer \in Seq(Nat) /\ Len(cpBuffer) \in Nat /\ j \in 0 .. Len(src) - 1
  BY <1>1 DEF IInv, TypeOK
<1>3. ~IsSurrogate(c) /\ ~IsBasic(c) /\ c \in Nat
  <2>1. CASE StartsPair(src, j)
    <3>1. c = U16_GET_SUPPLEMENTARY(src[j + 1], src[j + 2])
      BY <2>1 DEF CodePointAt
    <3>2. /\ src[j + 1] \in Nat /\ src[j + 2] \in Nat
          /\ IsLead(src[j + 1]) /\ IsTrail(src[j + 2])
      BY <1>2, <2>1 DEF StartsPair
    <3>3. c >= FirstSupplementary /\ c \in Nat
      <4>1. src[j + 1] - FirstLead \in Nat /\ src[j + 2] - FirstTrail \in Nat
        BY <3>2, SurrogateLayout DEF IsLead, IsTrail
      <4> DEFINE a == src[j + 1] - FirstLead
                 e == src[j + 2] - FirstTrail
                 p == a * TrailCount
      <4>2. p \in Nat
        BY <4>1, SurrogateLayout
      <4>3. c = FirstSupplementary + p + e
        BY <3>1 DEF U16_GET_SUPPLEMENTARY
      <4> HIDE DEF p, e, c
      <4>4. e \in Nat
        BY <4>1 DEF e
      <4> QED BY <4>2, <4>3, <4>4, SurrogateLayout
    <3> HIDE DEF c
    <3> QED BY <3>3, SurrogateLayout DEF IsSurrogate, IsBasic, InitialN
  <2>2. CASE ~StartsPair(src, j)
    BY <1>1, <1>2, <2>2 DEF CodePointAt
  <2> QED BY <2>1, <2>2
<1>4. cpBuffer' = Append(cpBuffer, IF IsBasic(c) THEN 0 ELSE c)
  BY <1>1, <1>3
<1>5. PointsInv' /\ Points' = Points
  <2> HIDE DEF c
  <2>1. c = CodePointAt(src, j)
    BY DEF c
  <2> QED BY <1>1, <1>3, <1>4, <2>1, NextPointIsCopied DEF TextInv
<1>6. Basic' = Basic
  <2> HIDE DEF c
  <2>1. Positions = 1 .. Len(cpBuffer)
    BY PositionsAreIndexes
  <2>2. Positions' = 1 .. z /\ cpBuffer'[z] = c
        /\ \A x \in 1 .. Len(cpBuffer) : cpBuffer'[x] = cpBuffer[x]
    BY <1>1, <1>2, <1>3 DEF Positions
  <2>3. \A x \in 1 .. z : x \in 1 .. Len(cpBuffer) \/ x = z
    BY <1>2
  <2>4. \A x \in 1 .. Len(cpBuffer) : x \in 1 .. z
    BY <1>2
  <2>5. ~(c < InitialN)
    BY <1>3 DEF IsBasic
  <2>6. Basic = {x \in 1 .. Len(cpBuffer) : cpBuffer[x] < InitialN}
    BY <2>1 DEF Basic
  <2>7. Basic' = {x \in 1 .. z : cpBuffer'[x] < InitialN}
    BY <2>2 DEF Basic
  <2> HIDE DEF z
  <2> QED BY <2>2, <2>3, <2>4, <2>5, <2>6, <2>7
<1>7. CopyTextInv'
  BY <1>1, <1>5, <1>6 DEF TextInv, CopyTextInv
<1>8. RoundTextInv' /\ IntegerTextInv' /\ DoneTextInv'
  BY <1>1 DEF RoundTextInv, IntegerTextInv, DoneTextInv
<1> QED BY <1>5, <1>7, <1>8 DEF TextInv

(* A call that fails promises nothing.                                     *)
LEMMA FailText ==
  ASSUME TextInv, RejectSurrogate \/ RejectOverflow
  PROVE  TextInv'
<1>1. pc' = "done" /\ ~U_SUCCESS(status') /\ UNCHANGED <<src, cpBuffer>>
  BY DEF RejectSurrogate, RejectOverflow, Fail, Return, U_SUCCESS, U_ZERO_ERROR,
         U_INVALID_CHAR_FOUND, U_INTERNAL_PROGRAM_ERROR
<1>2. PointsInv'
  BY <1>1, PointsStay DEF TextInv
<1> QED BY <1>1, <1>2
        DEF TextInv, CopyTextInv, RoundTextInv, IntegerTextInv, DoneTextInv

(* A call begins with nothing.                                             *)
LEMMA CallText ==
  ASSUME NEW s \in Seq(CodeUnit), NEW c, Call(s, c)
  PROVE  TextInv'
<1>1. /\ src' = s /\ cpBuffer' = <<>> /\ dest' = <<>> /\ j' = 0
      /\ \/ pc' = "done" /\ ~U_SUCCESS(status')
         \/ pc' = "copy" /\ destLength' = 0
  BY DEF Call, Fail, Return, U_SUCCESS, U_ZERO_ERROR, U_INPUT_TOO_LONG_ERROR
<1>2. s \in Seq(Nat)
  BY SurrogateLayout DEF CodeUnit
<1>3. Positions' = {} /\ Len(cpBuffer') = 0 /\ Basic' = {}
  BY <1>1 DEF Positions, Basic
<1>4. Points' = CodePoints(s)
  BY <1>1 DEF Points
<1>5. Len(CodePoints(s)) \in Nat
  <2>1. CodePoints(s) \in Seq(Int)
    BY <1>2, CodePointsAtBoundaries
  <2> QED BY <2>1
<1>6. IsBoundary(s, 0) /\ CountCodePoints(s, 0, 0) = 0
  BY FS_EmptySet DEF IsBoundary, CountCodePoints
<1>7. PointsInv'
  BY <1>1, <1>3, <1>4, <1>5, <1>6 DEF PointsInv, InLoops
<1>8. CopyTextInv'
  BY <1>1, <1>3, FS_EmptySet DEF CopyTextInv, IsTextOf
<1> QED BY <1>1, <1>7, <1>8
        DEF TextInv, RoundTextInv, IntegerTextInv, DoneTextInv

(* What TextInv says in a round or a scan, of one state of the decoder.    *)
LEMMA RoundTextHolds ==
  ASSUME PointsInv', pc' \in {"round", "scan"},
         destLength' <= capacity' =>
           /\ Len(dest') = destLength' /\ IsEncoded(dest', basicLength')
           /\ \E c, start, i :
                /\ CountsFrom(c, start, i)'
                /\ Reaches(dest', basicLength', Ready(Len(dest) + 1, c, start, i)')
  PROVE  TextInv'
BY DEF TextInv, CopyTextInv, RoundTextInv, IntegerTextInv, DoneTextInv

(* The basic string and its delimiter are what the decoder starts from.    *)
LEMMA FinishBasicText == ASSUME IInv, TextInv, FinishBasic PROVE TextInv'
<1> DEFINE t == IF destLength > 0 THEN <<Delimiter>> ELSE <<>>
<1>1. /\ pc = "copy" /\ pc' = "round" /\ j = Len(src)
      /\ basicLength' = destLength /\ handledCPCount' = destLength /\ Write(t)
      /\ n' = InitialN /\ delta' = 0 /\ bias' = InitialBias
      /\ UNCHANGED <<src, capacity, cpBuffer, j, q, k, status>>
  BY DEF FinishBasic
<1>2. Len(cpBuffer) = Len(Points) /\ Points' = Points /\ PointsInv'
  <2>1. CountCodePoints(src, 0, j) = Len(cpBuffer)
    BY <1>1 DEF TextInv, PointsInv
  <2>2. Len(Points) = CountCodePoints(src, 0, Len(src))
    BY PointsType DEF IInv
  <2>3. Points' = Points /\ Positions' = Positions
    BY <1>1 DEF Points, Positions
  <2>4. Len(cpBuffer) = Len(Points)
    BY <1>1, <2>1, <2>2
  <2>5. PointsInv'
    BY <1>1, <2>3, <2>4 DEF TextInv, PointsInv, InLoops
  <2> QED BY <2>3, <2>4, <2>5
<1>3. Handled' = Basic
  <2>1. Smaller' = Basic
    BY <1>1 DEF Smaller, Basic, Positions
  <2> QED BY <1>1, <2>1 DEF Handled
<1>4. ASSUME destLength' <= capacity'
      PROVE  /\ Len(dest') = destLength' /\ IsEncoded(dest', basicLength')
             /\ \E c, start, i :
                  /\ CountsFrom(c, start, i)'
                  /\ Reaches(dest', basicLength', Ready(Len(dest) + 1, c, start, i)')
  <2>1. /\ t \in Seq(Nat) /\ Len(t) = IF destLength > 0 THEN 1 ELSE 0
        /\ destLength \in Nat /\ dest \in Seq(Nat)
        /\ destLength > 0 => t[1] = Delimiter
    BY DEF IInv, TypeOK, Delimiter
  <2>2. destLength + Len(t) <= capacity
    BY <1>1, <1>4 DEF Write
  <2>3. destLength <= capacity => Len(dest) = destLength
    BY <1>1 DEF TextInv, CopyTextInv
  <2>4. /\ dest' = dest \o t /\ Len(dest') = destLength' /\ destLength <= capacity
        /\ Len(dest) = destLength /\ destLength' = destLength + Len(t)
    <3> HIDE DEF t
    <3> QED BY <1>1, <2>1, <2>2, <2>3, WriteFits DEF Write
  <2>5. IsTextOf(dest, Points, Basic) /\ \A x \in 1 .. Len(dest) : IsBasic(dest[x])
    BY <1>1, <2>4 DEF TextInv, CopyTextInv
  <2> HIDE DEF t
  <2> DEFINE b == destLength
             e == dest'
  <2>6. /\ b \in Nat /\ Len(e) = (IF b > 0 THEN b + 1 ELSE 0) /\ e \in Seq(Nat)
        /\ \A x \in 1 .. b : e[x] = dest[x]
        /\ b > 0 => e[b + 1] = Delimiter
    BY <2>1, <2>4
  <2>7. IsEncoded(e, b)
    BY <2>4, <2>5, <2>6 DEF IsEncoded
  <2>8. SubSeq(e, 1, b) = dest
    <3>1. SubSeq(dest \o t, 1, b) = SubSeq(dest, 1, b) /\ SubSeq(dest, 1, b) = dest
      BY <2>1, <2>4, BeginningStays
    <3> QED BY <2>4, <3>1
  <2>9. PICK c : c = dest
    OBVIOUS
  <2>10. CountsFrom(c, InitialN, 0)'
    <3>1. IsTextOf(c, Points', Handled')
      BY <1>2, <1>3, <2>5, <2>9
    <3>2. Place' = 0
      BY <1>1 DEF Place
    <3>3. InitialN \in InitialN .. n' /\ 0 \in Nat
          /\ delta' + 0 = (n' - InitialN) * (handledCPCount' + 1) + Place'
      BY <1>1, <2>1, <3>2 DEF InitialN
    <3> QED BY <3>1, <3>3 DEF CountsFrom
  <2>11. Ready(Len(dest) + 1, c, InitialN, 0)' = StartOf(e, b)
    <3>1. Len(e) + 1 = IF b > 0 THEN b + 2 ELSE 1
      BY <2>6
    <3> QED BY <1>1, <2>8, <2>9, <3>1 DEF Ready, StartOf
  <2>12. Reaches(dest', basicLength', Ready(Len(dest) + 1, c, InitialN, 0)')
    BY <1>1, <2>11 DEF Reaches
  <2> QED BY <1>1, <2>4, <2>7, <2>10, <2>12
<1> QED BY <1>1, <1>2, <1>4, RoundTextHolds

(* What has been handled, in the loops behind the first one.               *)
LEMMA HandledType ==
  ASSUME IInv, PointsInv, pc \in {"round", "scan", "integer"}
  PROVE  /\ Points \in Seq(Nat) /\ Len(Points) \in Nat
         /\ Positions = 1 .. Len(Points) /\ Len(cpBuffer) = Len(Points)
         /\ Handled \in SUBSET (1 .. Len(Points)) /\ IsFiniteSet(Handled)
         /\ handledCPCount = Cardinality(Handled) /\ handledCPCount \in Nat
         /\ j \in Nat /\ n \in Nat /\ delta \in Nat
         /\ UpTo(Handled, j) \in 0 .. handledCPCount
         /\ Place \in 0 .. handledCPCount
<1>1. Points \in Seq(Nat) /\ Len(Points) \in Nat
  BY PointsType DEF IInv
<1>2. Len(cpBuffer) = Len(Points) /\ Positions = 1 .. Len(Points)
  BY PositionsAreIndexes DEF PointsInv
<1>3. handledCPCount = Cardinality(Handled)
  BY DEF IInv, RoundInv, ScanInv, Handled
<1>4. Handled \in SUBSET (1 .. Len(Points))
  BY <1>2 DEF Handled, Smaller, Equal
<1>5. j \in Nat /\ n \in Nat /\ delta \in Nat /\ handledCPCount \in Nat
  BY DEF IInv, TypeOK
<1>6. IsFiniteSet(Handled) /\ UpTo(Handled, j) \in 0 .. Cardinality(Handled)
  <2>1. j \in Int
    BY <1>5
  <2>2. \A m \in Nat : \A S \in SUBSET (1 .. m) :
          IsFiniteSet(S) /\ \A x \in Int : UpTo(S, x) \in 0 .. Cardinality(S)
    BY UpToType
  <2> QED BY <1>1, <1>4, <2>1, <2>2
<1>7. Place \in 0 .. handledCPCount
  BY <1>3, <1>5, <1>6 DEF Place
<1> QED BY <1>1, <1>2, <1>3, <1>4, <1>5, <1>6, <1>7

(* A step that does not write: the state of the decoder stays, and what    *)
(* delta counts from there has to be what it says.                         *)
LEMMA CountsGoOn ==
  ASSUME TextInv, pc \in {"round", "scan"}, pc' \in {"round", "scan"},
         UNCHANGED <<src, capacity, dest, destLength, cpBuffer, basicLength, bias>>,
         \A c, start, i : CountsFrom(c, start, i) => CountsFrom(c, start, i)'
  PROVE  TextInv'
<1>1. PointsInv'
  BY PointsStay DEF TextInv
<1>2. ASSUME destLength' <= capacity'
      PROVE  /\ Len(dest') = destLength' /\ IsEncoded(dest', basicLength')
             /\ \E c, start, i :
                  /\ CountsFrom(c, start, i)'
                  /\ Reaches(dest', basicLength', Ready(Len(dest) + 1, c, start, i)')
  <2>1. /\ Len(dest) = destLength /\ IsEncoded(dest, basicLength)
        /\ \E c, start, i : /\ CountsFrom(c, start, i)
                            /\ Reaches(dest, basicLength, Ready(Len(dest) + 1, c, start, i))
    BY <1>2 DEF TextInv, RoundTextInv
  <2>2. PICK c, start, i : /\ CountsFrom(c, start, i)
                           /\ Reaches(dest, basicLength, Ready(Len(dest) + 1, c, start, i))
    BY <2>1
  <2>3. Ready(Len(dest) + 1, c, start, i)' = Ready(Len(dest) + 1, c, start, i)
    BY DEF Ready
  <2>4. Reaches(dest', basicLength', Ready(Len(dest) + 1, c, start, i)')
    BY <2>2, <2>3
  <2>5. CountsFrom(c, start, i)'
    BY <2>2
  <2>6. Len(dest') = destLength' /\ IsEncoded(dest', basicLength')
    BY <2>1
  <2> QED BY <2>4, <2>5, <2>6
<1> QED BY <1>1, <1>2, RoundTextHolds

(* A round begins: no code point lies between the two of n, and delta is   *)
(* what the decoder counts to the second one.                              *)
LEMMA BeginRoundText == ASSUME IInv, TextInv, BeginRound PROVE TextInv'
<1>1. /\ pc = "round" /\ pc' = "scan" /\ handledCPCount < Len(cpBuffer)
      /\ delta' = delta + (NextCodePoint - n) * (handledCPCount + 1)
      /\ n' = NextCodePoint /\ j' = 0
      /\ UNCHANGED <<src, capacity, dest, destLength, cpBuffer, basicLength, bias,
                     handledCPCount, q, k, status>>
  BY DEF BeginRound
<1>2. /\ NextCodePoint \in n .. MaxCodePoint
      /\ \A x \in Positions : cpBuffer[x] < n <=> cpBuffer[x] < NextCodePoint
  BY <1>1, NextCodePointIsLeast
<1>3. Positions = 1 .. Len(Points) /\ n \in Nat /\ delta \in Nat /\ handledCPCount \in Nat
  BY <1>1, HandledType DEF TextInv
<1>4. Handled' = Handled /\ Place = 0 /\ Place' = 0
  <2>1. Smaller' = Smaller
    BY <1>1, <1>2 DEF Smaller, Positions
  <2>2. Equal' = {}
    BY <1>1, <1>3 DEF Equal, Positions
  <2>3. Handled' = Handled
    BY <1>1, <2>1, <2>2 DEF Handled
  <2>4. UpTo(Handled, 0) = 0
    <3>1. Handled \in SUBSET (1 .. Len(Points))
      BY <1>1, HandledType DEF TextInv
    <3>2. \A y \in 1 .. Len(Points) : ~(y <= 0)
      BY <1>3
    <3>3. {y \in Handled : y <= 0} = {}
      BY <3>1, <3>2, Zenon
    <3> QED BY <3>3, FS_EmptySet DEF UpTo
  <2>5. Place' = UpTo(Handled', j')
    BY <1>1 DEF Place
  <2> QED BY <1>1, <2>3, <2>4, <2>5 DEF Place
<1>5. ASSUME NEW c, NEW start, NEW i, CountsFrom(c, start, i)
      PROVE  CountsFrom(c, start, i)'
  <2>1. /\ IsTextOf(c, Points, Handled) /\ start \in InitialN .. n /\ i \in Nat
        /\ delta + i = (n - start) * (handledCPCount + 1) + 0
    BY <1>4, <1>5 DEF CountsFrom
  <2>2. IsTextOf(c, Points', Handled')
    BY <1>1, <1>4, <2>1 DEF Points
  <2>3. start \in Nat /\ start <= n /\ NextCodePoint \in Nat /\ n <= NextCodePoint
    BY <1>2, <1>3, <2>1 DEF InitialN
  <2>4. (delta + (NextCodePoint - n) * (handledCPCount + 1)) + i
          = (NextCodePoint - start) * (handledCPCount + 1) + 0
    <3> DEFINE m == NextCodePoint
    <3>1. m \in Nat /\ n <= m
      BY <2>3
    <3> HIDE DEF m
    <3> HIDE DEF NextCodePoint
    <3>2. (delta + (m - n) * (handledCPCount + 1)) + i
            = (m - start) * (handledCPCount + 1) + 0
      BY <1>3, <2>1, <2>3, <3>1, RoundCounts
    <3> QED BY <3>2 DEF m
  <2>5. start \in InitialN .. NextCodePoint
    BY <1>2, <1>3, <2>1 DEF InitialN
  <2> QED BY <1>1, <1>4, <2>1, <2>2, <2>4, <2>5 DEF CountsFrom
<1> QED BY <1>1, <1>5, CountsGoOn

(* A round ends behind the last code point, and delta counts the step to   *)
(* the next n.                                                             *)
LEMMA EndRoundText == ASSUME IInv, TextInv, EndRound PROVE TextInv'
<1>1. /\ pc = "scan" /\ pc' = "round" /\ j = Len(cpBuffer)
      /\ delta' = delta + 1 /\ n' = n + 1
      /\ UNCHANGED <<src, capacity, dest, destLength, cpBuffer, basicLength, bias,
                     handledCPCount, j, q, k, status>>
  BY DEF EndRound
<1>2. /\ Positions = 1 .. Len(Points) /\ Len(cpBuffer) = Len(Points)
      /\ Handled \in SUBSET (1 .. Len(Points)) /\ Len(Points) \in Nat
      /\ handledCPCount = Cardinality(Handled) /\ handledCPCount \in Nat
      /\ n \in Nat /\ delta \in Nat
  BY <1>1, HandledType DEF TextInv
<1>3. \A x \in Positions : cpBuffer[x] \in Nat
  BY PositionsAreIndexes
<1>4. Handled' = Handled /\ Place = handledCPCount /\ Place' = 0
  <2>1. Smaller' = Smaller \cup Equal
    BY <1>1, <1>2, <1>3 DEF Smaller, Equal, Positions
  <2>2. Handled' = Handled
    BY <1>1, <2>1 DEF Handled
  <2>3. {y \in Handled : y <= j} = Handled
    <3>1. \A y \in 1 .. Len(Points) : y <= j
      BY <1>1, <1>2
    <3>2. \A y \in Handled : y <= j
      BY <1>2, <3>1, Zenon
    <3> QED BY <3>2
  <2>4. UpTo(Handled, j) = Cardinality(Handled)
    BY <2>3 DEF UpTo
  <2> QED BY <1>1, <1>2, <2>2, <2>4 DEF Place
<1>5. ASSUME NEW c, NEW start, NEW i, CountsFrom(c, start, i)
      PROVE  CountsFrom(c, start, i)'
  <2>1. /\ IsTextOf(c, Points, Handled) /\ start \in InitialN .. n /\ i \in Nat
        /\ delta + i = (n - start) * (handledCPCount + 1) + handledCPCount
    BY <1>4, <1>5 DEF CountsFrom
  <2>2. IsTextOf(c, Points', Handled')
    BY <1>1, <1>4, <2>1 DEF Points
  <2>3. start \in Nat /\ start <= n /\ start \in InitialN .. n + 1
    BY <1>2, <2>1 DEF InitialN
  <2>4. (delta + 1) + i = ((n + 1) - start) * (handledCPCount + 1) + 0
    <3>1. n <= n
      BY <1>2
    <3> QED BY <1>2, <2>1, <2>3, <3>1, RoundCounts, SMTT(30)
  <2> QED BY <1>1, <1>4, <2>1, <2>2, <2>3, <2>4 DEF CountsFrom
<1> QED BY <1>1, <1>5, CountsGoOn

(* One more that is not larger is one more place.                          *)
LEMMA UpToThis ==
  ASSUME NEW m \in Nat, NEW S \in SUBSET (1 .. m), NEW x \in Nat, x + 1 \in S
  PROVE  UpTo(S, x + 1) = UpTo(S, x) + 1
<1> DEFINE R == S \ {x + 1}
           z == x + 1
<1>1. R \in SUBSET (1 .. m) /\ z \in 1 .. m /\ z \notin R /\ S = R \cup {z}
  OBVIOUS
<1>2. R \subseteq Nat
  BY <1>1
<1> HIDE DEF R
<1>3. UpTo(R, x + 1) = UpTo(R, x)
  BY <1>1, <1>2, UpToNext
<1>4. z \in Int /\ x \in Int /\ x < z /\ z >= z
  OBVIOUS
<1>5. UpTo(R \cup {z}, x) = UpTo(R, x) /\ UpTo(R \cup {z}, z) = UpTo(R, z) + 1
  <2> HIDE DEF z
  <2>1. /\ \A y \in Int : y < z => UpTo(R \cup {z}, y) = UpTo(R, y)
        /\ \A y \in Int : y >= z => UpTo(R \cup {z}, y) = UpTo(R, y) + 1
    BY <1>1, UpToGrows
  <2> QED BY <1>4, <2>1
<1> QED BY <1>1, <1>3, <1>5

(* The scan passes a code point that is not n: delta counts it if the      *)
(* decoder has it already.                                                 *)
LEMMA ScanText ==
  ASSUME IInv, TextInv, ScanSmaller \/ ScanLarger
  PROVE  TextInv'
<1>1. /\ pc = "scan" /\ pc' = "scan" /\ j < Len(cpBuffer) /\ j' = j + 1
      /\ \/ cpBuffer[j + 1] < n /\ delta' = delta + 1
         \/ cpBuffer[j + 1] > n /\ delta' = delta
      /\ UNCHANGED <<src, capacity, dest, destLength, cpBuffer, basicLength, n, bias,
                     handledCPCount, q, k, status>>
  BY DEF ScanSmaller, ScanLarger, numbers
<1>2. /\ Positions = 1 .. Len(Points) /\ Len(cpBuffer) = Len(Points)
      /\ Handled \in SUBSET (1 .. Len(Points)) /\ Len(Points) \in Nat
      /\ handledCPCount \in Nat /\ UpTo(Handled, j) \in 0 .. handledCPCount
      /\ n \in Nat /\ delta \in Nat /\ j \in Nat
  BY <1>1, HandledType DEF TextInv
<1>3. \A x \in Positions : cpBuffer[x] \in Nat
  BY PositionsAreIndexes
<1>4. j + 1 \in Positions /\ cpBuffer[j + 1] \in Nat
  BY <1>1, <1>2, <1>3
<1>5. Handled' = Handled
  <2>1. Smaller' = Smaller
    BY <1>1 DEF Smaller, Positions
  <2>2. Equal' = Equal
    <3>1. \A x \in Positions : x <= j + 1 <=> x <= j \/ x = j + 1
      BY <1>2
    <3>2. cpBuffer[j + 1] # n
      BY <1>1, <1>2, <1>4
    <3> QED BY <1>1, <3>1, <3>2 DEF Equal, Positions
  <2> QED BY <1>1, <2>1, <2>2 DEF Handled
<1>6. Place = UpTo(Handled, j) /\ Place' = UpTo(Handled, j + 1)
  BY <1>1, <1>5 DEF Place
<1>7. delta' = delta + (Place' - Place) /\ Place \in Nat /\ Place' \in Nat
  <2>1. CASE cpBuffer[j + 1] < n /\ delta' = delta + 1
    <3>1. j + 1 \in Handled
      BY <1>1, <1>4, <2>1 DEF Handled, Smaller
    <3>2. UpTo(Handled, j + 1) = UpTo(Handled, j) + 1
      BY <1>2, <3>1, UpToThis
    <3> QED BY <1>2, <1>6, <2>1, <3>2
  <2>2. CASE cpBuffer[j + 1] > n /\ delta' = delta
    <3>1. j + 1 \notin Handled
      BY <1>1, <1>2, <1>4, <2>2 DEF Handled, Smaller, Equal
    <3>2. Handled \subseteq Nat
      BY <1>2
    <3>3. UpTo(Handled, j + 1) = UpTo(Handled, j)
      BY <1>2, <3>1, <3>2, UpToNext
    <3> QED BY <1>2, <1>6, <2>2, <3>3
  <2> QED BY <1>1, <2>1, <2>2
<1>8. ASSUME NEW c, NEW start, NEW i, CountsFrom(c, start, i)
      PROVE  CountsFrom(c, start, i)'
  <2>1. /\ IsTextOf(c, Points, Handled) /\ start \in InitialN .. n /\ i \in Nat
        /\ delta + i = (n - start) * (handledCPCount + 1) + Place
    BY <1>8 DEF CountsFrom
  <2>2. IsTextOf(c, Points', Handled')
    BY <1>1, <1>5, <2>1 DEF Points
  <2>3. delta' + i = (n - start) * (handledCPCount + 1) + Place'
    <3> DEFINE a == (n - start) * (handledCPCount + 1)
    <3>1. a \in Int
      BY <1>2, <2>1 DEF InitialN
    <3>2. delta + i = a + Place /\ i \in Nat /\ delta \in Nat
      BY <1>2, <2>1
    <3> HIDE DEF a
    <3>3. delta' + i = a + Place'
      <4>1. \A x, y \in Nat : (delta + (y - x)) + i = (delta + i) + (y - x)
        BY <3>2
      <4>2. delta' + i = (a + Place) + (Place' - Place)
        BY <1>7, <3>2, <4>1, Zenon
      <4>3. \A x, y \in Nat : (a + x) + (y - x) = a + y
        BY <3>1
      <4> QED BY <1>7, <4>2, <4>3, Zenon
    <3> QED BY <3>3 DEF a
  <2> QED BY <1>1, <2>1, <2>2, <2>3 DEF CountsFrom
<1> QED BY <1>1, <1>8, CountsGoOn

(* The scan stops at a code point that is n: delta is to be written.       *)
LEMMA ScanEqualText == ASSUME IInv, TextInv, ScanEqual PROVE TextInv'
<1>1. /\ pc = "scan" /\ pc' = "integer" /\ q' = delta /\ k' = Base
      /\ UNCHANGED <<src, capacity, dest, destLength, cpBuffer, basicLength, n,
                     delta, bias, handledCPCount, j, status>>
  BY DEF ScanEqual
<1>2. PointsInv' /\ Points' = Points
  BY <1>1, PointsStay DEF TextInv
<1>3. /\ dest \in Seq(Nat) /\ Len(dest) \in Nat /\ delta \in Nat /\ bias \in Nat
  BY DEF IInv, TypeOK
<1>4. Handled' = Handled /\ Place' = Place
  <2>1. Smaller' = Smaller /\ Equal' = Equal
    BY <1>1 DEF Smaller, Equal, Positions
  <2>2. Handled' = Handled
    BY <1>1, <2>1 DEF Handled
  <2> QED BY <1>1, <2>2 DEF Place
<1>5. IntegerTextInv'
  <2> SUFFICES ASSUME destLength' <= capacity'
      PROVE  /\ Len(dest') = destLength' /\ IsEncoded(dest', basicLength')
             /\ \E c, start, i, x, value, w : DigitsSoFar(c, start, i, x, value, w)'
    BY Zenon DEF IntegerTextInv
  <2>1. /\ Len(dest) = destLength /\ IsEncoded(dest, basicLength)
        /\ \E c, start, i : /\ CountsFrom(c, start, i)
                            /\ Reaches(dest, basicLength, Ready(Len(dest) + 1, c, start, i))
    BY <1>1 DEF TextInv, RoundTextInv
  <2>2. PICK c, start, i : /\ CountsFrom(c, start, i)
                           /\ Reaches(dest, basicLength, Ready(Len(dest) + 1, c, start, i))
    BY <2>1
  <2>3. PICK x : x = Len(dest) + 1
    OBVIOUS
  <2>4. Ready(x, c, start, i)' = Ready(x, c, start, i)
    BY <1>1 DEF Ready
  <2>5. CountsFrom(c, start, i)' /\ i \in Nat
    BY <1>1, <1>2, <1>4, <2>2 DEF CountsFrom
  <2>6. x \in 1 .. Len(dest') + 1
    BY <1>1, <1>3, <2>3
  <2>7. Reaches(dest', basicLength', Ready(x, c, start, i)')
    BY <1>1, <2>2, <2>3, <2>4
  <2>8. ReadsOn(dest', Ready(x, c, start, i)', i, 1, k')
    <3>1. ReadsOn(dest, Ready(x, c, start, i), i, 1, Base)
      BY <2>3 DEF ReadsOn, IntegerOf, Ready
    <3> QED BY <1>1, <2>4, <3>1
  <2>9. IsWeight(1, k', bias')
    BY DEF IsWeight
  <2>10. i + q' * 1 = i + delta'
    BY <1>1, <1>3, <2>5
  <2>11. Len(dest') = destLength' /\ IsEncoded(dest', basicLength')
    BY <1>1, <2>1
  <2>12. PICK value, w : value = i /\ w = 1
    OBVIOUS
  <2>13. DigitsSoFar(c, start, i, x, value, w)'
    BY <2>5, <2>6, <2>7, <2>8, <2>9, <2>10, <2>12, Zenon DEF DigitsSoFar
  <2> QED BY <2>11, <2>13, Zenon
<1> QED BY <1>1, <1>2, <1>5 DEF TextInv, CopyTextInv, RoundTextInv, DoneTextInv

(* What delta counts fits, and the code point is one.                      *)
LEMMA IntegerFits ==
  ASSUME WideIntegers, IInv, PointsInv, pc = "integer",
         NEW c, NEW start, NEW i, CountsFrom(c, start, i)
  PROVE  /\ i + delta < 1838265625
         /\ j + 1 \in 1 .. Len(Points) /\ j + 1 \notin Handled
         /\ Points[j + 1] = n /\ ~IsSurrogate(n) /\ n <= MaxCodePoint
<1>1. /\ Positions = 1 .. Len(Points) /\ Len(cpBuffer) = Len(Points)
      /\ Handled \in SUBSET (1 .. Len(Points)) /\ Len(Points) \in Nat
      /\ handledCPCount = Cardinality(Handled) /\ handledCPCount \in Nat
      /\ Place \in 0 .. handledCPCount
      /\ n \in Nat /\ delta \in Nat /\ j \in Nat
  BY HandledType
<1>2. j < Len(cpBuffer) /\ cpBuffer[j + 1] = n /\ n <= MaxCodePoint
  BY DEF IInv, ScanInv
<1>3. /\ start \in InitialN .. n /\ i \in Nat /\ start \in Nat /\ n >= InitialN
      /\ delta + i = (n - start) * (handledCPCount + 1) + Place
  BY <1>1 DEF CountsFrom, InitialN
<1>4. j + 1 \in 1 .. Len(Points) /\ j + 1 \notin Handled
  BY <1>1, <1>2 DEF Handled, Smaller, Equal
<1>5. Points[j + 1] = n /\ ~IsSurrogate(n)
  <2>1. /\ ~IsSurrogate(Points[j + 1])
        /\ cpBuffer[j + 1] = IF IsBasic(Points[j + 1]) THEN 0 ELSE Points[j + 1]
    BY <1>1, <1>4 DEF PointsInv, InLoops
  <2>2. n # 0
    BY <1>1, <1>3 DEF InitialN
  <2> QED BY <1>2, <2>1, <2>2
<1>6. handledCPCount + 1 <= EncodeMaxCodeUnits
  <2> DEFINE S == Handled \cup {j + 1}
  <2>1. S \in SUBSET Positions
    BY <1>1, <1>4
  <2>2. Cardinality(S) = handledCPCount + 1
    <3>1. IsFiniteSet(Handled)
      BY HandledType
    <3> QED BY <1>1, <1>4, <3>1, FS_AddElement
  <2> HIDE DEF S
  <2>3. Cardinality(S) <= Len(cpBuffer)
    BY <2>1, PositionsAreFinite DEF IInv
  <2>4. Len(cpBuffer) <= Len(src) /\ Len(src) <= EncodeMaxCodeUnits /\ Len(src) \in Nat
    BY DEF IInv, TypeOK, BuffersInv, InLoops
  <2> QED BY <1>1, <2>2, <2>3, <2>4 DEF EncodeMaxCodeUnits
<1>7. (n - start) * (handledCPCount + 1) + Place < 1838265625
  <2> DEFINE turns == n - start
  <2>1. turns \in Nat /\ turns <= MaxCodePoint
    BY <1>1, <1>2, <1>3, MaxCodePointIsNat
  <2> HIDE DEF turns
  <2>2. turns * (handledCPCount + 1) + Place < 1838265625
    BY <1>1, <1>6, <2>1, CountFits
  <2> QED BY <2>2 DEF turns
<1>8. i + delta < 1838265625
  <2>1. delta + i = i + delta
    BY <1>1, <1>3
  <2> QED BY <1>3, <1>7, <2>1
<1> QED BY <1>2, <1>4, <1>5, <1>8

(* One digit more.                                                         *)
LEMMA DigitIsWritten ==
  ASSUME NEW d \in Seq(Nat), NEW b, IsEncoded(d, b), NEW digit \in 0 .. Base - 1
  PROVE  LET e == d \o <<DigitToBasic(digit)>>
         IN  e \in Seq(Nat) /\ Len(e) = Len(d) + 1 /\ IsEncoded(e, b)
<1> DEFINE u == DigitToBasic(digit)
           e == d \o <<u>>
<1>1. u \in Nat /\ u # Delimiter
  BY DigitsAreRead
<1> HIDE DEF u
<1>2. /\ e \in Seq(Nat) /\ Len(e) = Len(d) + 1 /\ Len(d) \in Nat
      /\ \A x \in 1 .. Len(d) : e[x] = d[x]
      /\ e[Len(d) + 1] = u
  BY <1>1
<1> HIDE DEF e
<1>3. b \in 0 .. Len(e) /\ \A x \in 1 .. b : IsBasic(e[x])
  <2>1. b \in 0 .. Len(d) /\ \A x \in 1 .. b : IsBasic(d[x])
    BY DEF IsEncoded
  <2>2. b \in 0 .. Len(e) /\ \A x \in 1 .. b : x \in 1 .. Len(d)
    BY <1>2, <2>1
  <2> QED BY <1>2, <2>1, <2>2, Zenon
<1>4. b > 0 => b + 1 <= Len(e) /\ e[b + 1] = Delimiter
  <2>1. b \in 0 .. Len(d) /\ (b > 0 => b + 1 <= Len(d) /\ d[b + 1] = Delimiter)
    BY DEF IsEncoded
  <2>2. ASSUME b > 0 PROVE b + 1 <= Len(e) /\ e[b + 1] = Delimiter
    <3>1. b + 1 \in 1 .. Len(d) /\ d[b + 1] = Delimiter
      BY <1>2, <2>1, <2>2
    <3>2. e[b + 1] = d[b + 1]
      BY <1>2, <3>1
    <3> QED BY <1>2, <3>1, <3>2
  <2> QED BY <2>2
<1>5. \A x \in 1 .. Len(e) : (b > 0 => x > b + 1) => e[x] # Delimiter
  <2>1. \A x \in 1 .. Len(e) : x \in 1 .. Len(d) \/ x = Len(d) + 1
    BY <1>2
  <2>2. \A x \in 1 .. Len(d) : (b > 0 => x > b + 1) => d[x] # Delimiter
    BY DEF IsEncoded
  <2> QED BY <1>1, <1>2, <2>1, <2>2
<1>6. IsEncoded(e, b)
  BY <1>3, <1>4, <1>5 DEF IsEncoded
<1> QED BY <1>2, <1>6 DEF e, u

(* A digit that is not the last.                                           *)
LEMMA WriteDigitText ==
  ASSUME WideIntegers, IInv, TextInv, WriteDigit
  PROVE  TextInv'
<1> DEFINE t     == Threshold(k, bias)
           digit == t + ((q - t) % (Base - t))
           rest  == (q - t) \div (Base - t)
           u     == <<DigitToBasic(digit)>>
<1>1. /\ pc = "integer" /\ pc' = "integer" /\ q >= t /\ Write(u)
      /\ q' = rest /\ k' = k + Base
      /\ UNCHANGED <<src, capacity, cpBuffer, basicLength, n, delta, bias,
                     handledCPCount, j, status>>
  BY DEF WriteDigit
<1>2. PointsInv' /\ Points' = Points
  BY <1>1, PointsStay DEF TextInv
<1>3. /\ dest \in Seq(Nat) /\ Len(dest) \in Nat /\ bias \in Nat
      /\ delta \in Nat /\ q \in Nat /\ k \in Nat
  BY DEF IInv, TypeOK
<1>4. Handled' = Handled /\ Place' = Place
  <2>1. Smaller' = Smaller /\ Equal' = Equal
    BY <1>1 DEF Smaller, Equal, Positions
  <2>2. Handled' = Handled
    BY <1>1, <2>1 DEF Handled
  <2> QED BY <1>1, <2>2 DEF Place
<1>5. IntegerTextInv'
  <2> SUFFICES ASSUME destLength' <= capacity'
      PROVE  /\ Len(dest') = destLength' /\ IsEncoded(dest', basicLength')
             /\ \E c, start, i, x, value, w : DigitsSoFar(c, start, i, x, value, w)'
    BY Zenon DEF IntegerTextInv
  <2> HIDE DEF t, digit, rest
  <2>1. destLength + Len(u) <= capacity /\ destLength' = destLength + Len(u)
    BY <1>1 DEF Write
  <2>2. destLength <= capacity
    <3>1. Len(u) = 1 /\ destLength \in Nat /\ capacity \in Nat
      BY DEF IInv, TypeOK
    <3> QED BY <2>1, <3>1
  <2>3. /\ Len(dest) = destLength /\ IsEncoded(dest, basicLength)
        /\ \E c, start, i, x, value, w : DigitsSoFar(c, start, i, x, value, w)
    BY <1>1, <2>2 DEF TextInv, IntegerTextInv
  <2>0. PICK c, start, i, x, value, w : DigitsSoFar(c, start, i, x, value, w)
    BY <2>3
  <2>4. /\ CountsFrom(c, start, i) /\ x \in 1 .. Len(dest) + 1
        /\ Reaches(dest, basicLength, Ready(x, c, start, i))
        /\ ReadsOn(dest, Ready(x, c, start, i), value, w, k)
        /\ value \in Nat /\ IsWeight(w, k, bias) /\ value + q * w = i + delta
    BY <2>0 DEF DigitsSoFar
  <2>5. value + q * w < 1838265625
    <3>1. i + delta < 1838265625
      BY <1>1, <2>4, IntegerFits DEF TextInv
    <3>2. value + q * w = i + delta
      BY <2>4
    <3> QED BY <3>1, <3>2
  <2>6. /\ digit \in t .. Base - 1 /\ rest \in Nat
        /\ digit <= (MaxInt - value) \div w /\ w <= MaxInt \div (Base - t)
        /\ value + digit * w \in Nat
        /\ (value + digit * w) + rest * (w * (Base - t)) = value + q * w
        /\ IsWeight(w * (Base - t), k + Base, bias)
    BY <1>1, <1>3, <2>4, <2>5, DigitFits, SMTT(30) DEF t, digit, rest
  <2> DEFINE s == Ready(x, c, start, i)
             e == dest \o u
  <2>7. s.bias = bias /\ Ready(x, c, start, i)' = s
    BY <1>1 DEF Ready
  <2>8. t \in 1 .. 26
    BY <1>3, ThresholdRange DEF t, TMin, TMax
  <2>9. digit \in 0 .. Base - 1 /\ ~(digit < t) /\ w \in Nat /\ w > 0
    BY <2>4, <2>6, <2>8 DEF Base, IsWeight
  <2> HIDE DEF s
  <2>10. ReadsOn(e, s, value + digit * w, w * (Base - t), k + Base)
    <3>1. ReadsOn(dest, s, value, w, k)
      BY <2>4 DEF s
    <3>2. digit >= Threshold(k, s.bias) => w <= MaxInt \div (Base - Threshold(k, s.bias))
      BY <2>6, <2>7 DEF t
    <3>3. s.bias \in Nat /\ value \in Nat /\ digit <= (MaxInt - value) \div w
      BY <1>3, <2>4, <2>6, <2>7
    <3>4. IF digit < Threshold(k, s.bias)
          THEN Reads(e, s, value + digit * w)
          ELSE ReadsOn(e, s, value + digit * w, w * (Base - Threshold(k, s.bias)), k + Base)
      BY <1>3, <2>9, <3>1, <3>2, <3>3, DigitIsRead
    <3> QED BY <2>7, <2>9, <3>4, Zenon DEF t
  <2>11. e \in Seq(Nat) /\ Len(e) = Len(dest) + 1 /\ IsEncoded(e, basicLength)
    BY <1>3, <2>3, <2>9, DigitIsWritten
  <2>12. u \in Seq(Nat) /\ Len(u) = 1
    BY <2>9, DigitsAreRead
  <2>13. dest' = e /\ Len(dest') = destLength'
    <3> HIDE DEF u
    <3> QED BY <1>1, <2>1, <2>3, <2>12, WriteFits
  <2>14. Reaches(e, basicLength, s)
    <3>1. Reaches(dest, basicLength, s) /\ basicLength \in 0 .. Len(dest)
      BY <2>3, <2>4 DEF s, IsEncoded
    <3> HIDE DEF u
    <3> QED BY <1>3, <2>12, <3>1, ReachedStays
  <2>15. CountsFrom(c, start, i)'
    BY <1>1, <1>2, <1>4, <2>4 DEF CountsFrom
  <2>16. x \in 1 .. Len(dest') + 1
    BY <1>3, <2>4, <2>11, <2>13
  <2>17. (value + digit * w) + q' * (w * (Base - t)) = i + delta'
    BY <1>1, <2>4, <2>6, Zenon
  <2> HIDE DEF e
  <2>18. /\ Reaches(dest', basicLength', Ready(x, c, start, i)')
         /\ ReadsOn(dest', Ready(x, c, start, i)', value + digit * w, w * (Base - t), k')
    BY <1>1, <2>7, <2>10, <2>13, <2>14, Zenon
  <2>19. IsWeight(w * (Base - t), k', bias') /\ IsEncoded(dest', basicLength')
    BY <1>1, <2>6, <2>11, <2>13, Zenon
  <2>20. PICK number, weight :
           number = value + digit * w /\ weight = w * (Base - t)
    OBVIOUS
  <2>21. DigitsSoFar(c, start, i, x, number, weight)'
    BY <2>6, <2>15, <2>16, <2>17, <2>18, <2>19, <2>20, Zenon DEF DigitsSoFar
  <2> QED BY <2>13, <2>19, <2>21, Zenon
<1> QED BY <1>1, <1>2, <1>5 DEF TextInv, CopyTextInv, RoundTextInv, DoneTextInv

(* The last one: the decoder has read delta, and puts n where it belongs.  *)
LEMMA WriteLastDigitText ==
  ASSUME WideIntegers, IInv, TextInv, WriteLastDigit
  PROVE  TextInv'
<1> DEFINE u == <<DigitToBasic(q)>>
           z == j + 1
<1>1. /\ pc = "integer" /\ pc' = "scan" /\ q < Threshold(k, bias) /\ Write(u)
      /\ bias' = AdaptBias(delta, handledCPCount + 1, handledCPCount = basicLength)
      /\ delta' = 0 /\ handledCPCount' = handledCPCount + 1 /\ j' = z
      /\ UNCHANGED <<src, capacity, cpBuffer, basicLength, n, q, k, status>>
  BY DEF WriteLastDigit
<1>2. PointsInv' /\ Points' = Points
  BY <1>1, PointsStay DEF TextInv
<1>3. /\ dest \in Seq(Nat) /\ Len(dest) \in Nat /\ bias \in Nat
      /\ delta \in Nat /\ q \in Nat /\ k \in Nat /\ n \in Nat /\ j \in Nat
      /\ handledCPCount \in Nat
  BY DEF IInv, TypeOK
<1>4. /\ Positions = 1 .. Len(Points) /\ Len(Points) \in Nat /\ Points \in Seq(Nat)
      /\ Handled \in SUBSET (1 .. Len(Points))
      /\ handledCPCount = Cardinality(Handled) /\ Place \in 0 .. handledCPCount
  BY <1>1, HandledType DEF TextInv
<1>5. ASSUME destLength' <= capacity'
      PROVE  /\ Len(dest') = destLength' /\ IsEncoded(dest', basicLength')
             /\ \E c, start, i :
                  /\ CountsFrom(c, start, i)'
                  /\ Reaches(dest', basicLength', Ready(Len(dest) + 1, c, start, i)')
  <2>1. destLength + Len(u) <= capacity /\ destLength' = destLength + Len(u)
    BY <1>1, <1>5 DEF Write
  <2>2. destLength <= capacity
    <3>1. Len(u) = 1 /\ destLength \in Nat /\ capacity \in Nat
      BY DEF IInv, TypeOK
    <3> QED BY <2>1, <3>1
  <2>3. /\ Len(dest) = destLength /\ IsEncoded(dest, basicLength)
        /\ \E c, start, i, x, value, w : DigitsSoFar(c, start, i, x, value, w)
    BY <1>1, <2>2 DEF TextInv, IntegerTextInv
  <2>0. PICK c, start, i, x, value, w : DigitsSoFar(c, start, i, x, value, w)
    BY <2>3
  <2>4. /\ CountsFrom(c, start, i) /\ x \in 1 .. Len(dest) + 1
        /\ Reaches(dest, basicLength, Ready(x, c, start, i))
        /\ ReadsOn(dest, Ready(x, c, start, i), value, w, k)
        /\ value \in Nat /\ IsWeight(w, k, bias) /\ value + q * w = i + delta
    BY <2>0 DEF DigitsSoFar
  <2>5. /\ z \in 1 .. Len(Points) /\ z \notin Handled
        /\ Points[z] = n /\ ~IsSurrogate(n) /\ n <= MaxCodePoint
    <3> HIDE DEF z
    <3> QED BY <1>1, <2>4, IntegerFits DEF TextInv, z
  <2>6. value + q * w < 1838265625
    <3>1. i + delta < 1838265625
      BY <1>1, <2>4, IntegerFits DEF TextInv
    <3>2. value + q * w = i + delta
      BY <2>4
    <3> QED BY <3>1, <3>2
  <2>7. q \in 0 .. Base - 1 /\ q <= (MaxInt - value) \div w
    BY <1>1, <1>3, <2>4, <2>6, LastDigitFits
  <2> DEFINE s == Ready(x, c, start, i)
             e == dest \o u
             turns == n - start
  <2>8. s.bias = bias /\ w \in Nat /\ w > 0
    BY <2>4 DEF Ready, IsWeight
  <2>9. /\ IsTextOf(c, Points, Handled) /\ start \in InitialN .. n /\ i \in Nat
        /\ delta + i = turns * (handledCPCount + 1) + Place
        /\ c \in Seq(Nat) /\ Len(c) = handledCPCount
    BY <1>4, <2>4 DEF CountsFrom, IsTextOf
  <2>10. Reads(e, s, value + q * w)
    <3> HIDE DEF s
    <3>1. ReadsOn(dest, s, value, w, k)
      BY <2>4 DEF s
    <3>2. ~(q >= Threshold(k, s.bias)) /\ q < Threshold(k, s.bias)
      <4>1. Threshold(k, bias) \in 1 .. 26
        BY <1>3, ThresholdRange DEF TMin, TMax
      <4>2. Threshold(k, s.bias) = Threshold(k, bias)
        BY <2>8
      <4>3. q < Threshold(k, bias) /\ q \in Nat
        BY <1>1, <1>3
      <4> QED BY <4>1, <4>2, <4>3
    <3>3. s.bias \in Nat /\ value \in Nat
      BY <1>3, <2>4, <2>8
    <3>4. IF q < Threshold(k, s.bias)
          THEN Reads(e, s, value + q * w)
          ELSE ReadsOn(e, s, value + q * w, w * (Base - Threshold(k, s.bias)), k + Base)
      BY <1>3, <2>7, <2>8, <3>1, <3>2, <3>3, DigitIsRead
    <3> QED BY <3>2, <3>4, Zenon
  <2>11. e \in Seq(Nat) /\ Len(e) = Len(dest) + 1 /\ IsEncoded(e, basicLength)
    BY <1>3, <2>3, <2>7, DigitIsWritten
  <2>12. u \in Seq(Nat) /\ Len(u) = 1
    BY <2>7, DigitsAreRead
  <2>13. dest' = e /\ Len(dest') = destLength'
    <3> HIDE DEF u
    <3> QED BY <1>1, <2>1, <2>3, <2>12, WriteFits
  <2>14. Reaches(e, basicLength, s) /\ basicLength \in Nat
    <3> HIDE DEF s
    <3>1. Reaches(dest, basicLength, s) /\ basicLength \in 0 .. Len(dest)
      BY <2>3, <2>4 DEF s, IsEncoded
    <3>2. basicLength \in Nat
      BY <1>3, <3>1
    <3> HIDE DEF u
    <3> QED BY <1>3, <2>12, <3>1, <3>2, ReachedStays
  <2>15. start \in Nat /\ turns \in Nat /\ start + turns = n
    BY <1>3, <2>9 DEF InitialN
  <2>16. /\ s \in DecoderStates(e) /\ s.x <= Len(e)
         /\ s.c = c /\ s.n = start /\ s.i = i
    BY <1>3, <2>4, <2>9, <2>11, <2>15 DEF Ready, DecoderStates
  <2>17. PICK number : number = value + q * w
    OBVIOUS
  <2>18. number = turns * (Len(c) + 1) + Place /\ number - i = delta
    <3>1. number = i + delta
      BY <2>4, <2>17, Zenon
    <3> DEFINE a == turns * (handledCPCount + 1) + Place
    <3>2. delta + i = a
      BY <2>9
    <3> HIDE DEF a
    <3>3. number = a /\ number - i = delta
      BY <1>3, <2>9, <3>1, <3>2
    <3> QED BY <2>9, <3>3 DEF a
  <2> DEFINE v == Spliced(c, Place, <<n>>)
             r == [x |-> Len(e) + 1, n |-> n, i |-> Place + 1,
                   bias |-> AdaptBias(delta, handledCPCount + 1,
                                      handledCPCount = basicLength), c |-> v]
  <2>19. Reaches(e, basicLength, r)
    <3> HIDE DEF s, e, turns
    <3>1. Place \in 0 .. Len(s.c) /\ number = turns * (Len(s.c) + 1) + Place
      BY <1>4, <2>9, <2>16, <2>18
    <3>2. s.n + turns <= MaxCodePoint /\ ~IsSurrogate(s.n + turns)
      BY <2>5, <2>15, <2>16
    <3>3. Reads(e, s, number)
      BY <2>10, <2>17
    <3>4. Reaches(e, basicLength,
            [x |-> Len(e) + 1, n |-> s.n + turns, i |-> Place + 1,
             bias |-> AdaptBias(number - s.i, Len(s.c) + 1, Len(s.c) = basicLength),
             c |-> Spliced(s.c, Place, <<s.n + turns>>)])
      BY <2>11, <2>14, <2>15, <2>16, <3>1, <3>2, <3>3, CodePointIsRead
    <3> QED BY <2>9, <2>15, <2>16, <2>18, <3>4, Zenon
  <2>20. Place = UpTo(Handled, z)
    <3>1. Place = UpTo(Handled, j)
      BY <1>1 DEF Place
    <3>2. Handled \subseteq Nat /\ j + 1 \notin Handled
      BY <1>4, <2>5
    <3>3. UpTo(Handled, j + 1) = UpTo(Handled, j)
      BY <1>3, <3>2, UpToNext
    <3> QED BY <3>1, <3>3
  <2>21. Handled' = Handled \cup {z}
    <3>1. cpBuffer[z] = n /\ z \in Positions
      BY <1>1, <1>4, <2>5 DEF IInv, ScanInv
    <3>2. \A y \in Positions : y <= z <=> y <= j \/ y = z
      BY <1>3, <1>4
    <3> HIDE DEF z
    <3>3. Smaller' = Smaller /\ Equal' = Equal \cup {z}
      <4>1. Smaller' = Smaller
        BY <1>1 DEF Smaller, Positions
      <4>2. Equal' = {y \in Positions : y <= z /\ cpBuffer[y] = n}
        BY <1>1 DEF Equal, Positions
      <4> QED BY <3>1, <3>2, <4>1, <4>2 DEF Equal
    <3> QED BY <1>1, <3>3 DEF Handled
  <2>22. Place' = Place + 1
    <3>1. Place' = UpTo(Handled \cup {z}, z)
      BY <1>1, <2>21 DEF Place
    <3>2. \A y \in Int : y >= z => UpTo(Handled \cup {z}, y) = UpTo(Handled, y) + 1
      <4> HIDE DEF z
      <4> QED BY <1>4, <2>5, UpToGrows
    <3>3. z \in Int /\ z >= z
      BY <1>3
    <3> QED BY <2>20, <3>1, <3>2, <3>3
  <2>23. IsTextOf(v, Points, Handled \cup {z})
    <3>1. IsTextOf(Spliced(c, UpTo(Handled, z), <<Points[z]>>), Points, Handled \cup {z})
      <4> HIDE DEF z
      <4> QED BY <1>4, <2>5, <2>9, TextGrows
    <3> QED BY <2>5, <2>20, <3>1, Zenon
  <2>24. PICK text, from, at : text = v /\ from = n /\ at = Place + 1
    OBVIOUS
  <2>25. CountsFrom(text, from, at)'
    <3>1. IsTextOf(text, Points', Handled')
      BY <1>2, <2>21, <2>23, <2>24
    <3>2. from \in InitialN .. n' /\ at \in Nat
      BY <1>1, <1>3, <1>4, <2>9, <2>24 DEF InitialN
    <3>3. delta' + at = (n' - from) * (handledCPCount' + 1) + Place'
      <4>1. n' - from = 0 /\ 0 * (handledCPCount' + 1) = 0
        BY <1>1, <1>3, <2>24
      <4> QED BY <1>1, <1>4, <2>22, <2>24, <4>1
    <3> QED BY <3>1, <3>2, <3>3 DEF CountsFrom
  <2>26. Ready(Len(dest) + 1, text, from, at)' = r
    BY <1>1, <2>13, <2>24 DEF Ready
  <2>27. Reaches(dest', basicLength', Ready(Len(dest) + 1, text, from, at)')
    <3> HIDE DEF r, e
    <3> QED BY <1>1, <2>13, <2>19, <2>26
  <2> QED BY <1>1, <2>11, <2>13, <2>25, <2>27
<1> QED BY <1>1, <1>2, <1>5, RoundTextHolds

(* When everything has been handled, what the decoder has is the text.     *)
LEMMA FinishText == ASSUME IInv, EncOrbitInv, TextInv, Finish PROVE TextInv'
<1>1. /\ pc = "round" /\ pc' = "done" /\ handledCPCount >= Len(cpBuffer)
      /\ status' = TerminateStatus(capacity, destLength, status)
      /\ UNCHANGED <<src, cpBuffer, dest>>
  BY DEF Finish, Return
<1>2. PointsInv' /\ Points' = Points
  BY <1>1, PointsStay DEF TextInv
<1>3. /\ Points \in Seq(Nat) /\ Len(Points) \in Nat /\ Len(cpBuffer) = Len(Points)
      /\ Handled \in SUBSET (1 .. Len(Points))
      /\ handledCPCount = Cardinality(Handled) /\ handledCPCount \in Nat
      /\ n \in Nat
  BY <1>1, HandledType DEF TextInv
<1>4. dest \in Seq(Nat) /\ Len(dest) \in Nat /\ bias \in Nat
      /\ capacity \in Nat /\ destLength \in Nat
  BY DEF IInv, TypeOK
<1>5. Handled = 1 .. Len(Points)
  <2> DEFINE all == 1 .. Len(Points)
  <2>1. IsFiniteSet(all) /\ Cardinality(all) = Len(Points)
    <3>1. 1 \in Int /\ Len(Points) \in Int
      BY <1>3
    <3>2. /\ IsFiniteSet(1 .. Len(Points))
          /\ Cardinality(1 .. Len(Points)) =
               IF 1 > Len(Points) THEN 0 ELSE Len(Points) - 1 + 1
      BY <3>1, FS_Interval, Zenon
    <3> QED BY <1>3, <3>2
  <2> HIDE DEF all
  <2>2. Cardinality(Handled) <= Cardinality(all)
        /\ (Cardinality(Handled) = Cardinality(all) => Handled = all)
    <3>1. Handled \in SUBSET all
      BY <1>3 DEF all
    <3> QED BY <2>1, <3>1, FS_Subset
  <2> QED BY <1>1, <1>3, <2>1, <2>2 DEF all
<1>6. ASSUME U_SUCCESS(status'), Len(dest) <= DecodeMaxChars
      PROVE  DecodedPoints(dest) = [ok |-> TRUE, text |-> Points]
  <2>1. destLength <= capacity
    <3>1. status = U_ZERO_ERROR
      BY <1>1 DEF EncOrbitInv
    <3> SUFFICES ASSUME destLength > capacity PROVE FALSE
      BY <1>4
    <3>2. ~(destLength < capacity) /\ destLength # capacity
      BY <1>4
    <3>3. status' = U_BUFFER_OVERFLOW_ERROR
      BY <1>1, <3>1, <3>2
         DEF TerminateStatus, U_FAILURE, U_ZERO_ERROR
    <3> QED BY <1>6, <3>3, OverflowIsFailure
  <2>2. /\ Len(dest) = destLength /\ IsEncoded(dest, basicLength)
        /\ \E c, start, i : /\ CountsFrom(c, start, i)
                            /\ Reaches(dest, basicLength, Ready(Len(dest) + 1, c, start, i))
    BY <1>1, <2>1 DEF TextInv, RoundTextInv
  <2>3. PICK c, start, i : /\ CountsFrom(c, start, i)
                           /\ Reaches(dest, basicLength, Ready(Len(dest) + 1, c, start, i))
    BY <2>2
  <2>4. IsTextOf(c, Points, 1 .. Len(Points)) /\ start \in Nat /\ i \in Nat /\ c \in Seq(Nat)
    BY <1>3, <1>5, <2>3 DEF CountsFrom, IsTextOf, InitialN
  <2>5. c = Points
    <3> HIDE DEF Points
    <3> QED BY <1>3, <2>4, TextIsComplete
  <2> DEFINE s == Ready(Len(dest) + 1, c, start, i)
  <2>6. s \in DecoderStates(dest) /\ s.x = Len(dest) + 1 /\ s.c = c
    BY <1>4, <2>4 DEF Ready, DecoderStates
  <2>7. Reaches(dest, basicLength, s)
    BY <2>3
  <2> HIDE DEF s
  <2>8. DecodedPoints(dest) = [ok |-> TRUE, text |-> s.c]
    BY <1>4, <1>6, <2>2, <2>6, <2>7, TextIsRead
  <2> QED BY <2>5, <2>6, <2>8
<1>7. DoneTextInv'
  BY <1>1, <1>2, <1>6 DEF DoneTextInv
<1> QED BY <1>1, <1>2, <1>7 DEF TextInv, CopyTextInv, RoundTextInv, IntegerTextInv

(* Every step keeps it.                                                    *)
LEMMA StepText ==
  ASSUME WideIntegers, IInv, EncOrbitInv, TextInv, Step
  PROVE  TextInv'
<1>1. CASE CopyBasic \/ CopyExtended
  BY <1>1, CopyBasicText, CopyExtendedText
<1>2. CASE RejectSurrogate \/ RejectOverflow
  BY <1>2, FailText
<1>3. CASE FinishBasic
  BY <1>3, FinishBasicText
<1>4. CASE BeginRound \/ EndRound
  BY <1>4, BeginRoundText, EndRoundText
<1>5. CASE ScanSmaller \/ ScanLarger
  BY <1>5, ScanText
<1>6. CASE ScanEqual
  BY <1>6, ScanEqualText
<1>7. CASE WriteDigit \/ WriteLastDigit
  BY <1>7, WriteDigitText, WriteLastDigitText
<1>8. CASE Finish
  BY <1>8, FinishText
<1> QED BY <1>1, <1>2, <1>3, <1>4, <1>5, <1>6, <1>7, <1>8 DEF Step

(* So does whatever leaves the encoder alone.                              *)
LEMMA IdleText == ASSUME TextInv, UNCHANGED vars PROVE TextInv'
<1>1. UNCHANGED <<pc, src, capacity, dest, destLength, cpBuffer, basicLength, n,
                  delta, bias, handledCPCount, j, q, k, status>>
  BY DEF vars
<1>2. Points' = Points /\ Positions' = Positions /\ Basic' = Basic
  BY <1>1 DEF Points, Positions, Basic
<1>3. PointsInv' /\ CopyTextInv' /\ DoneTextInv'
  BY <1>1, <1>2 DEF TextInv, PointsInv, InLoops, CopyTextInv, DoneTextInv, U_SUCCESS
<1>4. Handled' = Handled
  BY <1>1 DEF Handled, Smaller, Equal, Positions
<1>5. \A c, start, i : CountsFrom(c, start, i)' <=> CountsFrom(c, start, i)
  BY <1>1, <1>2, <1>4, Zenon DEF CountsFrom, Place
<1>6. \A x, c, start, i : Ready(x, c, start, i)' = Ready(x, c, start, i)
  BY <1>1 DEF Ready
<1>7. RoundTextInv'
  <2> SUFFICES ASSUME pc \in {"round", "scan"}, destLength <= capacity
               PROVE  /\ Len(dest') = destLength' /\ IsEncoded(dest', basicLength')
                      /\ \E c, start, i :
                           /\ CountsFrom(c, start, i)'
                           /\ Reaches(dest', basicLength',
                                      Ready(Len(dest) + 1, c, start, i)')
    BY <1>1, Zenon DEF RoundTextInv
  <2>1. /\ Len(dest) = destLength /\ IsEncoded(dest, basicLength)
        /\ \E c, start, i : /\ CountsFrom(c, start, i)
                            /\ Reaches(dest, basicLength, Ready(Len(dest) + 1, c, start, i))
    BY DEF TextInv, RoundTextInv
  <2>2. PICK c, start, i : /\ CountsFrom(c, start, i)
                           /\ Reaches(dest, basicLength, Ready(Len(dest) + 1, c, start, i))
    BY <2>1
  <2>3. Ready(Len(dest) + 1, c, start, i)' = Ready(Len(dest) + 1, c, start, i)
    BY <1>1 DEF Ready
  <2> QED BY <1>1, <1>5, <2>1, <2>2, <2>3, Zenon
<1>8. IntegerTextInv'
  <2> SUFFICES ASSUME pc = "integer", destLength <= capacity
      PROVE  /\ Len(dest') = destLength' /\ IsEncoded(dest', basicLength')
             /\ \E c, start, i, x, value, w : DigitsSoFar(c, start, i, x, value, w)'
    BY <1>1, Zenon DEF IntegerTextInv
  <2>1. /\ Len(dest) = destLength /\ IsEncoded(dest, basicLength)
        /\ \E c, start, i, x, value, w : DigitsSoFar(c, start, i, x, value, w)
    BY DEF TextInv, IntegerTextInv
  <2>2. PICK c, start, i, x, value, w : DigitsSoFar(c, start, i, x, value, w)
    BY <2>1
  <2>3. Ready(x, c, start, i)' = Ready(x, c, start, i)
    BY <1>6
  <2>4. DigitsSoFar(c, start, i, x, value, w)'
    BY <1>1, <1>5, <2>2, <2>3, Zenon DEF DigitsSoFar
  <2> QED BY <1>1, <2>1, <2>4, Zenon
<1> QED BY <1>3, <1>7, <1>8 DEF TextInv

(* Before the first call.                                                  *)
LEMMA InitText == Init => TextInv
BY DEF Init, TextInv, PointsInv, InLoops, CopyTextInv, RoundTextInv, IntegerTextInv,
       DoneTextInv

-----------------------------------------------------------------------------
(* What the caller hands on: the text to the encoder, its output to the    *)
(* decoder.                                                                *)
HandedInv ==
  /\ flow = "none" => pc = "ready" /\ dpc = "ready"
  /\ flow = "encode" /\ pc # "ready" => src = input
  /\ flow = "encode" /\ dpc # "ready" => pc = "done" /\ dsrc = dest

(* Every step keeps it.                                                    *)
LEMMA HandedStep ==
  ASSUME CodecInputs, RetryInv, HandedInv, CodecNext
  PROVE  HandedInv'
<1>1. ASSUME NEW c, NEW s, flow = "none", StartEncode(s, c) \/ StartDecode(s, c)
      PROVE  HandedInv'
  BY <1>1, CallPlaces DEF HandedInv, StartEncode, StartDecode, vars, decoder
<1>2. ASSUME NEW c, RetryEncode(c) PROVE HandedInv'
  <2>1. /\ pc = "done" /\ status = U_BUFFER_OVERFLOW_ERROR /\ Call(src, c)
        /\ UNCHANGED <<decoder, flow, input>>
    BY <1>2 DEF RetryEncode
  <2>2. pc' # "ready" /\ src' = src
    BY <2>1, CallPlaces
  <2>3. ~(flow = "encode" /\ dpc # "ready") /\ flow # "none"
    BY <2>1, OverflowIsFailure DEF RetryInv, AskedInv
  <2>4. dpc' = dpc
    BY <2>1 DEF decoder
  <2> QED BY <2>1, <2>2, <2>3, <2>4 DEF HandedInv
<1>3. ASSUME NEW c, RetryDecode(c) PROVE HandedInv'
  <2>1. dpc = "done" /\ Dec!Call(dsrc, c) /\ UNCHANGED <<vars, flow, input>>
    BY <1>3 DEF RetryDecode
  <2>2. dpc' # "ready" /\ dsrc' = dsrc
    BY <2>1, CallPlaces
  <2>3. pc' = pc /\ src' = src /\ dest' = dest
    BY <2>1 DEF vars
  <2> QED BY <2>1, <2>2, <2>3 DEF HandedInv
<1>4. ASSUME NEW c, DecodeResult(c) PROVE HandedInv'
  <2>1. /\ flow = "encode" /\ pc = "done" /\ Dec!Call(dest, c)
        /\ UNCHANGED <<vars, flow, input>>
    BY <1>4 DEF DecodeResult
  <2>2. dsrc' = dest
    BY <2>1, CallPlaces
  <2>3. pc' = pc /\ src' = src /\ dest' = dest
    BY <2>1 DEF vars
  <2> QED BY <2>1, <2>2, <2>3 DEF HandedInv
<1>5. ASSUME NEW c, EncodeResult(c) PROVE HandedInv'
  BY <1>5 DEF EncodeResult, HandedInv
<1>6. CASE EncoderStep
  <2>1. /\ pc \notin {"ready", "done"} /\ src' = src
        /\ UNCHANGED <<decoder, flow, input>>
    BY <1>6, CallPlaces, StepStatus DEF EncoderStep, RetryInv, CodecInv, IInv, caller
  <2>2. dpc' = dpc
    BY <2>1 DEF decoder
  <2> QED BY <2>1, <2>2 DEF HandedInv
<1>7. CASE DecoderStep
  <2>1. dpc \notin {"ready", "done"} /\ UNCHANGED <<vars, flow, input>>
    BY <1>7, CallPlaces DEF DecoderStep, caller
  <2>2. dsrc' = dsrc
    <3>1. DecP!Step
      BY <1>7, SameStep DEF DecoderStep
    <3> QED BY <3>1, SameAssumptions, SurrogateLayout, DecP!StepStatus
            DEF RetryInv, CodecInv, DecoderInv
  <2>3. pc' = pc /\ src' = src /\ dest' = dest
    BY <2>1 DEF vars
  <2> QED BY <2>1, <2>2, <2>3 DEF HandedInv
<1> QED BY <1>1, <1>2, <1>3, <1>4, <1>5, <1>6, <1>7, Zenon DEF CodecNext

(* decode(encode(s)) = s, whatever string of code units s is and however   *)
(* often each of the functions has to be called: if the encoder succeeds,  *)
(* the decoder accepts what it has written and returns s, provided that    *)
(* it is no longer than the decoder takes.  An int32_t has to be wide      *)
(* enough for the decoder's arithmetic, which 31 bits are; the encoder     *)
(* only looks after its own.                                               *)
THEOREM CodecRoundTrips ==
  ASSUME CodecInputs, WideIntegers
  PROVE  CodecSpec => []RoundTrip
<1>1. CodecInit => TextInv /\ HandedInv
  <2> SUFFICES ASSUME CodecInit PROVE TextInv /\ HandedInv
    OBVIOUS
  <2>1. TextInv
    BY InitText DEF CodecInit
  <2>2. pc = "ready" /\ dpc = "ready" /\ flow = "none"
    BY DEF CodecInit, Init, Dec!Init
  <2> QED BY <2>1, <2>2 DEF HandedInv
<1>2. RetryInv /\ TextInv /\ HandedInv /\ [CodecNext]_allVars => TextInv' /\ HandedInv'
  <2> SUFFICES ASSUME RetryInv, TextInv, HandedInv, [CodecNext]_allVars
               PROVE  TextInv' /\ HandedInv'
    OBVIOUS
  <2>0. CodecInv /\ IInv /\ EncOrbitInv
    BY DEF RetryInv, CodecInv
  <2>1. TextInv'
    <3>1. CASE \E s \in Seq(CodeUnit), c \in Nat : Call(s, c)
      BY <3>1, CallText
    <3>2. CASE Step
      BY <2>0, <3>2, StepText
    <3>3. CASE UNCHANGED vars
      BY <3>3, IdleText
    <3> QED BY <2>0, <3>1, <3>2, <3>3, CodecStep
  <2>2. HandedInv'
    <3>1. CASE CodecNext
      BY <3>1, HandedStep
    <3>2. CASE UNCHANGED allVars
      <4>1. UNCHANGED <<pc, dpc, src, dest, dsrc, flow, input>>
        BY <3>2 DEF allVars, vars, decoder, caller
      <4> QED BY <4>1 DEF HandedInv
    <3> QED BY <3>1, <3>2
  <2> QED BY <2>1, <2>2
<1>3. RetryInv /\ TextInv /\ HandedInv /\ DecodesTheDefinition => RoundTrip
  <2> SUFFICES ASSUME RetryInv, TextInv, HandedInv, DecodesTheDefinition,
                      flow = "encode", dpc = "done",
                      dstatus # U_BUFFER_OVERFLOW_ERROR,
                      Len(dsrc) <= Dec!DecodeMaxChars
               PROVE  U_SUCCESS(dstatus) /\ ddest = input
    BY DEF RoundTrip
  <2>1. pc = "done" /\ U_SUCCESS(status) /\ dsrc = dest /\ src = input
    BY DEF RetryInv, AskedInv, HandedInv
  <2>2. Dec!DecodeMaxChars = DecodeMaxChars
    BY DEF Dec!DecodeMaxChars, DecodeMaxChars
  <2>3. DecodedPoints(dsrc) = [ok |-> TRUE, text |-> CodePoints(src)]
    BY <2>1, <2>2 DEF TextInv, DoneTextInv, Points
  <2>4. DecodedPoints(dsrc).ok = TRUE /\ DecodedPoints(dsrc).text = CodePoints(src)
    BY <2>3
  <2>5. U_SUCCESS(dstatus) = TRUE /\ (U_SUCCESS(dstatus) => CodePoints(ddest) = CodePoints(src))
    BY <2>4, Zenon DEF DecodesTheDefinition
  <2>6. src \in Seq(CodeUnit) /\ ddest \in Seq(CodeUnit)
    BY <2>5, HandedOn DEF RetryInv
  <2>7. ddest = src
    BY <2>5, <2>6, CodePointsTellStrings DEF CodeUnit
  <2> QED BY <2>1, <2>5, <2>7
<1>4. CodecSpec => []RetryInv
  BY RetryIsInvariant
<1>5. CodecSpec => []DecodesTheDefinition
  BY CodecDecodesTheDefinition
<1> QED BY <1>1, <1>2, <1>3, <1>4, <1>5, PTL DEF CodecSpec
=============================================================================
