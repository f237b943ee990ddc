----------------------- MODULE ReorderingBufferProofs -----------------------
(***************************************************************************)
(* The reordering buffer stays inside its array, for every repertoire,     *)
(* every combining class, every growth policy and every sequence of        *)
(* operations, a failed allocation included.                               *)
(*                                                                         *)
(* appendBMP() resizes only if remainingCapacity is exactly 0, so it must  *)
(* never be negative; the loop over a reordered string subtracts its       *)
(* characters twice, which is harmless because each of them tests for room *)
(* first.  insert() needs a last code point to skip: lastCC is 0 when the  *)
(* buffer is empty.                                                        *)
(*                                                                         *)
(* Then, that it keeps its text in canonical order.  lastCC and            *)
(* reorderStart describe the text: the one is the class of its last        *)
(* character, the other stands behind one of a class of at most 1, or      *)
(* inside it.  They are about characters, and the text is made of code     *)
(* units: what is appended must have no unpaired surrogates, or two of     *)
(* them could make a pair that none of the operations has seen.            *)
(***************************************************************************)
EXTENDS ReorderingBuffer, UTF16Proofs

CodeUnit == 0 .. FirstSupplementary - 1

RoomInv ==
  /\ 0 <= remainingCapacity
  /\ remainingCapacity <= capacity - Len(units)

NumbersInv ==
  /\ units \in Seq(Nat) /\ rest \in Seq(Nat) /\ rest \in Seq(CodeUnit)
  /\ reorderStart \in 0 .. Len(units)
  /\ lastCC \in Nat /\ (lastCC # 0 => units # <<>>)
  /\ capacity \in Nat /\ remainingCapacity \in Int
  /\ RoomInv

FlagsInv == atBoundary \in BOOLEAN /\ failed \in BOOLEAN

IInv == NumbersInv /\ FlagsInv

-----------------------------------------------------------------------------
(* resize() asks for what is needed at least.                              *)
LEMMA NewCapacitySuffices ==
  ASSUME IInv, NEW a \in Nat
  PROVE  NewCapacity(a) \in Nat /\ NewCapacity(a) >= Len(units) + a
<1> DEFINE asked == {Len(units) + a, 2 * capacity, GrowMinimum}
           N == Len(units) + a + 2 * capacity + GrowMinimum
<1>1. Len(units) \in Nat /\ capacity \in Nat /\ GrowMinimum \in Nat
  BY BufferConstants DEF IInv, NumbersInv
<1>2. asked \in SUBSET (0 .. N) /\ N \in Int /\ asked # {}
  BY <1>1
<1>3. NewCapacity(a) = CHOOSE x \in asked : \A y \in asked : y <= x
  BY DEF NewCapacity
<1>4. NewCapacity(a) \in asked /\ \A y \in asked : y <= NewCapacity(a)
  <2>1. \E x \in asked : \A y \in asked : y <= x
    <3> HIDE DEF asked, N
    <3> QED BY <1>2, RangeHasGreatest
  <2> HIDE DEF asked
  <2> QED BY <1>3, <2>1
<1>5. NewCapacity(a) \in Nat
  BY <1>1, <1>2, <1>4
<1>6. Len(units) + a <= NewCapacity(a)
  BY <1>4
<1> QED BY <1>1, <1>5, <1>6

(* Taking room leaves enough of it for what is written next.               *)
LEMMA TakeLeavesRoom ==
  ASSUME IInv, NEW lacks \in BOOLEAN, NEW a \in Nat,
         ~lacks => remainingCapacity >= a,
         Take(lacks, a, a)
  PROVE  /\ capacity' \in Nat /\ remainingCapacity' \in Int
         /\ 0 <= remainingCapacity'
         /\ remainingCapacity' <= capacity' - (Len(units) + a)
<1>1. /\ Len(units) \in Nat /\ capacity \in Nat /\ remainingCapacity \in Int
      /\ 0 <= remainingCapacity /\ remainingCapacity <= capacity - Len(units)
  BY DEF IInv, NumbersInv, RoomInv
<1>2. CASE lacks
  <2>1. PICK extra \in Slack :
          /\ capacity' = NewCapacity(a) + extra
          /\ remainingCapacity' = capacity' - Len(units) - a
    BY <1>2 DEF Take
  <2>2. NewCapacity(a) \in Nat /\ NewCapacity(a) >= Len(units) + a
        /\ extra \in Nat
    BY NewCapacitySuffices, BufferConstants
  <2> QED BY <1>1, <2>1, <2>2
<1>3. CASE ~lacks
  BY <1>1, <1>3 DEF Take
<1> QED BY <1>2, <1>3

(* insert() finds a place between start and limit if there is a last code  *)
(* point to skip.                                                          *)
LEMMA InsertionPointIsIndex ==
  ASSUME IInv, units # <<>>, NEW cc \in Nat
  PROVE  InsertionPoint(cc) \in 0 .. Len(units)
<1> DEFINE last == PreviousStart(Len(units))
           at == {i \in 0 .. last : IsBoundary(units, i) /\ PreviousCC(i) <= cc}
<1>1. Len(units) \in Nat /\ Len(units) > 0 /\ reorderStart \in Nat
  BY DEF IInv, NumbersInv
<1>2. last \in 0 .. Len(units)
  BY <1>1 DEF PreviousStart
<1>3. 0 \in at
  BY <1>1, <1>2 DEF IsBoundary, PreviousCC
<1>4. \E m \in at : \A y \in at : y <= m
  <2>1. at \in SUBSET (0 .. last) /\ at # {} /\ last \in Int
    BY <1>2, <1>3
  <2> HIDE DEF at, last
  <2> QED BY <2>1, RangeHasGreatest
<1>5. InsertionPoint(cc) = CHOOSE m \in at : \A y \in at : y <= m
  BY DEF InsertionPoint
<1>6. InsertionPoint(cc) \in at
  <2> HIDE DEF at
  <2> QED BY <1>4, <1>5
<1> QED BY <1>1, <1>2, <1>6

(* Two strings of code units, one behind the other, are one.               *)
LEMMA ConcatType ==
  ASSUME NEW a \in Seq(Nat), NEW b \in Seq(Nat)
  PROVE  a \o b \in Seq(Nat) /\ Len(a \o b) = Len(a) + Len(b)
OBVIOUS

(* What is inserted makes the text longer by itself.                       *)
LEMMA InsertType ==
  ASSUME IInv, NEW c \in 0 .. MaxCodePoint, NEW cc \in Nat,
         ~(lastCC <= cc \/ cc = 0), Insert(c, cc)
  PROVE  /\ units' \in Seq(Nat) /\ units' # <<>>
         /\ Len(units') = Len(units) + U16_LENGTH(c)
         /\ reorderStart' \in 0 .. Len(units')
         /\ lastCC' = lastCC
<1> DEFINE at == InsertionPoint(cc)
           t  == CodeUnits(c)
<1>1. /\ units \in Seq(Nat) /\ Len(units) \in Nat /\ lastCC \in Nat
      /\ reorderStart \in 0 .. Len(units)
  BY DEF IInv, NumbersInv
<1>2. at \in 0 .. Len(units)
  BY <1>1, InsertionPointIsIndex DEF IInv, NumbersInv
<1>3. t \in Seq(Nat) /\ Len(t) = U16_LENGTH(c) /\ U16_LENGTH(c) \in 1 .. 2
  BY CodeUnitsType
<1>4. /\ units' = SubSeq(units, 1, at) \o t \o SubSeq(units, at + 1, Len(units))
      /\ reorderStart' = IF cc <= 1 THEN at + U16_LENGTH(c) ELSE reorderStart
      /\ lastCC' = lastCC
  BY DEF Insert
<1> HIDE DEF at, t
<1>5. units' \in Seq(Nat) /\ Len(units') = Len(units) + U16_LENGTH(c)
  <2> DEFINE front == SubSeq(units, 1, at)
             back  == SubSeq(units, at + 1, Len(units))
  <2>1. /\ front \in Seq(Nat) /\ Len(front) = at
        /\ back \in Seq(Nat) /\ Len(back) = Len(units) - at
    BY <1>1, <1>2
  <2>2. units' = front \o t \o back
    BY <1>4
  <2> HIDE DEF front, back
  <2> DEFINE mid == front \o t
  <2>3. mid \in Seq(Nat) /\ Len(mid) = Len(front) + Len(t)
    BY <1>3, <2>1
  <2>4. units' = mid \o back
    BY <2>2
  <2> HIDE DEF mid
  <2>5. units' \in Seq(Nat) /\ Len(units') = Len(mid) + Len(back)
    <3>1. mid \o back \in Seq(Nat) /\ Len(mid \o back) = Len(mid) + Len(back)
      BY <2>1, <2>3, ConcatType
    <3> QED BY <2>4, <3>1, Zenon
  <2> QED BY <1>1, <1>2, <1>3, <2>1, <2>3, <2>5
<1>6. units' # <<>>
  BY <1>1, <1>3, <1>5
<1>7. reorderStart' \in 0 .. Len(units')
  <2>1. CASE cc <= 1
    <3>1. reorderStart' = at + U16_LENGTH(c)
      BY <1>4, <2>1
    <3>2. U16_LENGTH(c) \in Nat /\ Len(units') = Len(units) + U16_LENGTH(c)
      BY <1>3, <1>5
    <3>3. at \in Nat /\ at <= Len(units)
      BY <1>1, <1>2
    <3> QED BY <1>1, <3>1, <3>2, <3>3
  <2>2. CASE ~(cc <= 1)
    BY <1>1, <1>3, <1>4, <1>5, <2>2
  <2> QED BY <2>1, <2>2
<1> QED BY <1>4, <1>5, <1>6, <1>7

(* What is pushed behind the last code point, too.                         *)
LEMMA PushType ==
  ASSUME IInv, NEW t \in Seq(Nat), t # <<>>, NEW cc \in Nat, Push(t, cc)
  PROVE  /\ units' \in Seq(Nat) /\ units' # <<>>
         /\ Len(units') = Len(units) + Len(t)
         /\ lastCC' \in Nat
BY DEF IInv, NumbersInv, Push

-----------------------------------------------------------------------------
(* An operation that gets no memory leaves everything as it was.           *)
LEMMA OutOfMemoryInv ==
  ASSUME IInv, NEW lacks, OutOfMemory(lacks),
         rest' \in Seq(CodeUnit), atBoundary' \in BOOLEAN
  PROVE  IInv'
<1>1. /\ failed' = TRUE
      /\ UNCHANGED <<units, reorderStart, lastCC, capacity, remainingCapacity>>
  BY DEF OutOfMemory
<1>2. rest' \in Seq(Nat)
  BY SurrogateLayout DEF CodeUnit
<1>3. NumbersInv'
  BY <1>1, <1>2 DEF IInv, NumbersInv, RoomInv
<1>4. FlagsInv'
  BY <1>1, Zenon DEF FlagsInv
<1> QED BY <1>3, <1>4 DEF IInv

(* appendBMP() and appendSupplementary().                                  *)
LEMMA PlaceCodePointInv ==
  ASSUME IInv, NEW c \in 0 .. MaxCodePoint, PlaceCodePoint(c),
         rest' \in Seq(CodeUnit), atBoundary' \in BOOLEAN
  PROVE  IInv'
<1> DEFINE lacks == LacksRoomFor(c)
           length == U16_LENGTH(c)
           cc == CC(c)
<1>1. cc \in Nat
  BY BufferConstants
<1>2. /\ CodeUnits(c) \in Seq(Nat) /\ Len(CodeUnits(c)) = length
      /\ length \in 1 .. 2 /\ CodeUnits(c) # <<>>
  BY CodeUnitsType
<1>3. /\ lacks \in BOOLEAN /\ (~lacks => remainingCapacity >= length)
      /\ length \in Nat
  <2>1. remainingCapacity \in Int /\ 0 <= remainingCapacity
    BY DEF IInv, NumbersInv, RoomInv
  <2>2. CASE length = 1
    BY <2>1, <2>2 DEF LacksRoomFor
  <2>3. CASE length = 2
    BY <2>1, <2>3 DEF LacksRoomFor
  <2> QED BY <1>2, <2>2, <2>3
<1>4. CASE Take(lacks, length, length) /\ Place(c, cc) /\ UNCHANGED failed
  <2>1. /\ capacity' \in Nat /\ remainingCapacity' \in Int
        /\ 0 <= remainingCapacity'
        /\ remainingCapacity' <= capacity' - (Len(units) + length)
    <3> HIDE DEF lacks, length
    <3> QED BY <1>3, <1>4, TakeLeavesRoom
  <2>2. /\ units' \in Seq(Nat) /\ units' # <<>>
        /\ Len(units') = Len(units) + length
        /\ reorderStart' \in 0 .. Len(units')
        /\ lastCC' \in Nat
    <3>1. CASE lastCC <= cc \/ cc = 0
      <4>1. /\ Push(CodeUnits(c), cc)
            /\ reorderStart' = IF cc <= 1 THEN Len(units') ELSE reorderStart
        BY <1>4, <3>1 DEF Place
      <4>2. /\ units' \in Seq(Nat) /\ units' # <<>>
            /\ Len(units') = Len(units) + length
            /\ lastCC' \in Nat
        BY <1>1, <1>2, <4>1, PushType
      <4> QED BY <1>2, <4>1, <4>2 DEF IInv, NumbersInv
    <3>2. CASE ~(lastCC <= cc \/ cc = 0)
      <4>1. Insert(c, cc)
        BY <1>4, <3>2 DEF Place
      <4> QED BY <1>1, <3>2, <4>1, InsertType DEF IInv, NumbersInv
    <3> QED BY <3>1, <3>2
  <2>3. NumbersInv'
    <3> HIDE DEF length
    <3>1. length \in Nat
      BY <1>2
    <3>2. rest' \in Seq(Nat)
      BY SurrogateLayout DEF CodeUnit
    <3> QED BY <2>1, <2>2, <3>1, <3>2 DEF IInv, NumbersInv, RoomInv
  <2>4. FlagsInv'
    BY <1>4, Zenon DEF IInv, FlagsInv
  <2> QED BY <2>3, <2>4 DEF IInv
<1>5. CASE OutOfMemory(lacks)
  BY <1>5, OutOfMemoryInv
<1> QED BY <1>4, <1>5 DEF PlaceCodePoint

(* A text, its first and its last code point.                              *)
LEMMA TextType ==
  ASSUME NEW s \in Texts, s # <<>>
  PROVE  /\ s \in Seq(CodeUnit) /\ s \in Seq(Nat)
         /\ Len(s) \in Nat /\ Len(s) > 0
         /\ CodePointAt(s, 0) \in 0 .. MaxCodePoint
         /\ U16_LENGTH(CodePointAt(s, 0)) \in 1 .. Len(s)
         /\ LeadCC(s) \in Nat /\ TrailCC(s) \in Nat
<1>1. s \in Seq(0 .. FirstSupplementary - 1)
  BY BufferConstants
<1>2. s \in Seq(Nat) /\ Len(s) \in Nat /\ Len(s) > 0
  BY <1>1, SurrogateLayout
<1>3. \A i \in 0 .. Len(s) - 1 :
        /\ CodePointAt(s, i) \in 0 .. MaxCodePoint
        /\ i + U16_LENGTH(CodePointAt(s, i)) <= Len(s)
  BY <1>1, CodePointAtRange
<1>4. \A i \in 0 .. Len(s) - 1 : CodePointCC(s, i) \in Nat
  BY <1>3, BufferConstants DEF CodePointCC
<1>5. 0 \in 0 .. Len(s) - 1
  BY <1>2
<1>6. U16_LENGTH(CodePointAt(s, 0)) \in 1 .. Len(s)
  BY <1>2, <1>3, <1>5 DEF U16_LENGTH
<1>7. LeadCC(s) \in Nat
  BY <1>4, <1>5 DEF LeadCC
<1>8. TrailCC(s) \in Nat
  BY <1>2, <1>4 DEF TrailCC
<1> QED BY <1>1, <1>2, <1>3, <1>5, <1>6, <1>7, <1>8 DEF CodeUnit

(* append() of a text that follows in order takes the room it needs.       *)
LEMMA AppendInOrderInv ==
  ASSUME IInv, NEW s \in Texts, AppendInOrder(s)
  PROVE  IInv'
<1> DEFINE lacks == remainingCapacity < Len(s)
<1>1. /\ s \in Seq(Nat) /\ s # <<>> /\ Len(s) \in Nat /\ Len(s) > 0
      /\ LeadCC(s) \in Nat /\ TrailCC(s) \in Nat
  BY TextType DEF AppendInOrder
<1>2. /\ UNCHANGED rest /\ atBoundary' \in BOOLEAN
      /\ \/ /\ Take(lacks, Len(s), Len(s)) /\ Push(s, TrailCC(s))
            /\ reorderStart' =
                 IF TrailCC(s) <= 1 THEN Len(units) + Len(s)
                 ELSE IF LeadCC(s) <= 1 THEN Len(units) + 1 ELSE reorderStart
            /\ UNCHANGED failed
         \/ OutOfMemory(lacks)
  BY DEF AppendInOrder
<1>3. lacks \in BOOLEAN /\ (~lacks => remainingCapacity >= Len(s))
  BY <1>1 DEF IInv, NumbersInv
<1> HIDE DEF lacks
<1>4. CASE OutOfMemory(lacks)
  BY <1>2, <1>4, OutOfMemoryInv DEF IInv, NumbersInv
<1>5. CASE /\ Take(lacks, Len(s), Len(s)) /\ Push(s, TrailCC(s))
           /\ reorderStart' =
                IF TrailCC(s) <= 1 THEN Len(units) + Len(s)
                ELSE IF LeadCC(s) <= 1 THEN Len(units) + 1 ELSE reorderStart
           /\ UNCHANGED failed
  <2>1. /\ capacity' \in Nat /\ remainingCapacity' \in Int
        /\ 0 <= remainingCapacity'
        /\ remainingCapacity' <= capacity' - (Len(units) + Len(s))
    BY <1>1, <1>3, <1>5, TakeLeavesRoom
  <2>2. /\ units' \in Seq(Nat) /\ units' # <<>>
        /\ Len(units') = Len(units) + Len(s)
        /\ lastCC' \in Nat
    BY <1>1, <1>5, PushType
  <2>3. reorderStart' \in 0 .. Len(units')
    BY <1>1, <1>5, <2>2, SMTT(30) DEF IInv, NumbersInv
  <2>4. NumbersInv'
    BY <1>1, <1>2, <2>1, <2>2, <2>3 DEF IInv, NumbersInv, RoomInv
  <2>5. FlagsInv'
    BY <1>2, <1>5, Zenon DEF IInv, FlagsInv
  <2> QED BY <2>4, <2>5 DEF IInv
<1> QED BY <1>2, <1>4, <1>5

(* The room of the whole string is taken before its first code point is    *)
(* inserted.                                                               *)
LEMMA AppendReorderedInv ==
  ASSUME IInv, NEW s \in Texts, AppendReordered(s)
  PROVE  IInv'
<1> DEFINE lacks == remainingCapacity < Len(s)
           c == CodePointAt(s, 0)
<1>1. /\ s \in Seq(CodeUnit) /\ s # <<>> /\ Len(s) \in Nat
      /\ c \in 0 .. MaxCodePoint /\ U16_LENGTH(c) \in 1 .. Len(s)
      /\ LeadCC(s) \in Nat
  BY TextType DEF AppendReordered
<1>2. /\ UNCHANGED atBoundary
      /\ ~(lastCC <= LeadCC(s) \/ LeadCC(s) = 0)
      /\ \/ /\ Take(lacks, Len(s), Len(s)) /\ Insert(c, LeadCC(s))
            /\ rest' = SubSeq(s, U16_LENGTH(c) + 1, Len(s))
            /\ UNCHANGED failed
         \/ OutOfMemory(lacks) /\ UNCHANGED rest
  BY DEF AppendReordered
<1>3. lacks \in BOOLEAN /\ (~lacks => remainingCapacity >= Len(s))
  BY <1>1 DEF IInv, NumbersInv
<1> HIDE DEF lacks, c
<1>4. CASE OutOfMemory(lacks) /\ UNCHANGED rest
  <2>1. rest' \in Seq(CodeUnit) /\ atBoundary' \in BOOLEAN
    BY <1>2, <1>4, Zenon DEF IInv, NumbersInv, FlagsInv
  <2> QED BY <1>4, <2>1, OutOfMemoryInv
<1>5. CASE /\ Take(lacks, Len(s), Len(s)) /\ Insert(c, LeadCC(s))
           /\ rest' = SubSeq(s, U16_LENGTH(c) + 1, Len(s))
           /\ UNCHANGED failed
  <2>1. /\ capacity' \in Nat /\ remainingCapacity' \in Int
        /\ 0 <= remainingCapacity'
        /\ remainingCapacity' <= capacity' - (Len(units) + Len(s))
    BY <1>1, <1>3, <1>5, TakeLeavesRoom
  <2>2. /\ units' \in Seq(Nat) /\ units' # <<>>
        /\ Len(units') = Len(units) + U16_LENGTH(c)
        /\ reorderStart' \in 0 .. Len(units')
        /\ lastCC' = lastCC
    BY <1>1, <1>2, <1>5, InsertType
  <2>3. rest' \in Seq(CodeUnit) /\ rest' \in Seq(Nat)
    <3>1. rest' \in Seq(CodeUnit)
      BY <1>1, <1>5
    <3> QED BY <3>1, SurrogateLayout DEF CodeUnit
  <2>4. Len(units) \in Nat /\ U16_LENGTH(c) \in Nat
    BY <1>1 DEF IInv, NumbersInv
  <2>5. NumbersInv'
    <3>1. /\ units' \in Seq(Nat) /\ rest' \in Seq(Nat) /\ rest' \in Seq(CodeUnit)
          /\ reorderStart' \in 0 .. Len(units')
          /\ lastCC' \in Nat /\ (lastCC' # 0 => units' # <<>>)
          /\ capacity' \in Nat /\ remainingCapacity' \in Int
      BY <2>1, <2>2, <2>3 DEF IInv, NumbersInv
    <3>2. RoomInv'
      BY <1>1, <2>1, <2>2, <2>4, SMTT(30) DEF RoomInv
    <3> QED BY <3>1, <3>2 DEF NumbersInv
  <2>6. FlagsInv'
    BY <1>2, <1>5, Zenon DEF IInv, FlagsInv
  <2> QED BY <2>5, <2>6 DEF IInv
<1> QED BY <1>2, <1>4, <1>5

(* appendZeroCC() takes the room it needs, and sets reorderStart to the    *)
(* end.                                                                    *)
LEMMA AppendZeroCCInv ==
  ASSUME IInv, NEW s \in Texts, AppendZeroCC(s)
  PROVE  IInv'
<1> DEFINE lacks == remainingCapacity < Len(s)
<1>1. /\ s \in Seq(Nat) /\ s # <<>> /\ Len(s) \in Nat /\ Len(s) > 0
  BY TextType DEF AppendZeroCC
<1>2. /\ UNCHANGED rest
      /\ \/ /\ Take(lacks, Len(s), Len(s)) /\ Push(s, 0)
            /\ reorderStart' = Len(units') /\ atBoundary' \in BOOLEAN
            /\ UNCHANGED failed
         \/ OutOfMemory(lacks) /\ UNCHANGED atBoundary
  BY DEF AppendZeroCC
<1>3. lacks \in BOOLEAN /\ (~lacks => remainingCapacity >= Len(s))
  BY <1>1 DEF IInv, NumbersInv
<1> HIDE DEF lacks
<1>4. CASE OutOfMemory(lacks) /\ UNCHANGED atBoundary
  <2>1. rest' \in Seq(CodeUnit) /\ atBoundary' \in BOOLEAN
    BY <1>2, <1>4, Zenon DEF IInv, NumbersInv, FlagsInv
  <2> QED BY <1>4, <2>1, OutOfMemoryInv
<1>5. CASE /\ Take(lacks, Len(s), Len(s)) /\ Push(s, 0)
           /\ reorderStart' = Len(units') /\ atBoundary' \in BOOLEAN
           /\ UNCHANGED failed
  <2>1. /\ capacity' \in Nat /\ remainingCapacity' \in Int
        /\ 0 <= remainingCapacity'
        /\ remainingCapacity' <= capacity' - (Len(units) + Len(s))
    BY <1>1, <1>3, <1>5, TakeLeavesRoom
  <2>2. /\ units' \in Seq(Nat) /\ units' # <<>>
        /\ Len(units') = Len(units) + Len(s)
        /\ lastCC' \in Nat
    BY <1>1, <1>5, PushType
  <2>3. NumbersInv'
    BY <1>1, <1>2, <1>5, <2>1, <2>2 DEF IInv, NumbersInv, RoomInv
  <2>4. FlagsInv'
    BY <1>5, Zenon DEF IInv, FlagsInv
  <2> QED BY <2>3, <2>4 DEF IInv
<1> QED BY <1>2, <1>4, <1>5

(* Units given back are units that were there.                             *)
LEMMA ShortenInv ==
  ASSUME IInv, NEW length \in 0 .. Len(units), NEW remaining \in Int,
         remaining \in {capacity - length,
                        remainingCapacity + (Len(units) - length)},
         Shorten(length, remaining)
  PROVE  IInv'
<1>1. /\ units' = SubSeq(units, 1, length)
      /\ remainingCapacity' = remaining
      /\ lastCC' = 0 /\ reorderStart' = length /\ atBoundary' = TRUE
      /\ UNCHANGED <<capacity, rest, failed>>
  BY DEF Shorten
<1>2. units \in Seq(Nat) /\ Len(units) \in Nat
  BY DEF IInv, NumbersInv
<1>3. units' \in Seq(Nat) /\ Len(units') = length
  BY <1>1, <1>2
<1>4. NumbersInv'
  BY <1>1, <1>2, <1>3 DEF IInv, NumbersInv, RoomInv
<1>5. FlagsInv'
  BY <1>1, Zenon DEF IInv, FlagsInv
<1> QED BY <1>4, <1>5 DEF IInv

(* init() finds reorderStart inside the text that is there.                *)
LEMMA InitInv == Init => IInv
<1> SUFFICES ASSUME Init PROVE IInv
  OBVIOUS
<1>1. units \in Seq(CodeUnit) /\ units \in Seq(Nat) /\ Len(units) \in Nat
  <2>1. units \in Texts \/ units = <<>>
    BY DEF Init
  <2>2. CASE units \in Texts
    <3>1. units \in Seq(CodeUnit)
      BY <2>2, BufferConstants, Zenon DEF CodeUnit
    <3>2. units \in Seq(Nat)
      BY <3>1, SurrogateLayout DEF CodeUnit
    <3> QED BY <3>1, <3>2
  <2>3. CASE units = <<>>
    BY <2>3
  <2> QED BY <2>1, <2>2, <2>3
<1>2. reorderStart \in 0 .. Len(units)
  <2> DEFINE last == {i \in 0 .. Len(units) :
                        /\ IsBoundary(units, i)
                        /\ i > 0 => CodePointCC(units, PreviousStart(i)) <= 1}
  <2>1. reorderStart = CHOOSE i \in last : \A x \in last : x <= i
    BY DEF Init
  <2>2. 0 \in last
    BY <1>1 DEF IsBoundary
  <2>3. \E i \in last : \A x \in last : x <= i
    <3>1. last \in SUBSET (0 .. Len(units)) /\ last # {} /\ Len(units) \in Int
      BY <1>1, <2>2
    <3> HIDE DEF last
    <3> QED BY <3>1, RangeHasGreatest
  <2>4. reorderStart \in last
    <3> HIDE DEF last
    <3> QED BY <2>1, <2>3
  <2> QED BY <2>4
<1>3. lastCC \in Nat /\ (lastCC # 0 => units # <<>>)
  <2>1. CASE units = <<>>
    BY <2>1 DEF Init
  <2>2. CASE units # <<>>
    <3>1. units \in Texts
      BY <2>2 DEF Init
    <3> QED BY <2>2, <3>1, TextType DEF Init
  <2> QED BY <2>1, <2>2
<1>4. PICK extra \in Slack : capacity = Len(units) + extra
  BY DEF Init
<1>5. /\ extra \in Nat /\ remainingCapacity = capacity - Len(units)
      /\ rest = <<>> /\ atBoundary = FALSE /\ failed = FALSE
  BY BufferConstants DEF Init
<1>6. capacity \in Nat /\ remainingCapacity = extra /\ remainingCapacity \in Nat
  BY <1>1, <1>4, <1>5
<1>7. rest \in Seq(CodeUnit) /\ rest \in Seq(Nat)
  BY <1>5
<1>8. NumbersInv
  BY <1>1, <1>2, <1>3, <1>4, <1>5, <1>6, <1>7 DEF NumbersInv, RoomInv
<1>9. FlagsInv
  BY <1>5, Zenon DEF FlagsInv
<1> QED BY <1>8, <1>9 DEF IInv

(* Every step keeps the invariant.                                         *)
LEMMA StepInv == IInv /\ [Next]_vars => IInv'
<1> SUFFICES ASSUME IInv, [Next]_vars PROVE IInv'
  OBVIOUS
<1>1. ASSUME NEW c \in CodePoint, AppendCodePoint(c) PROVE IInv'
  <2>1. c \in 0 .. MaxCodePoint
    BY BufferConstants
  <2>2. PlaceCodePoint(c) /\ rest' = rest /\ atBoundary' = FALSE
    BY <1>1 DEF AppendCodePoint
  <2>3. rest' \in Seq(CodeUnit) /\ atBoundary' \in BOOLEAN
    BY <2>2, Zenon DEF IInv, NumbersInv
  <2> QED BY <2>1, <2>2, <2>3, PlaceCodePointInv
<1>2. ASSUME NEW s \in Texts,
             AppendInOrder(s) \/ AppendReordered(s) \/ AppendZeroCC(s)
      PROVE IInv'
  BY <1>2, AppendInOrderInv, AppendReorderedInv, AppendZeroCCInv
<1>3. CASE AppendNext
  <2> DEFINE c == CodePointAt(rest, 0)
  <2>1. /\ rest # <<>> /\ PlaceCodePoint(c) /\ UNCHANGED atBoundary
        /\ rest' = SubSeq(rest, U16_LENGTH(c) + 1, Len(rest))
    BY <1>3 DEF AppendNext
  <2>2. rest \in Seq(CodeUnit) /\ Len(rest) \in Nat /\ Len(rest) > 0
    BY <2>1 DEF IInv, NumbersInv
  <2>3. c \in 0 .. MaxCodePoint
    BY <2>2, CodePointAtRange DEF CodeUnit
  <2>4. U16_LENGTH(c) \in Nat
    BY DEF U16_LENGTH
  <2> HIDE DEF c
  <2>5. rest' \in Seq(CodeUnit)
    BY <2>1, <2>2, <2>4
  <2>6. atBoundary' \in BOOLEAN
    BY <2>1, Zenon DEF IInv, FlagsInv
  <2> QED BY <2>1, <2>3, <2>5, <2>6, PlaceCodePointInv
<1>4. CASE Remove
  <2>1. Shorten(0, capacity) /\ capacity - 0 = capacity /\ capacity \in Int
        /\ 0 \in 0 .. Len(units)
    BY <1>4 DEF Remove, IInv, NumbersInv
  <2> QED BY <2>1, ShortenInv
<1>5. ASSUME NEW suffixLength \in 0 .. MaxLength, RemoveSuffix(suffixLength)
      PROVE IInv'
  <2>1. Len(units) \in Nat /\ capacity \in Int /\ remainingCapacity \in Int
        /\ suffixLength \in Nat
    BY BufferConstants DEF IInv, NumbersInv
  <2>2. CASE suffixLength < Len(units)
    <3> DEFINE length == Len(units) - suffixLength
    <3>1. /\ Shorten(length, remainingCapacity + suffixLength)
          /\ length \in 0 .. Len(units)
          /\ remainingCapacity + suffixLength =
               remainingCapacity + (Len(units) - length)
          /\ remainingCapacity + suffixLength \in Int
      BY <1>5, <2>1, <2>2 DEF RemoveSuffix
    <3> HIDE DEF length
    <3> QED BY <3>1, ShortenInv
  <2>3. CASE ~(suffixLength < Len(units))
    <3>1. Shorten(0, capacity) /\ capacity - 0 = capacity
          /\ 0 \in 0 .. Len(units)
      BY <1>5, <2>1, <2>3 DEF RemoveSuffix
    <3> QED BY <2>1, <3>1, ShortenInv
  <2> QED BY <2>2, <2>3
<1>6. ASSUME NEW newLimit \in 0 .. Len(units), SetReorderingLimit(newLimit)
      PROVE IInv'
  <2>1. /\ Shorten(newLimit, remainingCapacity + (Len(units) - newLimit))
        /\ remainingCapacity + (Len(units) - newLimit) \in Int
    BY <1>6 DEF SetReorderingLimit, IInv, NumbersInv
  <2> QED BY <2>1, ShortenInv
<1>7. CASE UNCHANGED vars
  <2>1. NumbersInv'
    BY <1>7 DEF vars, IInv, NumbersInv, RoomInv
  <2>2. FlagsInv'
    BY <1>7, Zenon DEF vars, IInv, FlagsInv
  <2> QED BY <2>1, <2>2 DEF IInv
<1> QED BY <1>1, <1>2, <1>3, <1>4, <1>5, <1>6, <1>7 DEF Next

(* The indexes of the buffer stay inside its text, whatever its callers    *)
(* say about combining classes.                                            *)
THEOREM BufferIsTyped == Spec => []BufferTypeOK
<1>1. Init => IInv
  BY InitInv
<1>2. IInv /\ [Next]_vars => IInv'
  BY StepInv
<1>3. IInv => BufferTypeOK
  BY DEF IInv, NumbersInv, FlagsInv, BufferTypeOK
<1> QED BY <1>1, <1>2, <1>3, PTL DEF Spec

(* No operation of the buffer writes behind its array.                     *)
THEOREM BufferStaysInItsArray == Spec => []CapacityAccounting
<1>1. Init => IInv
  BY InitInv
<1>2. IInv /\ [Next]_vars => IInv'
  BY StepInv
<1>3. IInv => CapacityAccounting
  BY DEF IInv, NumbersInv, RoomInv, CapacityAccounting
<1> QED BY <1>1, <1>2, <1>3, PTL DEF Spec

-----------------------------------------------------------------------------
(* After a failure.  append() of a string goes on with its loop when a     *)
(* resize has failed, and appendBMP() then finds that there is no room,    *)
(* because it failed for that reason.  appendSupplementary() would fail    *)
(* with room for one unit left, which the next appendBMP() would fill: the *)
(* mappings that are reordered must not have supplementary characters.     *)

(* A mapping that begins with a mark has no supplementary character.       *)
LeadingMarksAreBMP ==
  \A s \in Texts : s # <<>> /\ LeadCC(s) # 0 =>
    \A x \in 0 .. Len(s) - 1 : ~StartsPair(s, x)

(* What is left to insert has none, and nothing is left to write it to.    *)
FailureInv ==
  /\ \A x \in 0 .. Len(rest) - 1 : ~StartsPair(rest, x)
  /\ failed /\ rest # <<>> => remainingCapacity = 0

(* What follows the first code point of a text without pairs has none.     *)
LEMMA NoPairsBehind ==
  ASSUME NEW s \in Seq(CodeUnit), \A x \in 0 .. Len(s) - 1 : ~StartsPair(s, x),
         s # <<>>
  PROVE  /\ U16_LENGTH(CodePointAt(s, 0)) = 1
         /\ \A x \in 0 .. Len(SubSeq(s, 2, Len(s))) - 1 :
              ~StartsPair(SubSeq(s, 2, Len(s)), x)
<1> DEFINE t == SubSeq(s, 2, Len(s))
<1>1. Len(s) \in Nat /\ Len(s) > 0 /\ s[1] \in CodeUnit
  BY SurrogateLayout DEF CodeUnit
<1>2. CodePointAt(s, 0) = s[1]
  BY <1>1 DEF CodePointAt
<1>3. U16_LENGTH(CodePointAt(s, 0)) = 1
  BY <1>1, <1>2, SurrogateLayout DEF U16_LENGTH, CodeUnit
<1>4. Len(t) = Len(s) - 1 /\ \A x \in 1 .. Len(s) - 1 : t[x] = s[x + 1]
  <2>1. Len(t) = IF 2 <= Len(s) THEN Len(s) - 2 + 1 ELSE 0
    BY <1>1
  <2>2. \A x \in 1 .. Len(s) - 1 : t[x] = s[2 + x - 1] /\ 2 + x - 1 = x + 1
    BY <1>1
  <2> HIDE DEF t
  <2>3. Len(t) = Len(s) - 1
    <3>1. CASE 2 <= Len(s)
      BY <1>1, <2>1, <3>1
    <3>2. CASE Len(s) = 1
      BY <2>1, <3>2
    <3>3. 2 <= Len(s) \/ Len(s) = 1
      <4>1. \A m \in Nat : m > 0 => 2 <= m \/ m = 1
        OBVIOUS
      <4> QED BY <1>1, <4>1, Zenon
    <3> QED BY <3>1, <3>2, <3>3
  <2>4. \A x \in 1 .. Len(s) - 1 : t[x] = s[x + 1]
    BY <2>2, Zenon
  <2> QED BY <2>3, <2>4
<1>5. ASSUME NEW x \in 0 .. Len(t) - 1, StartsPair(t, x) PROVE FALSE
  <2> HIDE DEF t
  <2>1. x \in Nat /\ x + 2 <= Len(s) - 1 /\ IsLead(t[x + 1]) /\ IsTrail(t[x + 2])
    BY <1>4, <1>5 DEF StartsPair
  <2>2. t[x + 1] = s[(x + 1) + 1] /\ t[x + 2] = s[(x + 1) + 2]
    BY <1>1, <1>4, <2>1
  <2>3. StartsPair(s, x + 1)
    BY <1>1, <2>1, <2>2 DEF StartsPair
  <2>4. x + 1 \in 0 .. Len(s) - 1
    BY <1>1, <2>1
  <2> QED BY <2>3, <2>4
<1> QED BY <1>3, <1>5

(* A step after a failure writes nothing, and there is never room for it.  *)
LEMMA FailureStep ==
  ASSUME LeadingMarksAreBMP, IInv, FailureInv, [Next]_vars
  PROVE  FailureInv' /\ (failed => UNCHANGED units)
<1>1. CASE rest' = <<>> /\ Idle
  BY <1>1 DEF FailureInv, Idle
<1>2. ASSUME NEW s \in Texts, AppendReordered(s)
      PROVE  FailureInv' /\ (failed => UNCHANGED units)
  <2> DEFINE c == CodePointAt(s, 0)
  <2>1. /\ Idle /\ s # <<>> /\ s \in Seq(CodeUnit) /\ LeadCC(s) # 0
    BY <1>2, TextType DEF AppendReordered
  <2>2. \A x \in 0 .. Len(s) - 1 : ~StartsPair(s, x)
    BY <2>1 DEF LeadingMarksAreBMP
  <2>3. \/ rest' = SubSeq(s, U16_LENGTH(c) + 1, Len(s)) /\ UNCHANGED failed
        \/ rest' = rest
    BY <1>2 DEF AppendReordered
  <2>4. CASE rest' = rest
    BY <1>1, <2>1, <2>4 DEF Idle
  <2>5. CASE rest' = SubSeq(s, U16_LENGTH(c) + 1, Len(s)) /\ UNCHANGED failed
    <3>1. /\ U16_LENGTH(c) = 1
          /\ \A x \in 0 .. Len(SubSeq(s, 2, Len(s))) - 1 :
               ~StartsPair(SubSeq(s, 2, Len(s)), x)
      BY <2>1, <2>2, NoPairsBehind
    <3>2. rest' = SubSeq(s, 2, Len(s))
      BY <2>5, <3>1
    <3> QED BY <2>1, <2>5, <3>1, <3>2 DEF FailureInv, Idle
  <2> QED BY <2>3, <2>4, <2>5
<1>3. CASE AppendNext
  <2> DEFINE c == CodePointAt(rest, 0)
  <2>1. /\ rest # <<>> /\ PlaceCodePoint(c)
        /\ rest' = SubSeq(rest, U16_LENGTH(c) + 1, Len(rest))
    BY <1>3 DEF AppendNext
  <2>2. /\ U16_LENGTH(c) = 1
        /\ \A x \in 0 .. Len(SubSeq(rest, 2, Len(rest))) - 1 :
             ~StartsPair(SubSeq(rest, 2, Len(rest)), x)
    BY <2>1, NoPairsBehind DEF FailureInv, IInv, NumbersInv
  <2>3. \A x \in 0 .. Len(rest') - 1 : ~StartsPair(rest', x)
    BY <2>1, <2>2
  <2>4. LacksRoomFor(c) <=> remainingCapacity = 0
    BY <2>2 DEF LacksRoomFor
  <2>5. CASE OutOfMemory(LacksRoomFor(c))
    BY <2>3, <2>4, <2>5 DEF OutOfMemory, FailureInv
  <2>6. CASE Take(LacksRoomFor(c), U16_LENGTH(c), U16_LENGTH(c)) /\ UNCHANGED failed
    <3>1. ~failed
      BY <2>1, <2>4, <2>6 DEF Take, FailureInv
    <3> QED BY <2>3, <2>6, <3>1 DEF FailureInv
  <2> QED BY <2>1, <2>5, <2>6 DEF PlaceCodePoint
<1>4. CASE UNCHANGED vars
  BY <1>4 DEF vars, FailureInv
<1>5. ASSUME NEW c \in CodePoint, AppendCodePoint(c) PROVE rest' = <<>> /\ Idle
  BY <1>5 DEF AppendCodePoint, Idle
<1>6. ASSUME NEW s \in Texts, AppendInOrder(s) \/ AppendZeroCC(s)
      PROVE  rest' = <<>> /\ Idle
  BY <1>6 DEF AppendInOrder, AppendZeroCC, Idle
<1>7. ASSUME NEW length, NEW remaining, Shorten(length, remaining)
      PROVE  rest' = <<>> /\ Idle
  BY <1>7 DEF Shorten, Idle
<1>8. CASE Remove
  BY <1>1, <1>7, <1>8 DEF Remove
<1>9. ASSUME NEW suffixLength \in 0 .. MaxLength, RemoveSuffix(suffixLength)
      PROVE  rest' = <<>> /\ Idle
  BY <1>7, <1>9 DEF RemoveSuffix
<1>10. ASSUME NEW newLimit \in 0 .. Len(units), SetReorderingLimit(newLimit)
       PROVE  rest' = <<>> /\ Idle
  BY <1>7, <1>10 DEF SetReorderingLimit
<1> QED BY <1>1, <1>2, <1>3, <1>4, <1>5, <1>6, <1>8, <1>9, <1>10 DEF Next

(* Once a resize has failed, no unit is written any more: neither by the   *)
(* loop that goes on nor by a later call, if no mapping that begins with a *)
(* mark has a supplementary character.                                     *)
THEOREM FailedBufferIsNotWritten ==
  ASSUME LeadingMarksAreBMP
  PROVE  Spec => NothingWrittenAfterFailure
<1>1. Init => IInv /\ FailureInv
  BY InitInv DEF Init, FailureInv
<1>2. IInv /\ FailureInv /\ [Next]_vars => (IInv /\ FailureInv)'
  BY StepInv, FailureStep
<1>3. IInv /\ FailureInv /\ [Next]_vars =>
        (failed => UNCHANGED units) \/ UNCHANGED vars
  BY FailureStep
<1> QED BY <1>1, <1>2, <1>3, PTL DEF Spec, NothingWrittenAfterFailure

-----------------------------------------------------------------------------
(* What is appended are characters, not halves of them.                    *)
WholeCharacters ==
  /\ \A c \in CodePoint : ~IsSurrogate(c)
  /\ \A s \in Texts : IsWellFormed(s)

(* The class of the character that ends at index i of s.                   *)
EndCC(s, i) == CodePointCC(s, PreviousIndex(s, i))

ClassAtEnd(s) == IF s = <<>> THEN 0 ELSE EndCC(s, Len(s))

(* A character of a class of at most 1 ends at index i.                    *)
Starter(s, i) == i \in 1 .. Len(s) /\ IsBoundary(s, i) /\ EndCC(s, i) \in 0 .. 1

(* The index start and the class last are right for the text s.            *)
Marked(s, start, last) ==
  /\ last = ClassAtEnd(s)
  /\ start > 0 => Starter(s, start) \/ Starter(s, start + 1)
  /\ last <= 1 => start = Len(s)

TextInv ==
  /\ IsWellFormed(units) /\ IsWellFormed(rest)
  /\ rest # <<>> => ~atBoundary

SuffixInv ==
  /\ TextInv
  /\ ~failed /\ ~atBoundary => Marked(units, reorderStart, lastCC)

-----------------------------------------------------------------------------
(* The code units of a character are well-formed, and are it.              *)
LEMMA CharacterUnits ==
  ASSUME NEW c \in 0 .. MaxCodePoint, ~IsSurrogate(c), NEW t, t = CodeUnits(c)
  PROVE  /\ t \in Seq(Nat) /\ Len(t) = U16_LENGTH(c) /\ U16_LENGTH(c) \in 1 .. 2
         /\ IsWellFormed(t) /\ t # <<>>
         /\ CodePointAt(t, 0) = c
         /\ PreviousIndex(t, Len(t)) = 0
<1>1. t \in Seq(Nat) /\ Len(t) = U16_LENGTH(c) /\ U16_LENGTH(c) \in 1 .. 2
  BY CodeUnitsType
<1>2. t # <<>>
  BY <1>1
<1>3. CASE Len(t) = 1
  <2>1. t = <<c>> /\ t[1] = c
    BY <1>1, <1>3 DEF CodeUnits
  <2>2. \A x \in 0 .. Len(t) - 1 : x = 0
    BY <1>3
  <2>3. IsWellFormed(t)
    BY <2>1, <2>2 DEF IsWellFormed
  <2>4. ~StartsPair(t, 0)
    BY <1>3 DEF StartsPair
  <2>5. CodePointAt(t, 0) = c /\ PreviousIndex(t, Len(t)) = 0
    BY <1>3, <2>1, <2>4 DEF CodePointAt, PreviousIndex
  <2> QED BY <1>1, <1>2, <2>3, <2>5, Zenon
<1>4. CASE Len(t) = 2
  <2>1. c \in FirstSupplementary .. MaxCodePoint
    BY <1>1, <1>4, SurrogateLayout DEF U16_LENGTH
  <2>2. t = <<U16_LEAD(c), U16_TRAIL(c)>>
    BY <1>1, <1>4 DEF CodeUnits
  <2>3. /\ IsLead(t[1]) /\ IsTrail(t[2])
        /\ U16_GET_SUPPLEMENTARY(t[1], t[2]) = c
    BY <2>1, <2>2, SurrogatesOfCodePoint
  <2>4. StartsPair(t, 0)
    BY <1>4, <2>3 DEF StartsPair
  <2>5. \A x \in 0 .. Len(t) - 1 : x = 0 \/ (x > 0 /\ x - 1 = 0)
    BY <1>4
  <2>6. IsWellFormed(t)
    BY <2>4, <2>5 DEF IsWellFormed
  <2>7. CodePointAt(t, 0) = c
    BY <2>3, <2>4 DEF CodePointAt
  <2>8. PreviousIndex(t, Len(t)) = 0
    BY <1>4, <2>4 DEF PreviousIndex
  <2> QED BY <1>1, <1>2, <2>6, <2>7, <2>8, Zenon
<1> QED BY <1>1, <1>3, <1>4

(* A text is cut in two at a boundary.                                     *)
LEMMA SplitAtBoundary ==
  ASSUME NEW s \in Seq(Nat), NEW i \in 0 .. Len(s), IsBoundary(s, i)
  PROVE  /\ Joined(s, SubSeq(s, 1, i), SubSeq(s, i + 1, Len(s)))
         /\ Len(SubSeq(s, 1, i)) = i
         /\ Len(SubSeq(s, i + 1, Len(s))) = Len(s) - i
<1> DEFINE a == SubSeq(s, 1, i)
           b == SubSeq(s, i + 1, Len(s))
<1>1. /\ a \in Seq(Nat) /\ Len(a) = i /\ b \in Seq(Nat) /\ Len(b) = Len(s) - i
      /\ \A x \in 1 .. i : a[x] = s[x]
      /\ \A x \in 1 .. Len(s) - i : b[x] = s[i + x]
      /\ Len(s) \in Nat
  <2>1. Len(s) \in Nat /\ i \in Nat /\ i <= Len(s)
    OBVIOUS
  <2>2. a \in Seq(Nat) /\ Len(a) = i
    BY <2>1
  <2>3. b \in Seq(Nat) /\ Len(b) = Len(s) - i
    BY <2>1
  <2>4. \A x \in 1 .. i : a[x] = s[x]
    BY <2>1
  <2>5. \A x \in 1 .. Len(s) - i : b[x] = s[i + x]
    BY <2>1
  <2> QED BY <2>1, <2>2, <2>3, <2>4, <2>5
<1>2. s = a \o b
  <2>1. /\ a \o b \in Seq(Nat) /\ Len(a \o b) = Len(a) + Len(b)
        /\ \A x \in 1 .. Len(a) : (a \o b)[x] = a[x]
        /\ \A x \in 1 .. Len(b) : (a \o b)[Len(a) + x] = b[x]
    <3> HIDE DEF a, b
    <3>1. \A p, q \in Seq(Nat) :
            /\ p \o q \in Seq(Nat) /\ Len(p \o q) = Len(p) + Len(q)
            /\ \A x \in 1 .. Len(p) : (p \o q)[x] = p[x]
            /\ \A x \in 1 .. Len(q) : (p \o q)[Len(p) + x] = q[x]
      BY ConcatUnits
    <3> QED BY <1>1, <3>1, Zenon
  <2> DEFINE e == a \o b
  <2>2. e \in Seq(Nat) /\ Len(e) = Len(s)
    <3> HIDE DEF a, b
    <3> QED BY <1>1, <2>1
  <2>3. ASSUME NEW x \in 1 .. Len(s) PROVE e[x] = s[x]
    <3> HIDE DEF a, b
    <3>1. CASE x <= i
      BY <1>1, <2>1, <3>1
    <3>2. CASE ~(x <= i)
      <4>1. x - i \in 1 .. Len(s) - i /\ i + (x - i) = x
        BY <1>1, <3>2
      <4>2. (a \o b)[Len(a) + (x - i)] = b[x - i] /\ b[x - i] = s[i + (x - i)]
        BY <1>1, <2>1, <4>1
      <4> QED BY <1>1, <4>1, <4>2
    <3> QED BY <3>1, <3>2
  <2> HIDE DEF e
  <2>4. e = s
    BY <2>2, <2>3, SeqEqual
  <2> QED BY <2>4 DEF e
<1>3. IsBoundary(s, Len(a))
  BY <1>1
<1> HIDE DEF a, b
<1>4. Joined(s, a, b)
  BY <1>1, <1>2, <1>3, ConcatIsJoined
<1> QED BY <1>1, <1>4 DEF a, b

(* A text is its first character and what follows.                         *)
LEMMA FirstCharacter ==
  ASSUME NEW s \in Seq(CodeUnit), s # <<>>, IsWellFormed(s),
         NEW c, c = CodePointAt(s, 0)
  PROVE  /\ c \in 0 .. MaxCodePoint /\ ~IsSurrogate(c)
         /\ U16_LENGTH(c) = NextIndex(s, 0) /\ U16_LENGTH(c) \in 1 .. Len(s)
         /\ IsBoundary(s, U16_LENGTH(c))
<1>1. /\ s \in Seq(Nat) /\ Len(s) \in Nat /\ 0 \in 0 .. Len(s) - 1
      /\ s[1] \in CodeUnit
  BY SurrogateLayout DEF CodeUnit
<1>2. c \in 0 .. MaxCodePoint
  BY <1>1, CodePointAtRange DEF CodeUnit
<1>3. /\ NextIndex(s, 0) \in 1 .. Len(s)
      /\ IsBoundary(s, NextIndex(s, 0))
  BY <1>1, NextIndexIsBoundary, EndsAreBoundaries
<1>4. CASE StartsPair(s, 0)
  <2>1. s[1] \in Nat /\ s[2] \in Nat /\ IsLead(s[1]) /\ IsTrail(s[2])
    BY <1>1, <1>4 DEF StartsPair
  <2>2. c \in FirstSupplementary .. MaxCodePoint
    BY <1>4, <2>1, PairIsSupplementary DEF CodePointAt
  <2>3. U16_LENGTH(c) = 2 /\ ~IsSurrogate(c)
    BY <2>2, SurrogateLayout, MaxCodePointIsNat DEF U16_LENGTH, IsSurrogate
  <2> QED BY <1>2, <1>3, <1>4, <2>3 DEF NextIndex
<1>5. CASE ~StartsPair(s, 0)
  <2>1. c = s[1]
    BY <1>5 DEF CodePointAt
  <2>2. U16_LENGTH(c) = 1
    BY <1>1, <2>1, SurrogateLayout DEF U16_LENGTH, CodeUnit
  <2>3. ~IsSurrogate(c)
    BY <1>1, <1>5, <2>1 DEF IsWellFormed
  <2> QED BY <1>2, <1>3, <1>5, <2>2, <2>3 DEF NextIndex
<1> QED BY <1>4, <1>5

-----------------------------------------------------------------------------
(* Every character ends where it did, or as far behind the first part.     *)
LEMMA JoinedEnds ==
  ASSUME NEW e, NEW a, NEW b, Joined(e, a, b)
  PROVE  /\ \A i \in 1 .. Len(a) : EndCC(e, i) = EndCC(a, i)
         /\ \A i \in 1 .. Len(b) : EndCC(e, Len(a) + i) = EndCC(b, i)
<1> DEFINE m == Len(a)
           n == Len(b)
<1>1. /\ a \in Seq(Nat) /\ b \in Seq(Nat)
      /\ \A x \in 0 .. m - 1 : /\ StartsPair(e, x) <=> StartsPair(a, x)
                               /\ CodePointAt(e, x) = CodePointAt(a, x)
      /\ \A x \in 0 .. n : StartsPair(e, m + x) <=> StartsPair(b, x)
      /\ \A x \in 0 .. n - 1 : CodePointAt(e, m + x) = CodePointAt(b, x)
  BY DEF Joined
<1>2. m \in Nat /\ n \in Nat
  BY <1>1
<1>3. ~StartsPair(a, m - 1)
  BY <1>2 DEF StartsPair
<1> HIDE DEF m, n
<1>4. ASSUME NEW i \in 1 .. m PROVE EndCC(e, i) = EndCC(a, i)
  <2>1. i >= 2 => i - 2 \in 0 .. m - 1
    BY <1>2
  <2>2. PreviousIndex(e, i) = PreviousIndex(a, i)
    BY <1>1, <2>1 DEF PreviousIndex
  <2>3. PreviousIndex(a, i) \in 0 .. m - 1
    BY <1>2, <2>1 DEF PreviousIndex
  <2> QED BY <1>1, <2>2, <2>3 DEF EndCC, CodePointCC
<1>5. ASSUME NEW i \in 1 .. n PROVE EndCC(e, m + i) = EndCC(b, i)
  <2> DEFINE j == PreviousIndex(b, i)
  <2>1. j \in 0 .. n - 1
    BY <1>2 DEF PreviousIndex
  <2>2. PreviousIndex(e, m + i) = m + j
    <3>1. CASE i >= 2
      <4>1. i - 2 \in 0 .. n /\ (m + i) - 2 = m + (i - 2) /\ m + i >= 2
            /\ (m + i) - 1 = m + (i - 1)
        BY <1>2, <3>1
      <4> QED BY <1>1, <3>1, <4>1 DEF PreviousIndex
    <3>2. CASE i = 1
      <4>1. (m + i) - 2 = m - 1 /\ (m + i) - 1 = m + 0 /\ j = 0
        BY <1>2, <3>2 DEF PreviousIndex
      <4>2. m + i >= 2 => m - 1 \in 0 .. m - 1
        BY <1>2, <3>2
      <4> QED BY <1>1, <1>3, <4>1, <4>2 DEF PreviousIndex
    <3> QED BY <1>2, <3>1, <3>2
  <2> HIDE DEF j
  <2>3. CodePointAt(e, m + j) = CodePointAt(b, j)
    BY <1>1, <2>1
  <2> QED BY <2>2, <2>3 DEF EndCC, CodePointCC, j
<1> QED BY <1>4, <1>5 DEF m, n

(* So the starters of the parts are those of the whole.                    *)
LEMMA JoinedStarters ==
  ASSUME NEW e, NEW a, NEW b, Joined(e, a, b)
  PROVE  /\ \A i : Starter(a, i) => Starter(e, i)
         /\ \A i : Starter(b, i) => Starter(e, Len(a) + i)
         /\ \A i : Starter(e, i) /\ i <= Len(a) => Starter(a, i)
         /\ b # <<>> => ClassAtEnd(e) = ClassAtEnd(b)
<1> DEFINE m == Len(a)
           n == Len(b)
<1>1. /\ \A x \in 0 .. m : IsBoundary(e, x) <=> IsBoundary(a, x)
      /\ \A x \in 0 .. n : IsBoundary(e, m + x) <=> IsBoundary(b, x)
  BY JoinedBoundaries
<1>2. /\ \A i \in 1 .. m : EndCC(e, i) = EndCC(a, i)
      /\ \A i \in 1 .. n : EndCC(e, m + i) = EndCC(b, i)
  BY JoinedEnds
<1>3. a \in Seq(Nat) /\ b \in Seq(Nat) /\ e \in Seq(Nat) /\ Len(e) = m + n
  BY DEF Joined
<1>4. m \in Nat /\ n \in Nat
  BY <1>3
<1>5. b # <<>> => n > 0
  BY <1>3, <1>4
<1>6. n > 0 => e # <<>> /\ b # <<>>
  BY <1>3, <1>4
<1> HIDE DEF m, n
<1>7. ASSUME NEW i, Starter(a, i) PROVE Starter(e, i)
  BY <1>1, <1>2, <1>3, <1>4, <1>7 DEF Starter, m
<1>8. ASSUME NEW i, Starter(b, i) PROVE Starter(e, m + i)
  <2>1. i \in 1 .. n /\ IsBoundary(b, i) /\ EndCC(b, i) \in 0 .. 1
    BY <1>8 DEF Starter, n
  <2>2. m + i \in 1 .. m + n
    BY <1>4, <2>1
  <2> QED BY <1>1, <1>2, <1>3, <2>1, <2>2 DEF Starter
<1>9. ASSUME NEW i, Starter(e, i), i <= m PROVE Starter(a, i)
  <2>1. i \in 1 .. m
    BY <1>3, <1>4, <1>9 DEF Starter
  <2> QED BY <1>1, <1>2, <1>4, <1>9, <2>1 DEF Starter, m
<1>10. ASSUME b # <<>> PROVE ClassAtEnd(e) = ClassAtEnd(b)
  <2>1. n \in 1 .. n /\ Len(e) = m + n
    BY <1>3, <1>4, <1>5, <1>10
  <2>2. EndCC(e, Len(e)) = EndCC(b, n)
    BY <1>2, <2>1
  <2> QED BY <1>5, <1>6, <1>10, <2>2 DEF ClassAtEnd, n
<1> QED BY <1>7, <1>8, <1>9, <1>10 DEF m

-----------------------------------------------------------------------------
(* A text that ends with a starter is marked at its end.                   *)
LEMMA MarkedAtStarter ==
  ASSUME NEW s \in Seq(Nat), s # <<>>, ClassAtEnd(s) \in 0 .. 1
  PROVE  Marked(s, Len(s), ClassAtEnd(s))
<1>1. Len(s) \in 1 .. Len(s)
  OBVIOUS
<1>2. IsBoundary(s, Len(s))
  BY EndsAreBoundaries
<1> QED BY <1>1, <1>2 DEF Marked, Starter, ClassAtEnd

(* What is put behind the text moves reorderStart behind itself, behind    *)
(* its first code unit, or leaves it.                                      *)
LEMMA PushMarks ==
  ASSUME NEW e, NEW a, NEW b, Joined(e, a, b), b # <<>>,
         NEW start, NEW last, NEW r,
         \/ ClassAtEnd(b) \in 0 .. 1 /\ r = Len(e)
         \/ /\ ~(ClassAtEnd(b) <= 1) /\ r = Len(a) + 1
            /\ Starter(b, 1) \/ Starter(b, 2)
         \/ ~(ClassAtEnd(b) <= 1) /\ r = start /\ Marked(a, start, last)
  PROVE  Marked(e, r, ClassAtEnd(b))
<1>1. /\ e \in Seq(Nat) /\ a \in Seq(Nat) /\ b \in Seq(Nat)
      /\ Len(e) = Len(a) + Len(b)
  BY DEF Joined
<1>2. /\ \A i : Starter(a, i) => Starter(e, i)
      /\ \A i : Starter(b, i) => Starter(e, Len(a) + i)
      /\ ClassAtEnd(e) = ClassAtEnd(b)
  BY JoinedStarters
<1>3. CASE ClassAtEnd(b) \in 0 .. 1 /\ r = Len(e)
  <2>1. e # <<>>
    BY <1>1
  <2> QED BY <1>1, <1>2, <1>3, <2>1, MarkedAtStarter
<1>4. CASE /\ ~(ClassAtEnd(b) <= 1) /\ r = Len(a) + 1
           /\ Starter(b, 1) \/ Starter(b, 2)
  <2>1. Starter(e, Len(a) + 1) \/ Starter(e, Len(a) + 2)
    BY <1>2, <1>4
  <2>2. (Len(a) + 1) + 1 = Len(a) + 2
    BY <1>1
  <2> QED BY <1>2, <1>4, <2>1, <2>2 DEF Marked
<1>5. CASE ~(ClassAtEnd(b) <= 1) /\ r = start /\ Marked(a, start, last)
  BY <1>2, <1>5 DEF Marked
<1> QED BY <1>3, <1>4, <1>5

(* What is put between two parts of the text moves reorderStart behind     *)
(* itself, or leaves it where it is if there is a starter before it.       *)
LEMMA InsertMarks ==
  ASSUME NEW d, NEW a, NEW b, Joined(d, a, b),
         NEW h, NEW t, Joined(h, a, t), NEW e, Joined(e, h, b),
         t # <<>>, b # <<>>,
         NEW start, NEW last \in Nat, last > 1, Marked(d, start, last), NEW r,
         \/ ClassAtEnd(t) \in 0 .. 1 /\ r = Len(h)
         \/ /\ r = start
            /\ start > 0 => \/ Starter(d, start) /\ start <= Len(a)
                            \/ Starter(d, start + 1) /\ start + 1 <= Len(a)
  PROVE  Marked(e, r, last)
<1>1. /\ a \in Seq(Nat) /\ b \in Seq(Nat) /\ t \in Seq(Nat) /\ h \in Seq(Nat)
      /\ Len(h) = Len(a) + Len(t)
  BY DEF Joined
<1>2. /\ \A i : Starter(d, i) /\ i <= Len(a) => Starter(a, i)
      /\ ClassAtEnd(d) = ClassAtEnd(b)
  BY JoinedStarters
<1>3. /\ \A i : Starter(a, i) => Starter(h, i)
      /\ ClassAtEnd(h) = ClassAtEnd(t)
  BY JoinedStarters
<1>4. /\ \A i : Starter(h, i) => Starter(e, i)
      /\ ClassAtEnd(e) = ClassAtEnd(b)
  BY JoinedStarters
<1>5. last = ClassAtEnd(e) /\ ~(last <= 1)
  BY <1>2, <1>4 DEF Marked
<1>6. CASE ClassAtEnd(t) \in 0 .. 1 /\ r = Len(h)
  <2>1. h # <<>>
    BY <1>1
  <2>2. Marked(h, Len(h), ClassAtEnd(h))
    BY <1>1, <1>3, <1>6, <2>1, MarkedAtStarter
  <2>3. r > 0 => Starter(h, r) \/ Starter(h, r + 1)
    BY <1>6, <2>2 DEF Marked
  <2> QED BY <1>4, <1>5, <2>3 DEF Marked
<1>7. CASE /\ r = start
           /\ start > 0 => \/ Starter(d, start) /\ start <= Len(a)
                           \/ Starter(d, start + 1) /\ start + 1 <= Len(a)
  BY <1>2, <1>3, <1>4, <1>5, <1>7 DEF Marked
<1> QED BY <1>6, <1>7

-----------------------------------------------------------------------------
(* Where insert() stops: before the last character, behind the last        *)
(* boundary whose character it may pass no more.                           *)
LEMMA InsertionPointIsRight ==
  ASSUME IInv, units # <<>>, NEW cc \in Nat, NEW at, at = InsertionPoint(cc)
  PROVE  /\ at \in 0 .. Len(units) - 1 /\ IsBoundary(units, at)
         /\ at <= reorderStart \/ EndCC(units, at) <= cc
         /\ \A i \in 1 .. Len(units) - 1 :
              /\ IsBoundary(units, i)
              /\ i <= reorderStart \/ EndCC(units, i) <= cc
              => i <= at
<1> DEFINE end == PreviousStart(Len(units))
           stops == {i \in 0 .. end : IsBoundary(units, i) /\ PreviousCC(i) <= cc}
<1>1. Len(units) \in Nat /\ Len(units) > 0 /\ reorderStart \in Nat
  BY DEF IInv, NumbersInv
<1>2. end \in 0 .. Len(units) - 1
  BY <1>1 DEF PreviousStart
<1>3. 0 \in stops
  BY <1>1, <1>2 DEF IsBoundary, PreviousCC
<1>4. \E m \in stops : \A y \in stops : y <= m
  <2>1. stops \in SUBSET (0 .. end) /\ stops # {} /\ end \in Int
    BY <1>2, <1>3
  <2> HIDE DEF stops, end
  <2> QED BY <2>1, RangeHasGreatest
<1>5. at = CHOOSE m \in stops : \A y \in stops : y <= m
  BY DEF InsertionPoint
<1>6. at \in stops /\ \A y \in stops : y <= at
  <2> HIDE DEF stops
  <2> QED BY <1>4, <1>5
<1>7. \A i : PreviousStart(i) = PreviousIndex(units, i)
  BY Zenon DEF PreviousStart, PreviousIndex
<1>8. \A i : PreviousCC(i) = IF reorderStart >= i THEN 0 ELSE EndCC(units, i)
  BY <1>7, Zenon DEF PreviousCC, EndCC, CodePointCC
<1>9. at \in 0 .. Len(units) - 1 /\ IsBoundary(units, at)
  BY <1>1, <1>2, <1>6
<1>10. at <= reorderStart \/ EndCC(units, at) <= cc
  BY <1>1, <1>6, <1>8, <1>9
<1>11. ASSUME NEW i \in 1 .. Len(units) - 1, IsBoundary(units, i),
              i <= reorderStart \/ EndCC(units, i) <= cc
       PROVE  i <= at
  <2>1. i <= end
    <3>1. CASE Len(units) >= 2 /\ StartsPair(units, Len(units) - 2)
      <4>1. end = Len(units) - 2
        BY <3>1 DEF PreviousStart
      <4>2. i # Len(units) - 1
        <5> SUFFICES ASSUME i = Len(units) - 1 PROVE FALSE
          OBVIOUS
        <5>1. i > 0 /\ i - 1 = Len(units) - 2
          BY <1>1
        <5> QED BY <1>11, <3>1, <5>1 DEF IsBoundary
      <4> QED BY <1>1, <4>1, <4>2
    <3>2. CASE ~(Len(units) >= 2 /\ StartsPair(units, Len(units) - 2))
      <4>1. end = Len(units) - 1
        BY <3>2, Zenon DEF PreviousStart
      <4> QED BY <1>1, <4>1
    <3> QED BY <3>1, <3>2
  <2>2. PreviousCC(i) <= cc
    BY <1>1, <1>8, <1>11
  <2>3. i \in stops
    BY <1>1, <1>2, <1>11, <2>1, <2>2
  <2> QED BY <1>6, <2>3
<1> QED BY <1>9, <1>10, <1>11

(* What insert() makes of a text: the parts before and behind the place it *)
(* has found, and the character between them.                              *)
InsertedAt(e, d, at, t) ==
  \E a, b, h : /\ Joined(d, a, b) /\ Joined(h, a, t) /\ Joined(e, h, b)
               /\ Len(a) = at /\ Len(h) = at + Len(t) /\ b # <<>>

(* insert() puts the character between two parts of the text.              *)
LEMMA InsertShape ==
  ASSUME IInv, IsWellFormed(units), units # <<>>,
         NEW c \in 0 .. MaxCodePoint, ~IsSurrogate(c), NEW cc \in Nat,
         Insert(c, cc)
  PROVE  /\ InsertedAt(units', units, InsertionPoint(cc), CodeUnits(c))
         /\ IsWellFormed(units')
<1> DEFINE at == InsertionPoint(cc)
           t == CodeUnits(c)
           a == SubSeq(units, 1, at)
           b == SubSeq(units, at + 1, Len(units))
           h == a \o t
<1>1. /\ at \in 0 .. Len(units) - 1 /\ IsBoundary(units, at)
      /\ units \in Seq(Nat) /\ Len(units) \in Nat /\ at \in 0 .. Len(units)
  <2>1. units \in Seq(Nat) /\ Len(units) \in Nat
    BY DEF IInv, NumbersInv
  <2>2. at \in 0 .. Len(units) - 1 /\ IsBoundary(units, at)
    BY InsertionPointIsRight
  <2> HIDE DEF at
  <2> QED BY <2>1, <2>2
<1>2. t \in Seq(Nat) /\ IsWellFormed(t) /\ t # <<>>
  BY CharacterUnits
<1>3. units' = h \o b
  BY DEF Insert
<1> HIDE DEF at, t
<1>4. Joined(units, a, b) /\ Len(a) = at /\ Len(b) = Len(units) - at
  BY <1>1, SplitAtBoundary
<1>5. IsWellFormed(a) /\ IsWellFormed(b)
  <2> HIDE DEF a, b
  <2> QED BY <1>4, JoinedWellFormed
<1>6. a \in Seq(Nat) /\ b \in Seq(Nat) /\ b # <<>>
  <2>1. a \in Seq(Nat) /\ b \in Seq(Nat)
    BY <1>4 DEF Joined
  <2>2. Len(b) > 0
    BY <1>1, <1>4
  <2> HIDE DEF a, b
  <2> QED BY <2>1, <2>2
<1>7. Joined(h, a, t)
  <2> HIDE DEF a
  <2> QED BY <1>2, <1>5, <1>6, WellFormedConcat
<1> HIDE DEF a, b, h
<1>8. IsWellFormed(h)
  BY <1>2, <1>5, <1>7, JoinedWellFormed
<1>9. h \in Seq(Nat) /\ Len(h) = Len(a) + Len(t)
  BY <1>7 DEF Joined
<1>10. Joined(units', h, b)
  BY <1>3, <1>6, <1>8, <1>9, WellFormedConcat
<1>11. IsWellFormed(units')
  BY <1>5, <1>8, <1>10, JoinedWellFormed
<1> QED BY <1>4, <1>6, <1>7, <1>9, <1>10, <1>11 DEF InsertedAt, at, t

(* insert() leaves lastCC and reorderStart right.                          *)
LEMMA InsertKeepsMarks ==
  ASSUME IInv, IsWellFormed(units), Marked(units, reorderStart, lastCC),
         NEW c \in 0 .. MaxCodePoint, ~IsSurrogate(c),
         ~(lastCC <= CC(c) \/ CC(c) = 0), Insert(c, CC(c))
  PROVE  Marked(units', reorderStart', lastCC')
<1> DEFINE cc == CC(c)
           at == InsertionPoint(cc)
           t == CodeUnits(c)
<1>1. /\ cc \in Nat /\ lastCC \in Nat /\ lastCC > 1 /\ lastCC > cc /\ cc >= 1
      /\ units # <<>> /\ reorderStart \in Nat /\ Len(units) \in Nat
  BY BufferConstants DEF IInv, NumbersInv
<1>2. /\ at \in 0 .. Len(units) - 1
      /\ \A i \in 1 .. Len(units) - 1 :
           IsBoundary(units, i) /\ EndCC(units, i) <= cc => i <= at
  BY <1>1, InsertionPointIsRight
<1>3. PICK a, b, h : /\ Joined(units, a, b) /\ Joined(h, a, t) /\ Joined(units', h, b)
                     /\ Len(a) = at /\ Len(h) = at + Len(t) /\ b # <<>>
  BY <1>1, InsertShape DEF InsertedAt
<1>4. t # <<>> /\ Len(t) = U16_LENGTH(c) /\ ClassAtEnd(t) = cc
  BY CharacterUnits DEF ClassAtEnd, EndCC, CodePointCC
<1>5. /\ lastCC' = lastCC
      /\ reorderStart' = IF cc <= 1 THEN at + U16_LENGTH(c) ELSE reorderStart
  BY DEF Insert
<1>6. ASSUME NEW i, Starter(units, i) PROVE i <= at
  <2>1. i \in 1 .. Len(units) /\ IsBoundary(units, i) /\ EndCC(units, i) \in 0 .. 1
    BY <1>6 DEF Starter
  <2>2. EndCC(units, Len(units)) = lastCC
    BY <1>1 DEF Marked, ClassAtEnd
  <2>3. i # Len(units)
    BY <1>1, <2>1, <2>2
  <2> QED BY <1>1, <1>2, <2>1, <2>3
<1> HIDE DEF cc, at, t
<1>7. \/ ClassAtEnd(t) \in 0 .. 1 /\ reorderStart' = Len(h)
      \/ /\ reorderStart' = reorderStart
         /\ reorderStart > 0 =>
              \/ Starter(units, reorderStart) /\ reorderStart <= Len(a)
              \/ Starter(units, reorderStart + 1) /\ reorderStart + 1 <= Len(a)
  <2>1. CASE cc <= 1
    BY <1>1, <1>3, <1>4, <1>5, <2>1
  <2>2. CASE ~(cc <= 1)
    BY <1>3, <1>5, <1>6, <2>2 DEF Marked
  <2> QED BY <2>1, <2>2
<1> QED BY <1>1, <1>3, <1>4, <1>5, <1>7, InsertMarks

-----------------------------------------------------------------------------
(* What is pushed behind a well-formed text makes a well-formed one.       *)
LEMMA PushShape ==
  ASSUME units \in Seq(Nat), IsWellFormed(units),
         NEW t \in Seq(Nat), IsWellFormed(t), NEW cc, Push(t, cc)
  PROVE  Joined(units', units, t) /\ IsWellFormed(units') /\ lastCC' = cc
<1>1. units' = units \o t /\ lastCC' = cc
  BY DEF Push
<1>2. Joined(units', units, t)
  BY <1>1, WellFormedConcat
<1> QED BY <1>1, <1>2, JoinedWellFormed

(* appendBMP() and appendSupplementary().                                  *)
LEMMA PlaceCodePointMarks ==
  ASSUME IInv, IsWellFormed(units),
         ~failed /\ ~atBoundary => Marked(units, reorderStart, lastCC),
         NEW c \in 0 .. MaxCodePoint, ~IsSurrogate(c),
         atBoundary => CC(c) = 0, PlaceCodePoint(c)
  PROVE  /\ IsWellFormed(units')
         /\ ~failed' => Marked(units', reorderStart', lastCC')
<1> DEFINE cc == CC(c)
           t == CodeUnits(c)
<1>1. /\ cc \in Nat /\ lastCC \in Nat /\ (lastCC # 0 => units # <<>>)
      /\ units \in Seq(Nat)
  BY BufferConstants DEF IInv, NumbersInv
<1>2. /\ t \in Seq(Nat) /\ IsWellFormed(t) /\ t # <<>> /\ ClassAtEnd(t) = cc
  BY CharacterUnits DEF ClassAtEnd, EndCC, CodePointCC
<1>3. CASE OutOfMemory(LacksRoomFor(c))
  BY <1>3 DEF OutOfMemory
<1>4. CASE Place(c, cc) /\ UNCHANGED failed
  <2>1. CASE lastCC <= cc \/ cc = 0
    <3>1. /\ Push(t, cc)
          /\ reorderStart' = IF cc <= 1 THEN Len(units') ELSE reorderStart
      BY <1>4, <2>1 DEF Place
    <3> HIDE DEF cc, t
    <3>2. Joined(units', units, t) /\ IsWellFormed(units') /\ lastCC' = cc
      BY <1>1, <1>2, <3>1, PushShape
    <3>3. ASSUME ~failed' PROVE Marked(units', reorderStart', lastCC')
      <4>1. CASE cc <= 1
        BY <1>1, <1>2, <3>1, <3>2, <4>1, PushMarks
      <4>2. CASE ~(cc <= 1)
        <5>1. Marked(units, reorderStart, lastCC)
          BY <1>1, <1>4, <3>3, <4>2 DEF cc
        <5> QED BY <1>2, <3>1, <3>2, <4>2, <5>1, PushMarks
      <4> QED BY <4>1, <4>2
    <3> QED BY <3>2, <3>3
  <2>2. CASE ~(lastCC <= cc \/ cc = 0)
    <3>1. Insert(c, cc) /\ units # <<>>
      BY <1>1, <1>4, <2>2 DEF Place
    <3>2. IsWellFormed(units')
      BY <1>1, <3>1, InsertShape
    <3>3. ASSUME ~failed' PROVE Marked(units', reorderStart', lastCC')
      <4>1. Marked(units, reorderStart, lastCC)
        BY <1>4, <2>2, <3>3
      <4> QED BY <2>2, <3>1, <4>1, InsertKeepsMarks
    <3> QED BY <3>2, <3>3
  <2> QED BY <2>1, <2>2
<1> QED BY <1>3, <1>4 DEF PlaceCodePoint

(* A text, and the characters at its ends.                                 *)
LEMMA TextShape ==
  ASSUME WholeCharacters, NEW s \in Texts, s # <<>>
  PROVE  /\ s \in Seq(Nat) /\ IsWellFormed(s)
         /\ TrailCC(s) = ClassAtEnd(s) /\ TrailCC(s) \in Nat
         /\ LeadCC(s) \in Nat
         /\ LeadCC(s) <= 1 => Starter(s, 1) \/ Starter(s, 2)
<1> DEFINE c == CodePointAt(s, 0)
<1>1. /\ s \in Seq(CodeUnit) /\ s \in Seq(Nat) /\ Len(s) \in Nat /\ Len(s) > 0
      /\ LeadCC(s) \in Nat /\ TrailCC(s) \in Nat
  BY TextType
<1>2. IsWellFormed(s)
  BY DEF WholeCharacters
<1>3. TrailCC(s) = ClassAtEnd(s)
  BY Zenon DEF TrailCC, ClassAtEnd, EndCC, CodePointCC, PreviousIndex
<1>4. ASSUME LeadCC(s) <= 1 PROVE Starter(s, 1) \/ Starter(s, 2)
  <2>1. /\ NextIndex(s, 0) \in 1 .. Len(s) /\ NextIndex(s, 0) \in 1 .. 2
        /\ IsBoundary(s, NextIndex(s, 0))
    <3>1. 0 \in 0 .. Len(s) - 1
      BY <1>1
    <3>2. /\ NextIndex(s, 0) \in 0 + 1 .. Len(s)
          /\ IsBoundary(s, NextIndex(s, 0))
      BY <1>1, <3>1, NextIndexIsBoundary, EndsAreBoundaries
    <3> QED BY <3>2 DEF NextIndex
  <2>2. PreviousIndex(s, NextIndex(s, 0)) = 0
    BY DEF NextIndex, PreviousIndex
  <2>3. EndCC(s, NextIndex(s, 0)) = LeadCC(s)
    BY <2>2 DEF EndCC, LeadCC
  <2>4. Starter(s, NextIndex(s, 0))
    BY <1>1, <1>4, <2>1, <2>3 DEF Starter
  <2> QED BY <2>1, <2>4 DEF NextIndex
<1> QED BY <1>1, <1>2, <1>3, <1>4

(* A text that is copied behind the last character.                        *)
LEMMA AppendInOrderMarks ==
  ASSUME WholeCharacters, IInv, SuffixInv, NEW s \in Texts, AppendInOrder(s)
  PROVE  SuffixInv'
<1>1. /\ rest = <<>> /\ ~failed /\ s # <<>> /\ (atBoundary => LeadCC(s) = 0)
      /\ rest' = rest /\ atBoundary' = FALSE
  BY DEF AppendInOrder, Idle, MayContinueWith
<1>2. /\ s \in Seq(Nat) /\ IsWellFormed(s) /\ TrailCC(s) = ClassAtEnd(s)
      /\ TrailCC(s) \in Nat /\ LeadCC(s) \in Nat
      /\ LeadCC(s) <= 1 => Starter(s, 1) \/ Starter(s, 2)
  BY <1>1, TextShape
<1>3. units \in Seq(Nat) /\ IsWellFormed(units) /\ IsWellFormed(rest)
  BY DEF IInv, NumbersInv, SuffixInv, TextInv
<1>4. CASE failed' /\ units' = units
  BY <1>1, <1>3, <1>4 DEF SuffixInv, TextInv
<1>5. CASE /\ Push(s, TrailCC(s))
           /\ reorderStart' =
                IF TrailCC(s) <= 1 THEN Len(units) + Len(s)
                ELSE IF LeadCC(s) <= 1 THEN Len(units) + 1 ELSE reorderStart
  <2>1. /\ Joined(units', units, s) /\ IsWellFormed(units')
        /\ lastCC' = ClassAtEnd(s)
    BY <1>2, <1>3, <1>5, PushShape
  <2>2. Len(units') = Len(units) + Len(s)
    BY <2>1 DEF Joined
  <2>3. \/ ClassAtEnd(s) \in 0 .. 1 /\ reorderStart' = Len(units')
        \/ /\ ~(ClassAtEnd(s) <= 1) /\ reorderStart' = Len(units) + 1
           /\ Starter(s, 1) \/ Starter(s, 2)
        \/ /\ ~(ClassAtEnd(s) <= 1) /\ reorderStart' = reorderStart
           /\ Marked(units, reorderStart, lastCC)
    <3>1. CASE TrailCC(s) <= 1
      BY <1>2, <1>5, <2>2, <3>1
    <3>2. CASE ~(TrailCC(s) <= 1) /\ LeadCC(s) <= 1
      BY <1>2, <1>5, <3>2
    <3>3. CASE ~(TrailCC(s) <= 1) /\ ~(LeadCC(s) <= 1)
      BY <1>1, <1>2, <1>5, <3>3 DEF SuffixInv
    <3> QED BY <3>1, <3>2, <3>3
  <2>4. Marked(units', reorderStart', lastCC')
    BY <1>1, <2>1, <2>3, PushMarks
  <2> QED BY <1>1, <1>3, <2>1, <2>4 DEF SuffixInv, TextInv
<1> QED BY <1>4, <1>5 DEF AppendInOrder, OutOfMemory

(* One of which the first character is inserted, and the others are left   *)
(* to the loop.                                                            *)
LEMMA AppendReorderedMarks ==
  ASSUME WholeCharacters, IInv, SuffixInv, NEW s \in Texts, AppendReordered(s)
  PROVE  SuffixInv'
<1> DEFINE c == CodePointAt(s, 0)
<1>1. /\ rest = <<>> /\ ~failed /\ s # <<>> /\ (atBoundary => LeadCC(s) = 0)
      /\ ~(lastCC <= LeadCC(s) \/ LeadCC(s) = 0) /\ atBoundary' = atBoundary
  BY DEF AppendReordered, Idle, MayContinueWith
<1>2. s \in Seq(CodeUnit) /\ s \in Seq(Nat) /\ IsWellFormed(s)
  BY <1>1, TextType DEF WholeCharacters
<1>3. /\ c \in 0 .. MaxCodePoint /\ ~IsSurrogate(c)
      /\ U16_LENGTH(c) \in 0 .. Len(s) /\ IsBoundary(s, U16_LENGTH(c))
  BY <1>1, <1>2, FirstCharacter
<1>4. LeadCC(s) = CC(c) /\ CC(c) \in Nat
  BY <1>3, BufferConstants DEF LeadCC, CodePointCC
<1> HIDE DEF c
<1>5. ~atBoundary /\ IsWellFormed(units) /\ Marked(units, reorderStart, lastCC)
  BY <1>1 DEF SuffixInv, TextInv
<1>6. CASE failed' /\ units' = units /\ rest' = rest
  BY <1>1, <1>5, <1>6 DEF SuffixInv, TextInv
<1>7. CASE /\ Insert(c, LeadCC(s))
           /\ rest' = SubSeq(s, U16_LENGTH(c) + 1, Len(s))
  <2>1. units # <<>>
    BY <1>1, <1>4 DEF IInv, NumbersInv
  <2>2. IsWellFormed(units')
    BY <1>3, <1>4, <1>5, <1>7, <2>1, InsertShape
  <2>3. Marked(units', reorderStart', lastCC')
    BY <1>1, <1>3, <1>4, <1>5, <1>7, InsertKeepsMarks
  <2>4. IsWellFormed(rest')
    <3>1. Joined(s, SubSeq(s, 1, U16_LENGTH(c)), rest')
      BY <1>2, <1>3, <1>7, SplitAtBoundary
    <3> QED BY <1>2, <3>1, JoinedWellFormed
  <2> QED BY <1>1, <1>5, <2>2, <2>3, <2>4 DEF SuffixInv, TextInv
<1> QED BY <1>6, <1>7 DEF AppendReordered, OutOfMemory, c

(* The next character of the loop.                                         *)
LEMMA AppendNextMarks ==
  ASSUME IInv, SuffixInv, AppendNext
  PROVE  SuffixInv'
<1> DEFINE c == CodePointAt(rest, 0)
<1>1. /\ rest # <<>> /\ PlaceCodePoint(c) /\ atBoundary' = atBoundary
      /\ rest' = SubSeq(rest, U16_LENGTH(c) + 1, Len(rest))
  BY DEF AppendNext
<1>2. /\ rest \in Seq(CodeUnit) /\ rest \in Seq(Nat) /\ IsWellFormed(rest)
      /\ ~atBoundary /\ IsWellFormed(units)
      /\ ~failed /\ ~atBoundary => Marked(units, reorderStart, lastCC)
  BY <1>1 DEF IInv, NumbersInv, SuffixInv, TextInv
<1>3. /\ c \in 0 .. MaxCodePoint /\ ~IsSurrogate(c)
      /\ U16_LENGTH(c) \in 0 .. Len(rest) /\ IsBoundary(rest, U16_LENGTH(c))
  BY <1>1, <1>2, FirstCharacter
<1> HIDE DEF c
<1>4. /\ IsWellFormed(units')
      /\ ~failed' => Marked(units', reorderStart', lastCC')
  BY <1>1, <1>2, <1>3, PlaceCodePointMarks
<1>5. IsWellFormed(rest')
  <2>1. Joined(rest, SubSeq(rest, 1, U16_LENGTH(c)), rest')
    BY <1>1, <1>2, <1>3, SplitAtBoundary
  <2> QED BY <1>2, <2>1, JoinedWellFormed
<1> QED BY <1>1, <1>2, <1>4, <1>5 DEF SuffixInv, TextInv

(* What appendZeroCC() copies ends with a starter, or before a boundary.   *)
LEMMA AppendZeroCCMarks ==
  ASSUME WholeCharacters, IInv, SuffixInv, NEW s \in Texts, AppendZeroCC(s)
  PROVE  SuffixInv'
<1>1. /\ rest = <<>> /\ s # <<>> /\ rest' = rest
  BY DEF AppendZeroCC, Idle
<1>2. /\ s \in Seq(Nat) /\ IsWellFormed(s) /\ TrailCC(s) = ClassAtEnd(s)
  BY <1>1, TextShape
<1>3. units \in Seq(Nat) /\ IsWellFormed(units) /\ IsWellFormed(rest)
  BY DEF IInv, NumbersInv, SuffixInv, TextInv
<1>4. CASE failed' /\ units' = units
  BY <1>1, <1>3, <1>4 DEF SuffixInv, TextInv
<1>5. CASE /\ Push(s, 0) /\ reorderStart' = Len(units')
           /\ atBoundary' = (TrailCC(s) # 0)
  <2>1. Joined(units', units, s) /\ IsWellFormed(units') /\ lastCC' = 0
    BY <1>2, <1>3, <1>5, PushShape
  <2>2. ASSUME ~atBoundary' PROVE Marked(units', reorderStart', lastCC')
    <3>1. ClassAtEnd(s) = 0
      BY <1>2, <1>5, <2>2
    <3> QED BY <1>1, <1>5, <2>1, <3>1, PushMarks
  <2> QED BY <1>1, <1>3, <2>1, <2>2 DEF SuffixInv, TextInv
<1> QED BY <1>4, <1>5 DEF AppendZeroCC, OutOfMemory

(* A text that is cut is one before a boundary.                            *)
LEMMA ShortenMarks ==
  ASSUME IInv, SuffixInv, NEW length \in 0 .. Len(units), NEW remaining,
         IsBoundary(units, length), Shorten(length, remaining)
  PROVE  SuffixInv'
<1>1. /\ rest = <<>> /\ rest' = rest /\ atBoundary'
      /\ units' = SubSeq(units, 1, length)
  BY DEF Shorten, Idle
<1>2. units \in Seq(Nat) /\ IsWellFormed(units) /\ IsWellFormed(rest)
  BY DEF IInv, NumbersInv, SuffixInv, TextInv
<1>3. Joined(units, units', SubSeq(units, length + 1, Len(units)))
  BY <1>1, <1>2, SplitAtBoundary
<1>4. IsWellFormed(units')
  BY <1>2, <1>3, JoinedWellFormed
<1> QED BY <1>1, <1>2, <1>4 DEF SuffixInv, TextInv

(* init() looks for the last starter.                                      *)
LEMMA InitMarks ==
  ASSUME WholeCharacters, Init
  PROVE  SuffixInv
<1> DEFINE last == {i \in 0 .. Len(units) :
                      /\ IsBoundary(units, i)
                      /\ i > 0 => CodePointCC(units, PreviousStart(i)) <= 1}
<1>1. /\ units \in Texts \cup {<<>>}
      /\ reorderStart = CHOOSE i \in last : \A x \in last : x <= i
      /\ lastCC = IF units = <<>> THEN 0 ELSE TrailCC(units)
      /\ rest = <<>> /\ atBoundary = FALSE
  BY DEF Init
<1>2. IsWellFormed(<<>>)
  BY DEF IsWellFormed
<1>3. /\ units \in Seq(Nat) /\ IsWellFormed(units)
      /\ units # <<>> => TrailCC(units) = ClassAtEnd(units)
  <2>1. CASE units = <<>>
    <3>1. units \in Seq(Nat)
      BY <2>1
    <3> QED BY <1>2, <2>1, <3>1, Zenon
  <2>2. CASE units # <<>>
    <3>1. units \in Texts
      BY <1>1, <2>2
    <3> QED BY <2>2, <3>1, TextShape, Zenon
  <2> QED BY <2>1, <2>2
<1>4. Len(units) \in Nat
  BY <1>3
<1>5. \A i : CodePointCC(units, PreviousStart(i)) = EndCC(units, i)
  BY Zenon DEF PreviousStart, PreviousIndex, EndCC
<1>6. 0 \in last
  BY <1>4 DEF IsBoundary
<1>7. \E i \in last : \A x \in last : x <= i
  <2>1. last \in SUBSET (0 .. Len(units)) /\ last # {} /\ Len(units) \in Int
    BY <1>4, <1>6
  <2> HIDE DEF last
  <2> QED BY <2>1, RangeHasGreatest
<1>8. reorderStart \in last /\ \A x \in last : x <= reorderStart
  <2> HIDE DEF last
  <2> QED BY <1>1, <1>7
<1>9. lastCC = ClassAtEnd(units)
  BY <1>1, <1>3 DEF ClassAtEnd
<1>10. ASSUME reorderStart > 0 PROVE Starter(units, reorderStart)
  <2>1. /\ reorderStart \in 1 .. Len(units) /\ IsBoundary(units, reorderStart)
        /\ EndCC(units, reorderStart) <= 1
    BY <1>4, <1>5, <1>8, <1>10
  <2>2. EndCC(units, reorderStart) \in Nat
    <3>1. units \in Seq(0 .. FirstSupplementary - 1)
      <4>1. units # <<>>
        BY <1>4, <2>1
      <4> QED BY <1>1, <4>1, BufferConstants
    <3>2. PreviousIndex(units, reorderStart) \in 0 .. Len(units) - 1
      BY <1>4, <2>1 DEF PreviousIndex
    <3>3. CodePointAt(units, PreviousIndex(units, reorderStart)) \in 0 .. MaxCodePoint
      BY <3>1, <3>2, CodePointAtRange
    <3> QED BY <3>3, BufferConstants DEF EndCC, CodePointCC
  <2> QED BY <2>1, <2>2 DEF Starter
<1>11. ASSUME lastCC <= 1 PROVE reorderStart = Len(units)
  <2>1. units # <<>> => EndCC(units, Len(units)) <= 1
    BY <1>9, <1>11 DEF ClassAtEnd
  <2>2. Len(units) > 0 => units # <<>>
    OBVIOUS
  <2>3. IsBoundary(units, Len(units))
    BY <1>3, EndsAreBoundaries
  <2>4. Len(units) \in last
    BY <1>4, <1>5, <2>1, <2>2, <2>3
  <2> QED BY <1>4, <1>8, <2>4
<1> QED BY <1>1, <1>2, <1>3, <1>9, <1>10, <1>11 DEF SuffixInv, TextInv, Marked

(* Every step keeps the invariant.                                         *)
LEMMA StepMarks ==
  ASSUME WholeCharacters, IInv, SuffixInv, [Next]_vars
  PROVE  SuffixInv'
<1>1. units \in Seq(Nat) /\ Len(units) \in Nat
  BY DEF IInv, NumbersInv
<1>2. ASSUME NEW c \in CodePoint, AppendCodePoint(c) PROVE SuffixInv'
  <2>1. c \in 0 .. MaxCodePoint /\ ~IsSurrogate(c)
    BY BufferConstants DEF WholeCharacters
  <2>2. /\ rest = <<>> /\ rest' = rest /\ (atBoundary => CC(c) = 0)
        /\ PlaceCodePoint(c)
    BY <1>2 DEF AppendCodePoint, Idle, MayContinueWith
  <2>3. /\ IsWellFormed(units')
        /\ ~failed' => Marked(units', reorderStart', lastCC')
    BY <2>1, <2>2, PlaceCodePointMarks DEF SuffixInv, TextInv
  <2> QED BY <2>2, <2>3 DEF SuffixInv, TextInv
<1>3. ASSUME NEW s \in Texts,
             AppendInOrder(s) \/ AppendReordered(s) \/ AppendZeroCC(s)
      PROVE  SuffixInv'
  BY <1>3, AppendInOrderMarks, AppendReorderedMarks, AppendZeroCCMarks
<1>4. CASE AppendNext
  BY <1>4, AppendNextMarks
<1>5. ASSUME NEW length \in 0 .. Len(units), NEW remaining,
             length = 0 \/ IsBoundary(units, length), Shorten(length, remaining)
      PROVE  SuffixInv'
  <2>1. IsBoundary(units, 0)
    BY <1>1, EndsAreBoundaries
  <2> QED BY <1>5, <2>1, ShortenMarks
<1>6. 0 \in 0 .. Len(units)
  BY <1>1
<1>7. CASE Remove
  BY <1>5, <1>6, <1>7 DEF Remove
<1>8. ASSUME NEW suffixLength \in 0 .. MaxLength, RemoveSuffix(suffixLength)
      PROVE  SuffixInv'
  <2>1. suffixLength < Len(units) => Len(units) - suffixLength \in 0 .. Len(units)
    BY <1>1, BufferConstants
  <2> QED BY <1>5, <1>6, <1>8, <2>1 DEF RemoveSuffix
<1>9. ASSUME NEW newLimit \in 0 .. Len(units), SetReorderingLimit(newLimit)
      PROVE  SuffixInv'
  BY <1>5, <1>9 DEF SetReorderingLimit
<1>10. CASE UNCHANGED vars
  BY <1>10 DEF vars, SuffixInv, TextInv
<1> QED BY <1>2, <1>3, <1>4, <1>7, <1>8, <1>9, <1>10 DEF Next

(* lastCC and reorderStart describe the text between the operations: the   *)
(* one is the class of its last character, and the other stands behind a   *)
(* starter or inside it, at the end if the last character is one.          *)
THEOREM BufferKnowsItsSuffix ==
  ASSUME WholeCharacters
  PROVE  Spec => []SuffixIsReorderable
<1>1. Init => IInv /\ SuffixInv
  BY InitInv, InitMarks
<1>2. IInv /\ SuffixInv /\ [Next]_vars => (IInv /\ SuffixInv)'
  BY StepInv, StepMarks
<1>3. ASSUME IInv, SuffixInv PROVE SuffixIsReorderable
  <2> SUFFICES ASSUME ~failed, ~atBoundary PROVE SuffixIsReorderable
    BY DEF SuffixIsReorderable
  <2>1. Marked(units, reorderStart, lastCC)
    BY <1>3 DEF SuffixInv
  <2>2. units # <<>> => TrailCC(units) = ClassAtEnd(units)
    BY Zenon DEF TrailCC, ClassAtEnd, EndCC, CodePointCC, PreviousIndex
  <2>3. \A i : CodePointCC(units, PreviousStart(i)) = EndCC(units, i)
    BY Zenon DEF PreviousStart, PreviousIndex, EndCC
  <2>4. lastCC = IF units = <<>> THEN 0 ELSE TrailCC(units)
    BY <2>1, <2>2 DEF Marked, ClassAtEnd
  <2>5. reorderStart > 0 =>
          \E i \in {reorderStart, reorderStart + 1} :
            IsBoundary(units, i) /\ CodePointCC(units, PreviousStart(i)) <= 1
    BY <2>1, <2>3 DEF Marked, Starter
  <2> QED BY <2>1, <2>4, <2>5 DEF Marked, SuffixIsReorderable
<1> QED BY <1>1, <1>2, <1>3, PTL DEF Spec

-----------------------------------------------------------------------------
(* The canonical order of a text of code points.  CanonicalOrder sorts, by *)
(* the number of characters that go before each; what a single mark does   *)
(* to a text that is in order is found with it: the mark goes before all   *)
(* that are of a higher class at the end, and nothing else moves.          *)
Numbered == 0 .. MaxCodePoint

(* The class of each character is a number.                                *)
LEMMA ClassType ==
  ASSUME NEW s \in Seq(Numbered), NEW x \in 1 .. Len(s)
  PROVE  CC(s[x]) \in Nat
<1>1. s[x] \in Numbered
  OBVIOUS
<1> QED BY <1>1, BufferConstants DEF Numbered

(* The cardinality that the abstract module knows is the one known here.   *)
LEMMA SameCardinality ==
  ASSUME NEW S
  PROVE  Abstract!Cardinality(S) = Cardinality(S)
BY Zenon DEF Abstract!Cardinality, Cardinality

(* How many characters of class 0 there are up to a place.                 *)
LEMMA BlockCounts ==
  ASSUME NEW s, NEW x \in Nat
  PROVE  /\ Abstract!Block(s, x) \in Nat
         /\ \A y \in 0 .. x :
              /\ Abstract!Block(s, y) <= Abstract!Block(s, x)
              /\ Abstract!Block(s, y) = Abstract!Block(s, x) <=>
                   \A z \in y + 1 .. x : CC(s[z]) # 0
<1> DEFINE B(y) == {z \in 1 .. y : CC(s[z]) = 0}
<1>1. \A y : Abstract!Block(s, y) = Cardinality(B(y))
  BY SameCardinality, Zenon DEF Abstract!Block
<1>2. ASSUME NEW y \in Nat PROVE IsFiniteSet(B(y)) /\ Cardinality(B(y)) \in Nat
  <2>1. IsFiniteSet(1 .. y)
    BY FS_Interval
  <2>2. IsFiniteSet(B(y))
    BY <2>1, FS_Subset
  <2> QED BY <2>2, FS_CardinalityType
<1>3. ASSUME NEW y \in 0 .. x
      PROVE  /\ Cardinality(B(y)) <= Cardinality(B(x))
             /\ Cardinality(B(y)) = Cardinality(B(x)) <=>
                  \A z \in y + 1 .. x : CC(s[z]) # 0
  <2>1. B(y) \subseteq B(x)
    OBVIOUS
  <2>2. /\ Cardinality(B(y)) <= Cardinality(B(x))
        /\ Cardinality(B(y)) = Cardinality(B(x)) => B(y) = B(x)
    BY <1>2, <2>1, FS_Subset
  <2>3. B(y) = B(x) <=> \A z \in y + 1 .. x : CC(s[z]) # 0
    OBVIOUS
  <2> HIDE DEF B
  <2> QED BY <2>2, <2>3
<1> QED BY <1>1, <1>2, <1>3

(* Of two places one at most goes before the other.                        *)
LEMMA PrecedesOnce ==
  ASSUME NEW s \in Seq(Numbered), NEW x \in 1 .. Len(s), NEW y \in 1 .. Len(s),
         Abstract!Precedes(s, x, y)
  PROVE  ~Abstract!Precedes(s, y, x)
<1>1. CC(s[x]) \in Nat /\ CC(s[y]) \in Nat
  BY ClassType
<1>2. Abstract!Block(s, x) \in Nat /\ Abstract!Block(s, y) \in Nat
  BY BlockCounts
<1>3. x \in Nat /\ y \in Nat
  OBVIOUS
<1> QED BY <1>1, <1>2, <1>3, SMT DEF Abstract!Precedes

(* In a text that is in order the classes do not fall between two          *)
(* characters of class 0.                                                  *)
LEMMA ClassesRise ==
  ASSUME NEW s \in Seq(Numbered), NEW n \in 0 .. Len(s),
         \A x \in 1 .. n - 1 : CC(s[x + 1]) = 0 \/ CC(s[x]) <= CC(s[x + 1]),
         NEW i \in 1 .. n, NEW j \in i .. n,
         \A z \in i + 1 .. j : CC(s[z]) # 0
  PROVE  CC(s[i]) <= CC(s[j])
<1> DEFINE bad == {d \in 0 .. j - i : ~(CC(s[i]) <= CC(s[i + d]))}
<1>1. Len(s) \in Nat /\ i \in Nat /\ j \in Nat /\ n \in Nat
  OBVIOUS
<1>2. \A x \in 1 .. n : CC(s[x]) \in Nat
  BY ClassType
<1>3. bad \in SUBSET Nat
  BY <1>1
<1>4. bad = {}
  <2> SUFFICES ASSUME bad # {} PROVE FALSE
    OBVIOUS
  <2>1. PICK d \in bad : \A y \in bad : d <= y
    <3> HIDE DEF bad
    <3> QED BY <1>3, NatHasLeast
  <2>2. d \in 0 .. j - i /\ ~(CC(s[i]) <= CC(s[i + d]))
    BY <2>1
  <2>3. d # 0
    <3> SUFFICES ASSUME d = 0 PROVE FALSE
      OBVIOUS
    <3>1. i + d = i
      BY <1>1
    <3> QED BY <1>2, <2>2, <3>1
  <2>4. d - 1 \in 0 .. j - i /\ ~(d <= d - 1)
    BY <1>1, <2>2, <2>3
  <2>5. CC(s[i]) <= CC(s[i + (d - 1)])
    BY <2>1, <2>4
  <2>6. /\ i + (d - 1) \in 1 .. n - 1 /\ (i + (d - 1)) + 1 = i + d
        /\ i + d \in i + 1 .. j /\ i + d \in 1 .. n
    BY <1>1, <2>2, <2>3
  <2>7. CC(s[i + d]) # 0
    BY <2>6
  <2>8. CC(s[i + (d - 1)]) <= CC(s[i + d])
    BY <2>6, <2>7
  <2>9. CC(s[i + (d - 1)]) \in Nat /\ CC(s[i + d]) \in Nat /\ CC(s[i]) \in Nat
    BY <1>1, <1>2, <2>6
  <2> HIDE DEF bad
  <2> QED BY <2>2, <2>5, <2>8, <2>9
<1>5. j - i \in 0 .. j - i /\ i + (j - i) = j
  BY <1>1
<1> QED BY <1>4, <1>5

(* Two texts, one behind the other, are in order if both are and the       *)
(* second may follow the first.                                            *)
MayFollow(p, q) ==
  \/ p = <<>> \/ q = <<>>
  \/ CC(q[1]) = 0 \/ CC(p[Len(p)]) <= CC(q[1])

(* Then their concatenation is in order.                                   *)
LEMMA ConcatCanonical ==
  ASSUME NEW p \in Seq(Numbered), NEW q \in Seq(Numbered), NEW e, e = p \o q
  PROVE  /\ e \in Seq(Numbered) /\ Len(e) = Len(p) + Len(q)
         /\ Abstract!IsCanonical(e) <=>
              /\ Abstract!IsCanonical(p) /\ Abstract!IsCanonical(q)
              /\ MayFollow(p, q)
<1> DEFINE m == Len(p)
           n == Len(q)
           Rises(s, x) == CC(s[x + 1]) = 0 \/ CC(s[x]) <= CC(s[x + 1])
<1>1. m \in Nat /\ n \in Nat
  OBVIOUS
<1>2. /\ e \in Seq(Numbered) /\ Len(e) = m + n
      /\ \A x \in 1 .. m : e[x] = p[x]
      /\ \A x \in 1 .. n : e[m + x] = q[x]
  <2>1. \A s, t \in Seq(Numbered) :
          /\ s \o t \in Seq(Numbered) /\ Len(s \o t) = Len(s) + Len(t)
          /\ \A x \in 1 .. Len(s) : (s \o t)[x] = s[x]
          /\ \A x \in 1 .. Len(t) : (s \o t)[Len(s) + x] = t[x]
    BY ConcatUnits
  <2> QED BY <2>1, Zenon
<1>3. /\ p = <<>> <=> m = 0
      /\ q = <<>> <=> n = 0
  OBVIOUS
<1>4. \A s : Abstract!IsCanonical(s) <=> \A x \in 1 .. Len(s) - 1 : Rises(s, x)
  BY Zenon DEF Abstract!IsCanonical
<1> HIDE DEF m, n
<1>5. ASSUME NEW x \in 1 .. m - 1 PROVE Rises(e, x) <=> Rises(p, x)
  <2>1. x \in 1 .. m /\ x + 1 \in 1 .. m
    BY <1>1
  <2> QED BY <1>2, <2>1
<1>6. ASSUME NEW x \in 1 .. n - 1 PROVE Rises(e, m + x) <=> Rises(q, x)
  <2>1. x \in 1 .. n /\ x + 1 \in 1 .. n /\ (m + x) + 1 = m + (x + 1)
    BY <1>1
  <2> QED BY <1>2, <2>1
<1>7. ASSUME m > 0, n > 0 PROVE Rises(e, m) <=> MayFollow(p, q)
  <2>1. m \in 1 .. m /\ 1 \in 1 .. n
    BY <1>1, <1>7
  <2>2. e[m] = p[m] /\ e[m + 1] = q[1]
    BY <1>2, <2>1
  <2>3. p # <<>> /\ q # <<>>
    BY <1>3, <1>7
  <2> QED BY <2>2, <2>3 DEF MayFollow, m
<1> HIDE DEF Rises
<1>8. ASSUME Abstract!IsCanonical(e)
      PROVE  /\ Abstract!IsCanonical(p) /\ Abstract!IsCanonical(q)
             /\ MayFollow(p, q)
  <2>1. \A x \in 1 .. (m + n) - 1 : Rises(e, x)
    BY <1>2, <1>4, <1>8
  <2>2. \A x \in 1 .. m - 1 : Rises(p, x)
    BY <1>1, <1>5, <2>1
  <2>3. \A x \in 1 .. n - 1 : Rises(q, x)
    <3>1. \A x \in 1 .. n - 1 : m + x \in 1 .. (m + n) - 1
      BY <1>1
    <3> QED BY <1>6, <2>1, <3>1
  <2>4. MayFollow(p, q)
    <3>1. CASE m > 0 /\ n > 0
      <4>1. m \in 1 .. (m + n) - 1
        BY <1>1, <3>1
      <4> QED BY <1>7, <2>1, <3>1, <4>1
    <3>2. CASE ~(m > 0 /\ n > 0)
      BY <1>1, <1>3, <3>2 DEF MayFollow
    <3> QED BY <3>1, <3>2
  <2> QED BY <1>4, <2>2, <2>3, <2>4 DEF m, n
<1>9. ASSUME Abstract!IsCanonical(p), Abstract!IsCanonical(q), MayFollow(p, q)
      PROVE  Abstract!IsCanonical(e)
  <2>1. /\ \A x \in 1 .. m - 1 : Rises(p, x)
        /\ \A x \in 1 .. n - 1 : Rises(q, x)
    BY <1>4, <1>9 DEF m, n
  <2>2. ASSUME NEW x \in 1 .. (m + n) - 1 PROVE Rises(e, x)
    <3>1. CASE x < m
      <4>1. x \in 1 .. m - 1
        BY <1>1, <3>1
      <4> QED BY <1>5, <2>1, <4>1
    <3>2. CASE x = m
      BY <1>1, <1>7, <1>9, <3>2
    <3>3. CASE x > m
      <4>1. x - m \in 1 .. n - 1 /\ m + (x - m) = x
        BY <1>1, <3>3
      <4>2. Rises(q, x - m) /\ (Rises(e, m + (x - m)) <=> Rises(q, x - m))
        BY <1>6, <2>1, <4>1
      <4> QED BY <4>1, <4>2
    <3> QED BY <1>1, <3>1, <3>2, <3>3
  <2> QED BY <1>2, <1>4, <2>2
<1> QED BY <1>2, <1>8, <1>9 DEF m, n

(* What is known of a text a b, in order, that is followed by a mark c     *)
(* which may go before all of b and not before the end of a.               *)
MarkFollows(a, b, c, r) ==
  /\ a \in Seq(Numbered) /\ b \in Seq(Numbered) /\ c \in Numbered /\ b # <<>>
  /\ CC(c) # 0 /\ (a = <<>> \/ CC(a[Len(a)]) <= CC(c))
  /\ \A x \in 1 .. Len(b) : CC(b[x]) > CC(c)
  /\ r \in Seq(Numbered) /\ Len(r) = Len(a) + Len(b) + 1
  /\ \A x \in 1 .. Len(a) : r[x] = a[x]
  /\ \A x \in 1 .. Len(b) : r[Len(a) + x] = b[x]
  /\ r[Len(a) + Len(b) + 1] = c
  /\ \A x \in 1 .. Len(a) + Len(b) - 1 :
       CC(r[x + 1]) = 0 \/ CC(r[x]) <= CC(r[x + 1])

(* Which character goes before which then.                                 *)
LEMMA MarkPrecedes ==
  ASSUME NEW a, NEW b, NEW c, NEW r, MarkFollows(a, b, c, r),
         NEW k, k = Len(a), NEW N, N = Len(a) + Len(b)
  PROVE  /\ \A i \in 1 .. N : \A j \in i + 1 .. N : Abstract!Precedes(r, i, j)
         /\ \A i \in 1 .. k : Abstract!Precedes(r, i, N + 1)
         /\ \A i \in k + 1 .. N : Abstract!Precedes(r, N + 1, i)
<1> DEFINE B(x) == Abstract!Block(r, x)
           cc == CC(c)
<1>1. /\ a \in Seq(Numbered) /\ b \in Seq(Numbered) /\ r \in Seq(Numbered)
      /\ Len(r) = N + 1 /\ r[N + 1] = c /\ cc # 0
      /\ \A x \in 1 .. k : r[x] = a[x]
      /\ \A x \in 1 .. Len(b) : r[k + x] = b[x] /\ CC(b[x]) > cc
      /\ a = <<>> \/ CC(a[k]) <= cc
      /\ \A x \in 1 .. N - 1 : CC(r[x + 1]) = 0 \/ CC(r[x]) <= CC(r[x + 1])
  BY DEF MarkFollows
<1>2. k \in Nat /\ N \in Nat /\ k <= N /\ N - k = Len(b) /\ (a = <<>> <=> k = 0)
  BY <1>1
<1>3. \A x \in 1 .. N + 1 : CC(r[x]) \in Nat
  BY <1>1, ClassType
<1>4. cc \in Nat
  <2>1. N + 1 \in 1 .. N + 1
    BY <1>2
  <2> QED BY <1>1, <1>3, <2>1
<1>5. \A x \in k + 1 .. N : CC(r[x]) > cc
  <2> SUFFICES ASSUME NEW x \in k + 1 .. N PROVE CC(r[x]) > cc
    OBVIOUS
  <2>1. x - k \in 1 .. Len(b) /\ k + (x - k) = x
    BY <1>2
  <2> QED BY <1>1, <2>1
<1>6. k > 0 => CC(r[k]) <= cc
  BY <1>1, <1>2
<1> HIDE DEF cc
<1>7. \A i \in 0 .. N + 1 : \A j \in i .. N + 1 :
        /\ B(i) \in Nat /\ B(j) \in Nat /\ B(i) <= B(j)
        /\ B(i) = B(j) <=> \A z \in i + 1 .. j : CC(r[z]) # 0
  <2> SUFFICES ASSUME NEW i \in 0 .. N + 1, NEW j \in i .. N + 1
               PROVE  /\ B(i) \in Nat /\ B(j) \in Nat /\ B(i) <= B(j)
                      /\ B(i) = B(j) <=> \A z \in i + 1 .. j : CC(r[z]) # 0
    OBVIOUS
  <2>1. i \in Nat /\ j \in Nat /\ i \in 0 .. j
    BY <1>2
  <2> QED BY <2>1, BlockCounts
<1> HIDE DEF B
<1>8. \A i, j \in 1 .. N + 1 :
        Abstract!Precedes(r, i, j) <=>
          \/ B(i) < B(j)
          \/ B(i) = B(j) /\ (CC(r[i]) < CC(r[j]) \/ (CC(r[i]) = CC(r[j]) /\ i < j))
  BY Zenon DEF Abstract!Precedes, B
<1>9. \A i \in 1 .. N : \A j \in i .. N : B(i) = B(j) => CC(r[i]) <= CC(r[j])
  <2> SUFFICES ASSUME NEW i \in 1 .. N, NEW j \in i .. N, B(i) = B(j)
               PROVE  CC(r[i]) <= CC(r[j])
    OBVIOUS
  <2>1. \A z \in i + 1 .. j : CC(r[z]) # 0
    BY <1>2, <1>7
  <2>2. N \in 0 .. Len(r)
    BY <1>1, <1>2
  <2> QED BY <1>1, <2>1, <2>2, ClassesRise
<1>10. \A i \in k .. N : B(i) = B(N + 1)
  <2> SUFFICES ASSUME NEW i \in k .. N PROVE B(i) = B(N + 1)
    OBVIOUS
  <2>1. \A z \in i + 1 .. N + 1 : CC(r[z]) # 0
    <3> SUFFICES ASSUME NEW z \in i + 1 .. N + 1 PROVE CC(r[z]) # 0
      OBVIOUS
    <3>1. CASE z = N + 1
      BY <1>1, <3>1 DEF cc
    <3>2. CASE z # N + 1
      <4>1. z \in k + 1 .. N
        BY <1>2, <3>2
      <4>2. CC(r[z]) > cc
        BY <1>5, <4>1
      <4> QED BY <1>4, <4>2
    <3> QED BY <3>1, <3>2
  <2>2. i \in 0 .. N + 1 /\ N + 1 \in i .. N + 1
    BY <1>2
  <2> QED BY <1>7, <2>1, <2>2
<1>11. ASSUME NEW i \in 1 .. N, NEW j \in i + 1 .. N
       PROVE  Abstract!Precedes(r, i, j)
  <2>1. /\ i \in 1 .. N + 1 /\ j \in 1 .. N + 1 /\ i \in 0 .. N + 1
        /\ j \in i .. N + 1 /\ j \in i .. N /\ i < j
    BY <1>2
  <2>2. B(i) \in Nat /\ B(j) \in Nat /\ B(i) <= B(j)
    BY <1>7, <2>1
  <2>3. CC(r[i]) \in Nat /\ CC(r[j]) \in Nat
    BY <1>3, <2>1
  <2>4. B(i) = B(j) => CC(r[i]) <= CC(r[j])
    BY <1>9, <2>1
  <2>5. \/ B(i) < B(j)
        \/ B(i) = B(j) /\ (CC(r[i]) < CC(r[j]) \/ (CC(r[i]) = CC(r[j]) /\ i < j))
    BY <2>1, <2>2, <2>3, <2>4
  <2> QED BY <1>8, <2>1, <2>5
<1>12. ASSUME NEW i \in 1 .. k PROVE Abstract!Precedes(r, i, N + 1)
  <2>1. /\ i \in 1 .. N + 1 /\ N + 1 \in 1 .. N + 1 /\ i \in 0 .. N + 1
        /\ N + 1 \in i .. N + 1 /\ i < N + 1 /\ k \in i .. N /\ i \in 1 .. N
        /\ k \in k .. N /\ k \in 1 .. N + 1 /\ k > 0
    BY <1>2
  <2>2. B(i) \in Nat /\ B(N + 1) \in Nat /\ B(i) <= B(N + 1)
    BY <1>7, <2>1
  <2>3. CC(r[i]) \in Nat /\ CC(r[N + 1]) \in Nat /\ CC(r[k]) \in Nat
    BY <1>3, <2>1
  <2>4. B(k) = B(N + 1) /\ CC(r[k]) <= CC(r[N + 1])
    BY <1>1, <1>6, <1>10, <2>1 DEF cc
  <2>5. B(i) = B(N + 1) => CC(r[i]) <= CC(r[k])
    BY <1>9, <2>1, <2>4
  <2>6. B(i) = B(N + 1) => CC(r[i]) <= CC(r[N + 1])
    BY <2>3, <2>4, <2>5
  <2>7. \/ B(i) < B(N + 1)
        \/ B(i) = B(N + 1) /\ (\/ CC(r[i]) < CC(r[N + 1])
                               \/ (CC(r[i]) = CC(r[N + 1]) /\ i < N + 1))
    BY <2>1, <2>2, <2>3, <2>6
  <2> QED BY <1>8, <2>1, <2>7
<1>13. ASSUME NEW i \in k + 1 .. N PROVE Abstract!Precedes(r, N + 1, i)
  <2>1. i \in 1 .. N + 1 /\ N + 1 \in 1 .. N + 1 /\ i \in k .. N
    BY <1>2
  <2>2. B(i) = B(N + 1)
    BY <1>10, <2>1
  <2>3. CC(r[N + 1]) < CC(r[i])
    BY <1>1, <1>3, <1>5, <2>1 DEF cc
  <2> QED BY <1>8, <2>1, <2>2, <2>3
<1> QED BY <1>11, <1>12, <1>13

(* How many go before each.                                                *)
LEMMA MarkRanks ==
  ASSUME NEW a, NEW b, NEW c, NEW r, MarkFollows(a, b, c, r),
         NEW k, k = Len(a), NEW N, N = Len(a) + Len(b)
  PROVE  /\ \A x \in 1 .. k : Abstract!Rank(r, x) = x - 1
         /\ \A x \in k + 1 .. N : Abstract!Rank(r, x) = x
         /\ Abstract!Rank(r, N + 1) = k
<1> DEFINE P(x) == {y \in DOMAIN r : Abstract!Precedes(r, y, x)}
<1>1. r \in Seq(Numbered) /\ Len(r) = N + 1 /\ k \in Nat /\ N \in Nat /\ k <= N
  <2>1. a \in Seq(Numbered) /\ b \in Seq(Numbered)
    BY DEF MarkFollows
  <2>2. Len(a) \in Nat /\ Len(b) \in Nat
    BY <2>1
  <2> QED BY <2>2 DEF MarkFollows
<1>2. /\ \A i \in 1 .. N : \A j \in i + 1 .. N : Abstract!Precedes(r, i, j)
      /\ \A i \in 1 .. k : Abstract!Precedes(r, i, N + 1)
      /\ \A i \in k + 1 .. N : Abstract!Precedes(r, N + 1, i)
  BY MarkPrecedes
<1>3. \A x, y \in 1 .. N + 1 :
        Abstract!Precedes(r, x, y) => ~Abstract!Precedes(r, y, x)
  BY <1>1, PrecedesOnce
<1>4. DOMAIN r = 1 .. N + 1
  BY <1>1
<1>5. \A x : Abstract!Rank(r, x) = Cardinality(P(x))
  BY SameCardinality, Zenon DEF Abstract!Rank
<1>6. \A y \in 1 .. N + 1 : y \in 1 .. k \/ y \in k + 1 .. N \/ y = N + 1
  BY <1>1
<1>7. \A m \in Nat : IsFiniteSet(1 .. m) /\ Cardinality(1 .. m) = m
  <2> SUFFICES ASSUME NEW m \in Nat
               PROVE  IsFiniteSet(1 .. m) /\ Cardinality(1 .. m) = m
    OBVIOUS
  <2>1. /\ IsFiniteSet(1 .. m)
        /\ Cardinality(1 .. m) = IF 1 > m THEN 0 ELSE m - 1 + 1
    <3>1. 1 \in Int /\ m \in Int
      OBVIOUS
    <3> QED BY <3>1, FS_Interval, Zenon
  <2>2. (IF 1 > m THEN 0 ELSE m - 1 + 1) = m
    OBVIOUS
  <2> QED BY <2>1, <2>2
<1>8. ASSUME NEW x \in 1 .. k PROVE Cardinality(P(x)) = x - 1
  <2>1. P(x) = 1 .. x - 1
    <3>1. ASSUME NEW y \in 1 .. N + 1 PROVE Abstract!Precedes(r, y, x) <=> y < x
      <4>1. x \in 1 .. N /\ x \in 1 .. N + 1 /\ N + 1 \in 1 .. N + 1 /\ x < N + 1
        BY <1>1
      <4>2. CASE y < x
        <5>1. y \in 1 .. N /\ x \in y + 1 .. N
          BY <1>1, <4>1, <4>2
        <5> QED BY <1>2, <4>2, <5>1
      <4>3. CASE y = x
        BY <1>3, <4>1, <4>3
      <4>4. CASE y > x /\ y <= N
        <5>1. y \in x + 1 .. N
          BY <1>1, <4>1, <4>4
        <5> QED BY <1>2, <1>3, <4>1, <4>4, <5>1
      <4>5. CASE y = N + 1
        BY <1>2, <1>3, <4>1, <4>5
      <4> QED BY <1>1, <4>1, <4>2, <4>3, <4>4, <4>5
    <3> QED BY <1>1, <1>4, <3>1
  <2>2. x - 1 \in Nat
    BY <1>1
  <2> QED BY <1>7, <2>1, <2>2
<1>9. ASSUME NEW x \in k + 1 .. N PROVE Cardinality(P(x)) = x
  <2>1. P(x) = (1 .. x - 1) \cup {N + 1}
    <3>1. ASSUME NEW y \in 1 .. N + 1
          PROVE  Abstract!Precedes(r, y, x) <=> y < x \/ y = N + 1
      <4>1. x \in 1 .. N /\ x \in 1 .. N + 1 /\ N + 1 \in 1 .. N + 1 /\ x < N + 1
        BY <1>1
      <4>2. CASE y < x
        <5>1. y \in 1 .. N /\ x \in y + 1 .. N
          BY <1>1, <4>1, <4>2
        <5> QED BY <1>2, <4>2, <5>1
      <4>3. CASE y = x
        BY <1>1, <1>3, <4>1, <4>3
      <4>4. CASE y > x /\ y <= N
        <5>1. y \in x + 1 .. N /\ y # N + 1 /\ ~(y < x)
          BY <1>1, <4>1, <4>4
        <5> QED BY <1>2, <1>3, <4>1, <5>1
      <4>5. CASE y = N + 1
        BY <1>2, <4>5
      <4> QED BY <1>1, <4>1, <4>2, <4>3, <4>4, <4>5
    <3>2. N + 1 \in 1 .. N + 1 /\ x \in Nat /\ x <= N
      BY <1>1
    <3> QED BY <1>1, <1>4, <3>1, <3>2
  <2>2. x - 1 \in Nat /\ N + 1 \notin 1 .. x - 1
    BY <1>1
  <2>3. IsFiniteSet(1 .. x - 1) /\ Cardinality(1 .. x - 1) = x - 1
    BY <1>7, <2>2
  <2>4. Cardinality((1 .. x - 1) \cup {N + 1}) = Cardinality(1 .. x - 1) + 1
    BY <2>2, <2>3, FS_AddElement
  <2> HIDE DEF P
  <2> QED BY <1>1, <2>1, <2>2, <2>3, <2>4
<1>10. Cardinality(P(N + 1)) = k
  <2>1. P(N + 1) = 1 .. k
    <3>1. ASSUME NEW y \in 1 .. N + 1
          PROVE  Abstract!Precedes(r, y, N + 1) <=> y \in 1 .. k
      <4>1. N + 1 \in 1 .. N + 1
        BY <1>1
      <4>2. CASE y \in 1 .. k
        BY <1>2, <4>2
      <4>3. CASE y \in k + 1 .. N
        <5>1. ~Abstract!Precedes(r, y, N + 1)
          BY <1>2, <1>3, <4>1, <4>3
        <5>2. y \notin 1 .. k
          BY <1>1, <4>3
        <5> QED BY <5>1, <5>2
      <4>4. CASE y = N + 1
        <5>1. ~Abstract!Precedes(r, N + 1, N + 1)
          BY <1>3, <4>1
        <5>2. N + 1 \notin 1 .. k
          BY <1>1
        <5> QED BY <4>4, <5>1, <5>2
      <4> QED BY <1>6, <4>2, <4>3, <4>4
    <3>2. 1 .. k \subseteq 1 .. N + 1
      BY <1>1
    <3> QED BY <1>4, <3>1, <3>2
  <2> QED BY <1>1, <1>7, <2>1
<1> HIDE DEF P
<1> QED BY <1>5, <1>8, <1>9, <1>10

(* So the mark is put between the two parts.                               *)
LEMMA MarkIsInserted ==
  ASSUME NEW a \in Seq(Numbered), NEW b \in Seq(Numbered), NEW c \in Numbered,
         NEW t, t = <<c>>, b # <<>>, Abstract!IsCanonical(a \o b),
         CC(c) # 0, a = <<>> \/ CC(a[Len(a)]) <= CC(c),
         \A x \in 1 .. Len(b) : CC(b[x]) > CC(c)
  PROVE  /\ Abstract!CanonicalOrder((a \o b) \o t) = (a \o t) \o b
         /\ Abstract!IsCanonical((a \o t) \o b)
         /\ (a \o t) \o b \in Seq(Numbered)
         /\ Len((a \o t) \o b) = Len(a \o b) + 1
<1> DEFINE s == a \o b
           r == s \o t
           h == a \o t
           e == h \o b
           k == Len(a)
           N == Len(a) + Len(b)
<1>1. t \in Seq(Numbered) /\ Len(t) = 1 /\ t[1] = c /\ t # <<>>
  OBVIOUS
<1>2. k \in Nat /\ Len(b) \in Nat /\ Len(b) > 0 /\ N \in Nat
  OBVIOUS
<1>3. \A p, q \in Seq(Numbered) :
        /\ p \o q \in Seq(Numbered) /\ Len(p \o q) = Len(p) + Len(q)
        /\ \A x \in 1 .. Len(p) : (p \o q)[x] = p[x]
        /\ \A x \in 1 .. Len(q) : (p \o q)[Len(p) + x] = q[x]
  BY ConcatUnits
<1>4. /\ s \in Seq(Numbered) /\ Len(s) = N
      /\ \A x \in 1 .. k : s[x] = a[x]
      /\ \A x \in 1 .. Len(b) : s[k + x] = b[x]
  BY <1>3
<1>5. /\ h \in Seq(Numbered) /\ Len(h) = k + 1
      /\ \A x \in 1 .. k : h[x] = a[x]
      /\ h[k + 1] = c
  <2>1. /\ h \in Seq(Numbered) /\ Len(h) = Len(a) + Len(t)
        /\ \A x \in 1 .. Len(a) : h[x] = a[x]
        /\ \A x \in 1 .. Len(t) : h[Len(a) + x] = t[x]
    BY <1>1, <1>3, Zenon
  <2> HIDE DEF h
  <2>2. 1 \in 1 .. Len(t)
    BY <1>1
  <2> QED BY <1>1, <2>1, <2>2
<1> HIDE DEF s, h
<1>6. /\ r \in Seq(Numbered) /\ Len(r) = N + 1
      /\ \A x \in 1 .. N : r[x] = s[x]
      /\ r[N + 1] = c
  <2>1. /\ r \in Seq(Numbered) /\ Len(r) = Len(s) + Len(t)
        /\ \A x \in 1 .. Len(s) : r[x] = s[x]
        /\ \A x \in 1 .. Len(t) : r[Len(s) + x] = t[x]
    BY <1>1, <1>3, <1>4, Zenon
  <2> HIDE DEF r
  <2>2. 1 \in 1 .. Len(t)
    BY <1>1
  <2> QED BY <1>1, <1>4, <2>1, <2>2
<1>7. /\ e \in Seq(Numbered) /\ Len(e) = (k + 1) + Len(b)
      /\ \A x \in 1 .. k + 1 : e[x] = h[x]
      /\ \A x \in 1 .. Len(b) : e[(k + 1) + x] = b[x]
  <2>1. /\ e \in Seq(Numbered) /\ Len(e) = Len(h) + Len(b)
        /\ \A x \in 1 .. Len(h) : e[x] = h[x]
        /\ \A x \in 1 .. Len(b) : e[Len(h) + x] = b[x]
    BY <1>3, <1>5, Zenon
  <2> HIDE DEF e
  <2> QED BY <1>5, <2>1
<1>8. Abstract!IsCanonical(s)
  BY DEF s
<1> HIDE DEF r, e, k, N
<1>9. MarkFollows(a, b, c, r)
  <2>1. /\ \A x \in 1 .. k : r[x] = a[x]
        /\ \A x \in 1 .. Len(b) : r[k + x] = b[x]
    <3>1. \A x \in 1 .. k : x \in 1 .. N
      BY <1>2 DEF N, k
    <3>2. \A x \in 1 .. Len(b) : k + x \in 1 .. N
      BY <1>2 DEF N, k
    <3> QED BY <1>4, <1>6, <3>1, <3>2
  <2>2. \A x \in 1 .. N - 1 : CC(r[x + 1]) = 0 \/ CC(r[x]) <= CC(r[x + 1])
    <3>1. \A x \in 1 .. N - 1 : CC(s[x + 1]) = 0 \/ CC(s[x]) <= CC(s[x + 1])
      BY <1>4, <1>8 DEF Abstract!IsCanonical
    <3>2. \A x \in 1 .. N - 1 : x \in 1 .. N /\ x + 1 \in 1 .. N
      BY <1>2
    <3> QED BY <1>6, <3>1, <3>2
  <2> QED BY <1>6, <2>1, <2>2 DEF MarkFollows, N, k
<1>10. /\ \A x \in 1 .. k : Abstract!Rank(r, x) = x - 1
       /\ \A x \in k + 1 .. N : Abstract!Rank(r, x) = x
       /\ Abstract!Rank(r, N + 1) = k
  BY <1>9, MarkRanks DEF k, N
<1>11. ~Abstract!IsCanonical(r)
  <2> SUFFICES ASSUME Abstract!IsCanonical(r) PROVE FALSE
    OBVIOUS
  <2>1. MayFollow(s, t)
    BY <1>1, <1>4, ConcatCanonical DEF r
  <2>2. s # <<>> /\ N = k + Len(b) /\ Len(b) \in 1 .. Len(b)
    BY <1>2, <1>4 DEF N, k
  <2>3. s[N] = b[Len(b)]
    BY <1>4, <2>2
  <2>4. CC(s[N]) <= CC(c)
    BY <1>1, <1>4, <2>1, <2>2 DEF MayFollow
  <2>5. CC(b[Len(b)]) > CC(c)
    BY <2>2
  <2>6. CC(c) \in Nat /\ CC(b[Len(b)]) \in Nat
    BY <2>2, ClassType, BufferConstants DEF Numbered
  <2> QED BY <2>3, <2>4, <2>5, <2>6
<1>12. DOMAIN r = 1 .. N + 1
  BY <1>6
<1>13. Abstract!CanonicalOrder(r) =
         [p \in DOMAIN r |-> r[CHOOSE x \in DOMAIN r : Abstract!Rank(r, x) = p - 1]]
  BY <1>11, Zenon DEF Abstract!CanonicalOrder
<1>14. \A x \in 1 .. N + 1 :
         Abstract!Rank(r, x) = IF x <= k THEN x - 1 ELSE IF x <= N THEN x ELSE k
  <2> SUFFICES ASSUME NEW x \in 1 .. N + 1
               PROVE  Abstract!Rank(r, x) =
                        IF x <= k THEN x - 1 ELSE IF x <= N THEN x ELSE k
    OBVIOUS
  <2>1. k \in Nat /\ N \in Nat /\ k <= N
    BY <1>2 DEF k, N
  <2>2. CASE x <= k
    BY <1>10, <2>1, <2>2
  <2>3. CASE x > k /\ x <= N
    BY <1>10, <2>1, <2>3
  <2>4. CASE x = N + 1
    BY <1>10, <2>1, <2>4
  <2> QED BY <2>1, <2>2, <2>3, <2>4
<1>15. ASSUME NEW p \in DOMAIN r
       PROVE  e[p] = r[CHOOSE x \in DOMAIN r : Abstract!Rank(r, x) = p - 1]
  <2> DEFINE at == CHOOSE x \in DOMAIN r : Abstract!Rank(r, x) = p - 1
             x0 == IF p <= k THEN p ELSE IF p = k + 1 THEN N + 1 ELSE p - 1
  <2>1. k \in Nat /\ N \in Nat /\ k <= N /\ Len(b) = N - k
    BY <1>2 DEF k, N
  <2>2. p \in 1 .. N + 1
    BY <1>12
  <2>3. x0 \in 1 .. N + 1 /\ Abstract!Rank(r, x0) = p - 1
    <3>1. CASE p <= k
      BY <1>14, <2>1, <2>2, <3>1
    <3>2. CASE p = k + 1
      BY <1>14, <2>1, <2>2, <3>2
    <3>3. CASE p > k + 1
      <4>1. x0 = p - 1 /\ p - 1 \in 1 .. N + 1 /\ p - 1 <= N /\ ~(p - 1 <= k)
        BY <2>1, <2>2, <3>3
      <4> QED BY <1>14, <4>1
    <3> QED BY <2>1, <2>2, <3>1, <3>2, <3>3
  <2>4. \A x \in 1 .. N + 1 : Abstract!Rank(r, x) = p - 1 => x = x0
    <3> SUFFICES ASSUME NEW x \in 1 .. N + 1, Abstract!Rank(r, x) = p - 1
                 PROVE  x = x0
      OBVIOUS
    <3>1. CASE x <= k
      BY <1>14, <2>1, <2>2, <3>1
    <3>2. CASE x > k /\ x <= N
      BY <1>14, <2>1, <2>2, <3>2
    <3>3. CASE x = N + 1
      BY <1>14, <2>1, <2>2, <3>3
    <3> QED BY <2>1, <2>2, <3>1, <3>2, <3>3
  <2>5. at = x0
    <3> HIDE DEF x0
    <3> QED BY <1>12, <2>3, <2>4
  <2>6. e[p] = r[x0]
    <3>1. CASE p <= k
      <4>1. p \in 1 .. k + 1 /\ p \in 1 .. k /\ p \in 1 .. N /\ x0 = p
        BY <2>1, <2>2, <3>1
      <4> QED BY <1>4, <1>5, <1>6, <1>7, <4>1
    <3>2. CASE p = k + 1
      <4>1. p \in 1 .. k + 1 /\ x0 = N + 1
        BY <2>1, <2>2, <3>2
      <4> QED BY <1>5, <1>6, <1>7, <3>2, <4>1
    <3>3. CASE p > k + 1
      <4>1. p \in Int /\ x0 = p - 1
        BY <2>1, <2>2, <3>3
      <4>2. PICK y \in Int : y = p - (k + 1)
        BY <2>1, <4>1
      <4>3. /\ y \in 1 .. Len(b) /\ (k + 1) + y = p
            /\ k + y = p - 1 /\ p - 1 \in 1 .. N
        <5>1. (k + 1) + y = p /\ k + y = p - 1
          <6>1. \A u, v \in Int : /\ (u + 1) + (v - (u + 1)) = v
                                  /\ u + (v - (u + 1)) = v - 1
            OBVIOUS
          <6>2. k \in Int
            BY <2>1
          <6> QED BY <4>1, <4>2, <6>1, <6>2, Zenon
        <5>2. p - 1 \in 1 .. N
          BY <2>1, <2>2, <3>3, <4>1
        <5>3. y \in 1 .. N - k
          BY <2>1, <2>2, <3>3, <4>1, <4>2
        <5> QED BY <2>1, <5>1, <5>2, <5>3
      <4>4. e[p] = b[y] /\ s[p - 1] = b[y]
        BY <1>4, <1>7, <4>3
      <4>5. r[p - 1] = s[p - 1]
        BY <1>6, <4>3
      <4> QED BY <4>1, <4>4, <4>5
    <3>4. p <= k \/ p = k + 1 \/ p > k + 1
      BY <2>1, <2>2
    <3> QED BY <3>1, <3>2, <3>3, <3>4
  <2> QED BY <2>5, <2>6
<1>16. Len(e) = N + 1
  BY <1>2, <1>7 DEF k, N
<1>17. e = Abstract!CanonicalOrder(r)
  <2>1. e = [p \in DOMAIN r |-> e[p]]
    BY <1>7, <1>12, <1>16
  <2> QED BY <1>13, <1>15, <2>1
<1>18. Abstract!IsCanonical(e)
  <2>1. /\ Abstract!IsCanonical(a) /\ Abstract!IsCanonical(b)
    BY <1>8, ConcatCanonical DEF s
  <2>2. Abstract!IsCanonical(t)
    BY <1>1 DEF Abstract!IsCanonical
  <2>3. MayFollow(a, t)
    BY <1>1 DEF MayFollow
  <2>4. Abstract!IsCanonical(h)
    BY <1>1, <2>1, <2>2, <2>3, ConcatCanonical DEF h
  <2>5. MayFollow(h, b)
    <3>1. 1 \in 1 .. Len(b) /\ CC(b[1]) > CC(c) /\ h[Len(h)] = c
      BY <1>2, <1>5
    <3>2. CC(c) \in Nat /\ CC(b[1]) \in Nat
      BY <3>1, ClassType, BufferConstants DEF Numbered
    <3> QED BY <3>1, <3>2 DEF MayFollow
  <2> QED BY <1>5, <2>1, <2>4, <2>5, ConcatCanonical DEF e
<1> QED BY <1>4, <1>7, <1>16, <1>17, <1>18 DEF s, r, h, e

-----------------------------------------------------------------------------
(* The code points of a text and the classes that the buffer looks at.     *)

(* A string of one character.                                              *)
LEMMA OneCharacter ==
  ASSUME NEW t \in Seq(Nat), t # <<>>, PreviousIndex(t, Len(t)) = 0
  PROVE  CodePoints(t) = <<CodePointAt(t, 0)>>
<1> DEFINE p == CodePoints(t)
           n == CountCodePoints(t, 0, Len(t))
<1>1. Len(t) \in 1 .. Len(t) /\ 0 \in 0 .. Len(t) - 1
  OBVIOUS
<1>2. IsBoundary(t, 0) /\ IsBoundary(t, Len(t))
  BY EndsAreBoundaries
<1>3. n = CountCodePoints(t, 0, 0) + 1
  BY <1>1, <1>2, PreviousCodePoint
<1>4. CountCodePoints(t, 0, 0) = 0
  BY CountStep
<1>5. /\ p \in Seq(Int) /\ Len(p) = n
      /\ p[CountCodePoints(t, 0, 0) + 1] = CodePointAt(t, 0)
  BY <1>1, <1>2, CodePointsAtBoundaries
<1>6. n = 1 /\ p[1] = CodePointAt(t, 0)
  BY <1>3, <1>4, <1>5
<1> HIDE DEF p, n
<1>7. p = <<p[1]>>
  BY <1>5, <1>6
<1> QED BY <1>6, <1>7 DEF p

(* Behind every code point there is a boundary.                            *)
LEMMA CharacterEnds ==
  ASSUME NEW s \in Seq(Nat), NEW x \in 1 .. Len(CodePoints(s))
  PROVE  \E i \in 1 .. Len(s) :
           IsBoundary(s, i) /\ EndCC(s, i) = CC(CodePoints(s)[x])
<1> DEFINE p == CodePoints(s)
<1>1. /\ p \in Seq(Int) /\ Len(p) = CountCodePoints(s, 0, Len(s))
      /\ \A j \in 0 .. Len(s) - 1 :
           IsBoundary(s, j) => p[CountCodePoints(s, 0, j) + 1] = CodePointAt(s, j)
  BY CodePointsAtBoundaries
<1>2. Len(s) \in Nat /\ Len(p) \in Nat
  BY <1>1
<1>3. x - 1 \in 0 .. CountCodePoints(s, 0, Len(s)) - 1 /\ (x - 1) + 1 = x
  BY <1>1, <1>2
<1>4. PICK j \in 0 .. Len(s) - 1 :
        IsBoundary(s, j) /\ CountCodePoints(s, 0, j) = x - 1
  BY <1>3, EveryCodePointHasBoundary
<1>5. CodePointAt(s, j) = p[x]
  BY <1>1, <1>3, <1>4
<1> DEFINE i == NextIndex(s, j)
<1>6. i \in j + 1 .. Len(s) /\ IsBoundary(s, i)
  BY <1>4, NextIndexIsBoundary
<1>7. PreviousIndex(s, i) = j
  <2>1. CASE StartsPair(s, j)
    <3>1. i = j + 2 /\ i - 2 = j /\ i >= 2
      BY <1>2, <2>1 DEF NextIndex
    <3> QED BY <2>1, <3>1 DEF PreviousIndex
  <2>2. CASE ~StartsPair(s, j)
    <3>1. i = j + 1 /\ i - 2 = j - 1 /\ i - 1 = j
      BY <1>2, <2>2 DEF NextIndex
    <3>2. i >= 2 => ~StartsPair(s, j - 1)
      BY <1>2, <1>4, <3>1 DEF IsBoundary
    <3> QED BY <3>1, <3>2 DEF PreviousIndex
  <2> QED BY <2>1, <2>2
<1>8. i \in 1 .. Len(s)
  BY <1>2, <1>6
<1> HIDE DEF i
<1> QED BY <1>5, <1>6, <1>7, <1>8 DEF EndCC, CodePointCC

(* The last one is that behind which the string ends.                      *)
LEMMA LastCharacter ==
  ASSUME NEW s \in Seq(Nat)
  PROVE  /\ s = <<>> => CodePoints(s) = <<>>
         /\ s # <<>> =>
              /\ CodePoints(s) # <<>>
              /\ ClassAtEnd(s) = CC(CodePoints(s)[Len(CodePoints(s))])
<1> DEFINE p == CodePoints(s)
<1>1. p \in Seq(Int) /\ Len(p) = CountCodePoints(s, 0, Len(s))
  BY CodePointsAtBoundaries
<1>2. CASE s = <<>>
  <2>1. Len(s) = 0
    BY <1>2
  <2>2. CountCodePoints(s, 0, 0) = 0
    BY CountStep
  <2>3. Len(p) = 0
    BY <1>1, <2>1, <2>2
  <2> HIDE DEF p
  <2>4. p = <<>>
    BY <1>1, <2>3
  <2> QED BY <1>2, <2>4 DEF p
<1>3. CASE s # <<>>
  <2>1. Len(s) \in 1 .. Len(s) /\ IsBoundary(s, Len(s))
    BY <1>3, EndsAreBoundaries
  <2>2. /\ CountCodePoints(s, 0, Len(s)) \in 1 .. Len(p)
        /\ CodePointAt(s, PreviousIndex(s, Len(s))) =
             p[CountCodePoints(s, 0, Len(s))]
    BY <2>1, PreviousCodePoint
  <2>3. p # <<>>
    <3> HIDE DEF p
    <3> QED BY <1>1, <2>2
  <2>4. ClassAtEnd(s) = CC(p[Len(p)])
    BY <1>1, <1>3, <2>2 DEF ClassAtEnd, EndCC, CodePointCC
  <2> QED BY <1>3, <2>3, <2>4
<1> QED BY <1>2, <1>3

(* And the first that with which it begins.                                *)
LEMMA LeadCharacter ==
  ASSUME NEW s \in Seq(Nat), s # <<>>
  PROVE  CodePoints(s)[1] = CodePointAt(s, 0)
<1>1. 0 \in 0 .. Len(s) - 1 /\ IsBoundary(s, 0)
  BY EndsAreBoundaries
<1>2. CountCodePoints(s, 0, 0) = 0
  BY CountStep
<1>3. CodePoints(s)[CountCodePoints(s, 0, 0) + 1] = CodePointAt(s, 0)
  BY <1>1, CodePointsAtBoundaries
<1> QED BY <1>2, <1>3

(* The code points of a text that may be appended.                         *)
LEMMA TextCharacters ==
  ASSUME NEW s \in Texts
  PROVE  /\ s \in Seq(Nat) /\ CodePoints(s) \in Seq(Numbered)
         /\ \A x \in 1 .. Len(CodePoints(s)) : CodePoints(s)[x] \in Character
         /\ Abstract!IsCanonical(CodePoints(s)) <=> InOrder(s)
<1> DEFINE p == CodePoints(s)
<1>1. s \in Seq(0 .. FirstSupplementary - 1) /\ s \in Seq(Nat)
  <2>1. s \in Seq(0 .. FirstSupplementary - 1)
    BY BufferConstants
  <2> QED BY <2>1, SurrogateLayout
<1>2. /\ p \in Seq(Int) /\ Len(p) = CountCodePoints(s, 0, Len(s))
      /\ \A j \in 0 .. Len(s) - 1 :
           IsBoundary(s, j) => p[CountCodePoints(s, 0, j) + 1] = CodePointAt(s, j)
  BY <1>1, CodePointsAtBoundaries
<1>3. ASSUME NEW x \in 1 .. Len(p) PROVE p[x] \in Numbered
  <2>1. x - 1 \in 0 .. CountCodePoints(s, 0, Len(s)) - 1 /\ (x - 1) + 1 = x
    BY <1>2
  <2>2. PICK j \in 0 .. Len(s) - 1 :
          IsBoundary(s, j) /\ CountCodePoints(s, 0, j) = x - 1
    BY <1>1, <2>1, EveryCodePointHasBoundary
  <2>3. p[x] = CodePointAt(s, j)
    BY <1>2, <2>1, <2>2
  <2> QED BY <1>1, <2>3, CodePointAtRange DEF Numbered
<1>4. p \in Seq(Numbered)
  <2> HIDE DEF p
  <2> QED BY <1>2, <1>3
<1>5. ASSUME NEW x \in 1 .. Len(p) PROVE p[x] \in Character
  <2>1. DOMAIN p = 1 .. Len(p)
    BY <1>2
  <2> HIDE DEF p
  <2>2. p[x] \in {p[y] : y \in DOMAIN p}
    BY <2>1
  <2> QED BY <2>2, Zenon DEF Character, p
<1>6. Abstract!IsCanonical(p) <=> InOrder(s)
  BY Zenon DEF Abstract!IsCanonical, InOrder
<1> QED BY <1>1, <1>4, <1>5, <1>6

(* Every character that may be appended is a code point.                   *)
LEMMA CharacterIsNumber == Character \subseteq Numbered
<1>1. CodePoint \subseteq Numbered
  BY BufferConstants DEF Numbered
<1>2. ASSUME NEW s \in Texts, NEW x \in DOMAIN CodePoints(s)
      PROVE  CodePoints(s)[x] \in Numbered
  <2> DEFINE p == CodePoints(s)
  <2>1. p \in Seq(Numbered)
    BY TextCharacters
  <2> HIDE DEF p
  <2>2. \A y \in DOMAIN p : p[y] \in Numbered
    BY <2>1
  <2> QED BY <2>2 DEF p
<1> QED BY <1>1, <1>2 DEF Character

-----------------------------------------------------------------------------
(* The text of the buffer and what is left to insert, as code points.      *)
OrderInv ==
  /\ CodePoints(units) \in Seq(Numbered)
  /\ Abstract!IsCanonical(CodePoints(units))
  /\ \A x \in 1 .. Len(CodePoints(rest)) : CodePoints(rest)[x] \in Character

(* The text has become the canonical order of itself and q.                *)
Appended(q) ==
  /\ CodePoints(units') = Abstract!CanonicalOrder(CodePoints(units) \o q)
  /\ Len(CodePoints(units')) = Len(CodePoints(units)) + Len(q)
  /\ CodePoints(units') \in Seq(Numbered)
  /\ Abstract!IsCanonical(CodePoints(units'))

(* What may follow the text is appended by putting it at the end.          *)
LEMMA PushAppends ==
  ASSUME OrderInv, NEW t, Joined(units', units, t), NEW q, q = CodePoints(t),
         q \in Seq(Numbered), Abstract!IsCanonical(q),
         MayFollow(CodePoints(units), q)
  PROVE  Appended(q)
<1> DEFINE p == CodePoints(units)
           e == CodePoints(units')
<1>1. e = p \o q
  BY JoinedCodePoints
<1>2. p \in Seq(Numbered) /\ Abstract!IsCanonical(p)
  BY DEF OrderInv
<1> HIDE DEF p, e
<1>3. e \in Seq(Numbered) /\ Len(e) = Len(p) + Len(q)
  BY <1>1, <1>2, ConcatCanonical
<1>4. Abstract!IsCanonical(e)
  <2>1. MayFollow(p, q)
    BY DEF p
  <2> QED BY <1>1, <1>2, <2>1, ConcatCanonical
<1>5. e = Abstract!CanonicalOrder(p \o q)
  BY <1>1, <1>4, Zenon DEF Abstract!CanonicalOrder
<1> QED BY <1>3, <1>4, <1>5 DEF Appended, p, e

(* The units of one character are a text that is in order.                 *)
LEMMA SingleText ==
  ASSUME NEW c \in 0 .. MaxCodePoint, ~IsSurrogate(c), NEW q, q = <<c>>
  PROVE  /\ CodePoints(CodeUnits(c)) = q /\ q \in Seq(Numbered) /\ q # <<>>
         /\ q[1] = c /\ Len(q) = 1 /\ Abstract!IsCanonical(q)
<1>1. CodePoints(CodeUnits(c)) = q
  BY CharacterUnits, OneCharacter
<1>2. c \in Numbered
  BY DEF Numbered
<1>3. q \in Seq(Numbered) /\ q # <<>> /\ q[1] = c /\ Len(q) = 1
  BY <1>2
<1>4. Abstract!IsCanonical(q)
  BY <1>3 DEF Abstract!IsCanonical
<1> QED BY <1>1, <1>3, <1>4

(* What insert() does to the text is what its canonical order asks for:    *)
(* it stops behind all characters of the same class and before the higher  *)
(* ones, and does not go beyond a starter.                                 *)
LEMMA InsertAppends ==
  ASSUME IInv, IsWellFormed(units), Marked(units, reorderStart, lastCC), OrderInv,
         NEW c \in 0 .. MaxCodePoint, ~IsSurrogate(c),
         ~(lastCC <= CC(c) \/ CC(c) = 0), Insert(c, CC(c)), NEW q, q = <<c>>
  PROVE  Appended(q)
<1> DEFINE cc == CC(c)
           at == InsertionPoint(cc)
           t == CodeUnits(c)
<1>1. /\ cc \in Nat /\ lastCC \in Nat /\ lastCC > cc /\ cc >= 1
      /\ units # <<>> /\ reorderStart \in Nat /\ Len(units) \in Nat
      /\ units \in Seq(Nat)
  BY BufferConstants DEF IInv, NumbersInv
<1>2. /\ at \in 0 .. Len(units) - 1 /\ IsBoundary(units, at)
      /\ at <= reorderStart \/ EndCC(units, at) <= cc
      /\ \A i \in 1 .. Len(units) - 1 :
           IsBoundary(units, i) /\ EndCC(units, i) <= cc => i <= at
  BY <1>1, InsertionPointIsRight
<1>3. PICK a, b, h : /\ Joined(units, a, b) /\ Joined(h, a, t) /\ Joined(units', h, b)
                     /\ Len(a) = at /\ Len(h) = at + Len(t) /\ b # <<>>
  BY <1>1, InsertShape DEF InsertedAt
<1>4. CodePoints(t) = q /\ Len(q) = 1 /\ q = <<c>>
  BY SingleText
<1>5. EndCC(units, Len(units)) = lastCC
  BY <1>1 DEF Marked, ClassAtEnd
<1>6. c \in Numbered /\ CC(c) # 0
  BY DEF Numbered
<1> HIDE DEF cc, at, t
<1>7. /\ a \in Seq(Nat) /\ b \in Seq(Nat) /\ Len(units) = Len(a) + Len(b)
      /\ Len(a) \in Nat /\ Len(b) \in Nat /\ Len(b) > 0
  <2>1. a \in Seq(Nat) /\ b \in Seq(Nat) /\ Len(units) = Len(a) + Len(b)
    BY <1>3 DEF Joined
  <2> QED BY <1>3, <2>1
<1> DEFINE pa == CodePoints(a)
           pb == CodePoints(b)
<1>8. /\ CodePoints(units) = pa \o pb
      /\ CodePoints(units') = (pa \o q) \o pb
  <2>1. CodePoints(units) = CodePoints(a) \o CodePoints(b)
    BY <1>3, JoinedCodePoints
  <2>2. CodePoints(h) = CodePoints(a) \o CodePoints(t)
    BY <1>3, JoinedCodePoints
  <2>3. CodePoints(units') = CodePoints(h) \o CodePoints(b)
    BY <1>3, JoinedCodePoints
  <2> QED BY <1>4, <2>1, <2>2, <2>3, Zenon
<1>9. pa \in Seq(Numbered) /\ pb \in Seq(Numbered)
  <2>1. pa \in Seq(Int) /\ pb \in Seq(Int) /\ pa \o pb \in Seq(Numbered)
    BY <1>7, <1>8, CodePointsAtBoundaries DEF OrderInv
  <2>2. \A u, v \in Seq(Int) :
          /\ u \o v \in Seq(Int) /\ Len(u \o v) = Len(u) + Len(v)
          /\ \A i \in 1 .. Len(u) : (u \o v)[i] = u[i]
          /\ \A i \in 1 .. Len(v) : (u \o v)[Len(u) + i] = v[i]
    BY ConcatUnits
  <2> DEFINE s == pa \o pb
  <2>3. /\ s \in Seq(Numbered) /\ Len(s) = Len(pa) + Len(pb)
        /\ \A i \in 1 .. Len(pa) : s[i] = pa[i]
        /\ \A i \in 1 .. Len(pb) : s[Len(pa) + i] = pb[i]
    BY <2>1, <2>2, Zenon
  <2> HIDE DEF pa, pb, s
  <2>4. Len(pa) \in Nat /\ Len(pb) \in Nat
    BY <2>1
  <2>5. \A i \in 1 .. Len(s) : s[i] \in Numbered
    BY <2>3
  <2>6. \A i \in 1 .. Len(pa) : pa[i] \in Numbered
    <3>1. \A i \in 1 .. Len(pa) : i \in 1 .. Len(s)
      BY <2>3, <2>4
    <3> QED BY <2>3, <2>5, <3>1
  <2>7. \A i \in 1 .. Len(pb) : pb[i] \in Numbered
    <3>1. \A i \in 1 .. Len(pb) : Len(pa) + i \in 1 .. Len(s)
      BY <2>3, <2>4
    <3> QED BY <2>3, <2>5, <3>1
  <2> QED BY <2>1, <2>6, <2>7
<1>10. pb # <<>>
  BY <1>3, <1>7, LastCharacter
<1>11. ASSUME NEW x \in 1 .. Len(pb) PROVE CC(pb[x]) > CC(c)
  <2>1. PICK i \in 1 .. Len(b) : IsBoundary(b, i) /\ EndCC(b, i) = CC(pb[x])
    BY <1>7, CharacterEnds
  <2>2. EndCC(units, at + i) = CC(pb[x])
    <3>1. Joined(units, a, b)
      BY <1>3
    <3>2. /\ \A y \in 1 .. Len(a) : EndCC(units, y) = EndCC(a, y)
          /\ \A y \in 1 .. Len(b) : EndCC(units, Len(a) + y) = EndCC(b, y)
      BY <3>1, JoinedEnds
    <3>3. EndCC(units, Len(a) + i) = EndCC(b, i)
      BY <2>1, <3>2, Zenon
    <3> QED BY <1>3, <2>1, <3>3, Zenon
  <2>3. IsBoundary(units, at + i)
    <3>1. i \in 0 .. Len(b)
      BY <1>7, <2>1
    <3> QED BY <1>3, <2>1, <3>1, JoinedBoundaries
  <2>4. CC(pb[x]) \in Nat
    <3> HIDE DEF pb
    <3> QED BY <1>9, ClassType
  <2>5. CASE at + i = Len(units)
    <3>1. CC(pb[x]) = lastCC
      BY <1>5, <2>2, <2>5
    <3> QED BY <1>1, <3>1 DEF cc
  <2>6. CASE at + i # Len(units)
    <3>1. at + i \in 1 .. Len(units) - 1 /\ ~(at + i <= at)
      <4>1. at \in Nat /\ i \in Nat /\ i > 0 /\ i <= Len(b)
        BY <1>3, <1>7, <2>1
      <4>2. Len(units) = at + Len(b) /\ Len(b) \in Nat
        BY <1>3, <1>7
      <4> QED BY <2>6, <4>1, <4>2
    <3>2. ~(EndCC(units, at + i) <= cc)
      BY <1>2, <2>3, <3>1
    <3> QED BY <1>1, <2>2, <2>4, <3>2 DEF cc
  <2> QED BY <2>5, <2>6
<1>12. pa = <<>> \/ CC(pa[Len(pa)]) <= CC(c)
  <2>1. CASE a = <<>>
    BY <1>7, <2>1, LastCharacter
  <2>2. CASE a # <<>>
    <3>1. at \in 1 .. Len(a) /\ at > 0
      BY <1>3, <1>7, <2>2
    <3>2. EndCC(units, at) = CC(pa[Len(pa)])
      <4>1. EndCC(units, at) = EndCC(a, at)
        BY <1>3, <3>1, JoinedEnds
      <4>2. ClassAtEnd(a) = CC(pa[Len(pa)])
        BY <1>7, <2>2, LastCharacter
      <4> QED BY <1>3, <2>2, <4>1, <4>2 DEF ClassAtEnd
    <3>3. EndCC(units, at) <= cc
      <4>1. CASE at <= reorderStart
        <5>1. PICK j \in {reorderStart, reorderStart + 1} : Starter(units, j)
          BY <1>1, <3>1, <4>1 DEF Marked
        <5>2. /\ j \in 1 .. Len(units) /\ IsBoundary(units, j)
              /\ EndCC(units, j) \in 0 .. 1
          BY <5>1 DEF Starter
        <5>3. EndCC(units, j) <= cc
          BY <1>1, <5>2
        <5>4. j # Len(units)
          BY <1>1, <1>5, <5>3
        <5>5. j <= at
          BY <1>1, <1>2, <5>2, <5>3, <5>4
        <5>6. j = at
          BY <1>1, <1>2, <4>1, <5>1, <5>5
        <5> QED BY <5>3, <5>6
      <4> QED BY <1>2, <4>1
    <3> QED BY <3>2, <3>3 DEF cc
  <2> QED BY <2>1, <2>2
<1>13. Abstract!IsCanonical(pa \o pb)
  BY <1>8 DEF OrderInv
<1> HIDE DEF pa, pb
<1>14. /\ Abstract!CanonicalOrder((pa \o pb) \o q) = (pa \o q) \o pb
       /\ Abstract!IsCanonical((pa \o q) \o pb)
       /\ (pa \o q) \o pb \in Seq(Numbered)
       /\ Len((pa \o q) \o pb) = Len(pa \o pb) + 1
  BY <1>4, <1>6, <1>9, <1>10, <1>11, <1>12, <1>13, MarkIsInserted, ZenonT(30)
<1> QED BY <1>4, <1>8, <1>14 DEF Appended

-----------------------------------------------------------------------------
(* A step of the buffer is one of CanonicalText, or none that it sees.     *)
AbstractStep == [Abstract!Next]_<<CodePoints(units), failed>>

Implemented == OrderInv' /\ AbstractStep

(* Appending a character or a text in its canonical place is AppendText.   *)
LEMMA AppendedIsAppend ==
  ASSUME ~failed, UNCHANGED failed, NEW q, Appended(q),
         \/ \E c \in Character : q = <<c>>
         \/ q \in CharacterTexts /\ Abstract!IsCanonical(q)
  PROVE  AbstractStep
<1>1. Abstract!AppendText(q)
  BY Zenon DEF Abstract!AppendText, Appended
<1>2. CASE \E c \in Character : q = <<c>>
  BY <1>1, <1>2, Zenon DEF AbstractStep, Abstract!Next
<1>3. CASE q \in CharacterTexts /\ Abstract!IsCanonical(q)
  BY <1>1, <1>3, Zenon DEF AbstractStep, Abstract!Next
<1> QED BY <1>2, <1>3

(* A failed resize is Fail, or nothing after the first.                    *)
LEMMA OutOfMemoryIsFail ==
  ASSUME OrderInv, failed' = TRUE, units' = units, failed \in BOOLEAN,
         \A x \in 1 .. Len(CodePoints(rest')) : CodePoints(rest')[x] \in Character
  PROVE  Implemented
<1>1. OrderInv'
  BY Zenon DEF OrderInv
<1>2. CodePoints(units)' = CodePoints(units)
  BY Zenon
<1>3. failed => AbstractStep
  BY <1>2, Zenon DEF AbstractStep
<1>4. ~failed => AbstractStep
  BY <1>2, Zenon DEF AbstractStep, Abstract!Next, Abstract!Fail
<1> QED BY <1>1, <1>3, <1>4, Zenon DEF Implemented

(* A character at the end of a text that may follow it, or where insert()  *)
(* puts it.                                                                *)
LEMMA PlaceImplements ==
  ASSUME IInv, IsWellFormed(units), OrderInv, ~failed,
         ~atBoundary => Marked(units, reorderStart, lastCC),
         NEW c \in Character, ~IsSurrogate(c), atBoundary => CC(c) = 0,
         PlaceCodePoint(c),
         \A x \in 1 .. Len(CodePoints(rest')) : CodePoints(rest')[x] \in Character
  PROVE  Implemented
<1> DEFINE q == <<c>>
           t == CodeUnits(c)
<1>1. c \in 0 .. MaxCodePoint
  BY CharacterIsNumber DEF Numbered
<1>2. CASE OutOfMemory(LacksRoomFor(c))
  BY <1>2, OutOfMemoryIsFail DEF OutOfMemory, IInv, FlagsInv
<1>3. CASE Place(c, CC(c)) /\ UNCHANGED failed
  <2>1. CodePoints(t) = q /\ q \in Seq(Numbered) /\ q # <<>> /\ q[1] = c
        /\ Abstract!IsCanonical(q)
    BY <1>1, SingleText
  <2>2. t \in Seq(Nat) /\ IsWellFormed(t)
    BY <1>1, CharacterUnits
  <2>3. Appended(q)
    <3>1. CASE (lastCC <= CC(c) \/ CC(c) = 0) /\ Push(t, CC(c))
      <4>1. Joined(units', units, t)
        BY <2>2, <3>1, PushShape DEF IInv, NumbersInv
      <4>2. MayFollow(CodePoints(units), q)
        <5>1. CASE CC(c) = 0
          BY <2>1, <5>1 DEF MayFollow
        <5>2. CASE CC(c) # 0
          <6>1. lastCC = ClassAtEnd(units) /\ lastCC <= CC(c)
            BY <3>1, <5>2 DEF Marked
          <6>2. /\ units = <<>> => CodePoints(units) = <<>>
                /\ units # <<>> =>
                     /\ CodePoints(units) # <<>>
                     /\ ClassAtEnd(units) =
                          CC(CodePoints(units)[Len(CodePoints(units))])
            BY LastCharacter DEF IInv, NumbersInv
          <6> HIDE DEF q
          <6> QED BY <2>1, <6>1, <6>2 DEF MayFollow
        <5> QED BY <5>1, <5>2
      <4> HIDE DEF q, t
      <4> QED BY <2>1, <4>1, <4>2, PushAppends
    <3>2. CASE ~(lastCC <= CC(c) \/ CC(c) = 0) /\ Insert(c, CC(c))
      BY <1>1, <3>2, InsertAppends
    <3> QED BY <1>3, <3>1, <3>2 DEF Place
  <2>4. OrderInv'
    <3> HIDE DEF q
    <3> QED BY <2>3 DEF Appended, OrderInv
  <2>5. AbstractStep
    BY <1>3, <2>3, AppendedIsAppend
  <2> QED BY <2>4, <2>5 DEF Implemented
<1> QED BY <1>2, <1>3 DEF PlaceCodePoint

(* The characters of a part of a text are among those of the text.         *)
LEMMA JoinedCharacters ==
  ASSUME NEW e, NEW a, NEW b, Joined(e, a, b),
         \A x \in 1 .. Len(CodePoints(e)) : CodePoints(e)[x] \in Character
  PROVE  \A x \in 1 .. Len(CodePoints(b)) : CodePoints(b)[x] \in Character
<1> DEFINE p  == CodePoints(e)
           pa == CodePoints(a)
           pb == CodePoints(b)
<1>1. e \in Seq(Nat) /\ a \in Seq(Nat) /\ b \in Seq(Nat)
  BY DEF Joined
<1>2. p = pa \o pb
  BY JoinedCodePoints
<1>3. p \in Seq(Int) /\ pa \in Seq(Int) /\ pb \in Seq(Int)
  BY <1>1, CodePointsAtBoundaries
<1>4. \A x \in 1 .. Len(p) : p[x] \in Character
  OBVIOUS
<1> HIDE DEF p, pa, pb
<1>5. \A u, v \in Seq(Int) :
        /\ u \o v \in Seq(Int) /\ Len(u \o v) = Len(u) + Len(v)
        /\ \A i \in 1 .. Len(u) : (u \o v)[i] = u[i]
        /\ \A i \in 1 .. Len(v) : (u \o v)[Len(u) + i] = v[i]
  BY ConcatUnits
<1>6. /\ Len(p) = Len(pa) + Len(pb)
      /\ \A i \in 1 .. Len(pb) : p[Len(pa) + i] = pb[i]
  BY <1>2, <1>3, <1>5, Zenon
<1>7. ASSUME NEW x \in 1 .. Len(pb) PROVE pb[x] \in Character
  <2>1. Len(pa) + x \in 1 .. Len(p)
    BY <1>3, <1>6
  <2>2. p[Len(pa) + x] = pb[x]
    BY <1>6
  <2> QED BY <1>4, <2>1, <2>2
<1> QED BY <1>7 DEF pb

(* What is left of a string when its first character is taken.             *)
LEMMA RestCharacters ==
  ASSUME NEW s \in Seq(CodeUnit), s # <<>>, IsWellFormed(s),
         NEW c, c = CodePointAt(s, 0),
         \A x \in 1 .. Len(CodePoints(s)) : CodePoints(s)[x] \in Character,
         NEW r, r = SubSeq(s, U16_LENGTH(c) + 1, Len(s))
  PROVE  /\ c \in Character /\ ~IsSurrogate(c)
         /\ \A x \in 1 .. Len(CodePoints(r)) : CodePoints(r)[x] \in Character
<1>1. s \in Seq(Nat)
  BY SurrogateLayout DEF CodeUnit
<1>2. /\ ~IsSurrogate(c)
      /\ U16_LENGTH(c) \in 0 .. Len(s) /\ IsBoundary(s, U16_LENGTH(c))
  BY FirstCharacter
<1>3. Joined(s, SubSeq(s, 1, U16_LENGTH(c)), r)
  BY <1>1, <1>2, SplitAtBoundary
<1>4. \A x \in 1 .. Len(CodePoints(r)) : CodePoints(r)[x] \in Character
  BY <1>3, JoinedCharacters
<1>5. c \in Character
  <2> DEFINE p == CodePoints(s)
  <2>1. p[1] = c /\ p # <<>> /\ p \in Seq(Int)
    BY <1>1, LeadCharacter, LastCharacter, CodePointsAtBoundaries
  <2>2. \A x \in 1 .. Len(p) : p[x] \in Character
    OBVIOUS
  <2> HIDE DEF p
  <2>3. 1 \in 1 .. Len(p)
    BY <2>1
  <2> QED BY <2>1, <2>2, <2>3
<1> QED BY <1>2, <1>4, <1>5

(* An append() that puts a text at the end of the buffer's.                *)
LEMMA PushImplements ==
  ASSUME WholeCharacters, IInv, SuffixInv, OrderInv, Idle, UNCHANGED failed,
         UNCHANGED rest, NEW s \in Texts, s # <<>>, InOrder(s), NEW cc, Push(s, cc),
         \/ units = <<>> \/ LeadCC(s) = 0
         \/ ~atBoundary /\ lastCC <= LeadCC(s)
  PROVE  Implemented
<1> DEFINE q == CodePoints(s)
<1>1. /\ s \in Seq(Nat) /\ IsWellFormed(s) /\ q \in Seq(Numbered)
      /\ Abstract!IsCanonical(q)
  BY TextCharacters, TextShape
<1>2. units \in Seq(Nat) /\ IsWellFormed(units) /\ ~failed
  BY DEF IInv, NumbersInv, SuffixInv, TextInv, Idle
<1>3. Joined(units', units, s)
  BY <1>1, <1>2, PushShape
<1>4. q[1] = CodePointAt(s, 0)
  BY <1>1, LeadCharacter
<1>5. MayFollow(CodePoints(units), q)
  <2>1. CASE units = <<>>
    <3>1. CodePoints(units) = <<>>
      BY <1>2, <2>1, LastCharacter
    <3> QED BY <3>1 DEF MayFollow
  <2>2. CASE LeadCC(s) = 0
    BY <1>4, <2>2 DEF MayFollow, LeadCC, CodePointCC
  <2>3. CASE units # <<>> /\ ~atBoundary /\ lastCC <= LeadCC(s)
    <3>1. lastCC = ClassAtEnd(units)
      BY <1>2, <2>3 DEF SuffixInv, Marked
    <3>2. ClassAtEnd(units) = CC(CodePoints(units)[Len(CodePoints(units))])
      BY <1>2, <2>3, LastCharacter
    <3>3. CC(CodePoints(units)[Len(CodePoints(units))]) <= CC(q[1])
      BY <1>4, <2>3, <3>1, <3>2 DEF LeadCC, CodePointCC
    <3> QED BY <3>3 DEF MayFollow
  <2> QED BY <2>1, <2>2, <2>3
<1>6. q \in CharacterTexts
  BY DEF CharacterTexts
<1> HIDE DEF q
<1>7. Appended(q)
  BY <1>1, <1>3, <1>5, PushAppends DEF q
<1>8. OrderInv'
  BY <1>7 DEF Appended, OrderInv
<1>9. AbstractStep
  BY <1>1, <1>2, <1>6, <1>7, AppendedIsAppend
<1> QED BY <1>8, <1>9 DEF Implemented

(* append() of a code point is a step of CanonicalText.                    *)
LEMMA AppendCodePointImplements ==
  ASSUME WholeCharacters, IInv, SuffixInv, OrderInv,
         NEW c \in CodePoint, AppendCodePoint(c)
  PROVE  Implemented
<1>1. /\ ~failed /\ (atBoundary => CC(c) = 0) /\ PlaceCodePoint(c) /\ rest' = rest
  BY DEF AppendCodePoint, Idle, MayContinueWith
<1>2. c \in Character /\ ~IsSurrogate(c)
  BY DEF Character, WholeCharacters
<1>3. IsWellFormed(units) /\ (~atBoundary => Marked(units, reorderStart, lastCC))
  BY <1>1 DEF SuffixInv, TextInv
<1>4. \A x \in 1 .. Len(CodePoints(rest')) : CodePoints(rest')[x] \in Character
  BY <1>1 DEF OrderInv
<1> QED BY <1>1, <1>2, <1>3, <1>4, PlaceImplements

(* So is append() of a text whose marks come in order,                     *)
LEMMA AppendInOrderImplements ==
  ASSUME WholeCharacters, IInv, SuffixInv, OrderInv,
         NEW s \in Texts, AppendInOrder(s)
  PROVE  Implemented
<1>1. /\ Idle /\ s # <<>> /\ InOrder(s) /\ (atBoundary => LeadCC(s) = 0)
      /\ lastCC <= LeadCC(s) \/ LeadCC(s) = 0
      /\ rest' = rest
  BY DEF AppendInOrder, MayContinueWith
<1>2. CASE failed' = TRUE /\ units' = units
  BY <1>1, <1>2, OutOfMemoryIsFail DEF OrderInv, IInv, FlagsInv
<1>3. CASE Push(s, TrailCC(s)) /\ UNCHANGED failed
  BY <1>1, <1>3, PushImplements
<1> QED BY <1>2, <1>3 DEF AppendInOrder, OutOfMemory

(* and appendZeroCC().                                                     *)
LEMMA AppendZeroCCImplements ==
  ASSUME WholeCharacters, IInv, SuffixInv, OrderInv,
         NEW s \in Texts, AppendZeroCC(s)
  PROVE  Implemented
<1>1. /\ Idle /\ s # <<>> /\ InOrder(s) /\ rest' = rest
      /\ LeadCC(s) = 0 \/ units = <<>>
  BY DEF AppendZeroCC
<1>2. CASE failed' = TRUE /\ units' = units
  BY <1>1, <1>2, OutOfMemoryIsFail DEF OrderInv, IInv, FlagsInv
<1>3. CASE Push(s, 0) /\ UNCHANGED failed
  BY <1>1, <1>3, PushImplements
<1> QED BY <1>2, <1>3 DEF AppendZeroCC, OutOfMemory

(* Of a text that has to be reordered this step appends one character.     *)
LEMMA AppendReorderedImplements ==
  ASSUME WholeCharacters, IInv, SuffixInv, OrderInv,
         NEW s \in Texts, AppendReordered(s)
  PROVE  Implemented
<1> DEFINE c == CodePointAt(s, 0)
           q == <<c>>
<1>1. /\ Idle /\ s # <<>> /\ (atBoundary => LeadCC(s) = 0)
      /\ ~(lastCC <= LeadCC(s) \/ LeadCC(s) = 0)
  BY DEF AppendReordered, MayContinueWith
<1>2. s \in Seq(CodeUnit) /\ s \in Seq(Nat) /\ IsWellFormed(s)
  BY <1>1, TextType DEF WholeCharacters
<1>3. \A x \in 1 .. Len(CodePoints(s)) : CodePoints(s)[x] \in Character
  BY TextCharacters
<1>4. CASE failed' = TRUE /\ units' = units /\ rest' = rest
  BY <1>4, OutOfMemoryIsFail DEF OrderInv, IInv, FlagsInv
<1>5. CASE /\ Insert(c, LeadCC(s)) /\ UNCHANGED failed
           /\ rest' = SubSeq(s, U16_LENGTH(c) + 1, Len(s))
  <2>1. /\ c \in Character /\ ~IsSurrogate(c)
        /\ \A x \in 1 .. Len(CodePoints(rest')) : CodePoints(rest')[x] \in Character
    BY <1>1, <1>2, <1>3, <1>5, RestCharacters
  <2>2. c \in 0 .. MaxCodePoint
    BY <2>1, CharacterIsNumber DEF Numbered
  <2>3. LeadCC(s) = CC(c)
    BY DEF LeadCC, CodePointCC
  <2>4. /\ ~failed /\ ~atBoundary /\ IsWellFormed(units)
        /\ Marked(units, reorderStart, lastCC)
    BY <1>1 DEF Idle, SuffixInv, TextInv
  <2> HIDE DEF c
  <2>5. Appended(q)
    BY <1>1, <1>5, <2>1, <2>2, <2>3, <2>4, InsertAppends
  <2>6. OrderInv'
    <3> HIDE DEF q
    <3> QED BY <2>1, <2>5 DEF Appended, OrderInv
  <2>7. AbstractStep
    BY <1>5, <2>1, <2>4, <2>5, AppendedIsAppend
  <2> QED BY <2>6, <2>7 DEF Implemented
<1> QED BY <1>4, <1>5 DEF AppendReordered, OutOfMemory

(* After a failure the loop goes on, and nothing is seen of it.            *)
LEMMA AppendNextImplements ==
  ASSUME IInv, SuffixInv, FailureInv, OrderInv, AppendNext,
         failed => UNCHANGED units
  PROVE  Implemented
<1> DEFINE c == CodePointAt(rest, 0)
<1>1. /\ rest # <<>> /\ PlaceCodePoint(c)
      /\ rest' = SubSeq(rest, U16_LENGTH(c) + 1, Len(rest))
  BY DEF AppendNext
<1>2. /\ rest \in Seq(CodeUnit) /\ IsWellFormed(rest)
      /\ ~atBoundary /\ IsWellFormed(units)
      /\ ~failed /\ ~atBoundary => Marked(units, reorderStart, lastCC)
  BY <1>1 DEF IInv, NumbersInv, SuffixInv, TextInv
<1>3. /\ c \in Character /\ ~IsSurrogate(c)
      /\ \A x \in 1 .. Len(CodePoints(rest')) : CodePoints(rest')[x] \in Character
  <2>1. \A x \in 1 .. Len(CodePoints(rest)) : CodePoints(rest)[x] \in Character
    BY DEF OrderInv
  <2> QED BY <1>1, <1>2, <2>1, RestCharacters
<1> HIDE DEF c
<1>4. CASE failed
  <2>1. failed' = TRUE
    BY <1>1, <1>4 DEF PlaceCodePoint, OutOfMemory
  <2> QED BY <1>3, <1>4, <2>1, OutOfMemoryIsFail
<1>5. CASE ~failed
  BY <1>1, <1>2, <1>3, <1>5, PlaceImplements
<1> QED BY <1>4, <1>5

(* The front of two sequences, one behind the other, is the first.         *)
LEMMA FrontOfConcat ==
  ASSUME NEW S, NEW p \in Seq(S), NEW q \in Seq(S)
  PROVE  SubSeq(p \o q, 1, Len(p)) = p
<1> DEFINE e == p \o q
           f == SubSeq(e, 1, Len(p))
<1>1. /\ e \in Seq(S) /\ Len(e) = Len(p) + Len(q)
      /\ \A i \in 1 .. Len(p) : e[i] = p[i]
  BY ConcatUnits
<1> HIDE DEF e
<1>2. Len(p) \in Nat /\ Len(q) \in Nat /\ Len(p) <= Len(e)
  BY <1>1
<1>3. f \in Seq(S) /\ Len(f) = Len(p) /\ \A i \in 1 .. Len(p) : f[i] = e[i]
  BY <1>1, <1>2
<1> HIDE DEF f
<1>4. f = p
  BY <1>1, <1>3, SeqEqual
<1> QED BY <1>4 DEF f, e

(* What cuts the text at a boundary cuts off characters.                   *)
LEMMA ShortenImplements ==
  ASSUME IInv, OrderInv, NEW length \in 0 .. Len(units), NEW remaining,
         IsBoundary(units, length), Shorten(length, remaining)
  PROVE  Implemented
<1> DEFINE p == CodePoints(units)
           front == CodePoints(units')
           b == SubSeq(units, length + 1, Len(units))
           q == CodePoints(b)
<1>1. /\ ~failed /\ UNCHANGED failed /\ rest' = rest
      /\ units' = SubSeq(units, 1, length) /\ units \in Seq(Nat)
  BY DEF Shorten, Idle, IInv, NumbersInv
<1>2. Joined(units, units', b)
  BY <1>1, SplitAtBoundary
<1>3. units' \in Seq(Nat) /\ b \in Seq(Nat)
  BY <1>2 DEF Joined
<1> HIDE DEF b
<1>4. p = front \o q
  BY <1>2, JoinedCodePoints
<1>5. front \in Seq(Int) /\ q \in Seq(Int)
  BY <1>3, CodePointsAtBoundaries
<1>6. p \in Seq(Numbered) /\ Abstract!IsCanonical(p)
  BY DEF OrderInv
<1> HIDE DEF p, front, q
<1>7. /\ Len(p) = Len(front) + Len(q)
      /\ \A i \in 1 .. Len(front) : p[i] = front[i]
      /\ \A i \in 1 .. Len(q) : p[Len(front) + i] = q[i]
  <2>1. \A u, v \in Seq(Int) :
          /\ u \o v \in Seq(Int) /\ Len(u \o v) = Len(u) + Len(v)
          /\ \A i \in 1 .. Len(u) : (u \o v)[i] = u[i]
          /\ \A i \in 1 .. Len(v) : (u \o v)[Len(u) + i] = v[i]
    BY ConcatUnits
  <2> QED BY <1>4, <1>5, <2>1, Zenon
<1>8. front \in Seq(Numbered) /\ q \in Seq(Numbered)
  <2>1. \A i \in 1 .. Len(p) : p[i] \in Numbered
    BY <1>6
  <2>2. \A i \in 1 .. Len(front) : front[i] \in Numbered
    <3>1. \A i \in 1 .. Len(front) : i \in 1 .. Len(p)
      BY <1>5, <1>7
    <3> QED BY <1>7, <2>1, <3>1
  <2>3. \A i \in 1 .. Len(q) : q[i] \in Numbered
    <3>1. \A i \in 1 .. Len(q) : Len(front) + i \in 1 .. Len(p)
      BY <1>5, <1>7
    <3> QED BY <1>7, <2>1, <3>1
  <2> QED BY <1>5, <2>2, <2>3, SMTT(30)
<1>9. Abstract!IsCanonical(front)
  BY <1>4, <1>6, <1>8, ConcatCanonical
<1>10. OrderInv'
  BY <1>1, <1>8, <1>9 DEF OrderInv, front
<1>11. front = SubSeq(p, 1, Len(front)) /\ Len(front) \in 0 .. Len(p)
  <2>1. Len(front) \in Nat /\ Len(q) \in Nat
    BY <1>5
  <2>2. Len(front) \in 0 .. Len(p)
    BY <1>7, <2>1
  <2>3. SubSeq(front \o q, 1, Len(front)) = front
    BY <1>5, FrontOfConcat
  <2> QED BY <1>4, <2>2, <2>3
<1>12. Abstract!Cut(Len(front))
  BY <1>1, <1>11, Zenon DEF Abstract!Cut, p, front
<1>13. AbstractStep
  BY <1>11, <1>12, Zenon DEF AbstractStep, Abstract!Next, p
<1> QED BY <1>10, <1>13 DEF Implemented

(* The empty buffer is the empty text.                                     *)
LEMMA InitImplements ==
  ASSUME Init
  PROVE  OrderInv /\ Abstract!Init
<1>1. units \in Texts \cup {<<>>} /\ InOrder(units) /\ rest = <<>> /\ failed = FALSE
  BY DEF Init
<1>2. CodePoints(units) \in CharacterTexts
  BY <1>1 DEF CharacterTexts
<1>3. /\ units = <<>> => CodePoints(units) = <<>>
      /\ CodePoints(rest) = <<>>
  BY <1>1, InitInv, LastCharacter DEF IInv, NumbersInv
<1>4. CodePoints(units) \in Seq(Numbered)
  <2>1. CASE units \in Texts
    BY <2>1, TextCharacters
  <2>2. CASE units = <<>>
    <3>1. CodePoints(units) = <<>>
      BY <1>3, <2>2
    <3> QED BY <3>1
  <2> QED BY <1>1, <2>1, <2>2
<1>5. Abstract!IsCanonical(CodePoints(units))
  BY <1>1, Zenon DEF Abstract!IsCanonical, InOrder
<1>6. OrderInv
  BY <1>1, <1>3, <1>4, <1>5 DEF OrderInv
<1>7. Abstract!Init
  BY <1>1, <1>2, <1>5, Zenon DEF Abstract!Init
<1> QED BY <1>6, <1>7

(* Every step of the buffer is one of CanonicalText.                       *)
LEMMA StepImplements ==
  ASSUME WholeCharacters, LeadingMarksAreBMP,
         IInv, SuffixInv, FailureInv, OrderInv, [Next]_vars
  PROVE  Implemented
<1>1. CASE UNCHANGED vars
  <2>1. units' = units /\ rest' = rest /\ failed' = failed
    BY <1>1 DEF vars
  <2>2. OrderInv'
    BY <2>1 DEF OrderInv
  <2>3. CodePoints(units)' = CodePoints(units)
    BY <2>1
  <2>4. AbstractStep
    BY <2>1, <2>3, Zenon DEF AbstractStep
  <2> QED BY <2>2, <2>4 DEF Implemented
<1>2. ASSUME NEW c \in CodePoint, AppendCodePoint(c) PROVE Implemented
  BY <1>2, AppendCodePointImplements
<1>3. ASSUME NEW s \in Texts, AppendInOrder(s) \/ AppendReordered(s) \/ AppendZeroCC(s)
      PROVE  Implemented
  BY <1>3, AppendInOrderImplements, AppendReorderedImplements, AppendZeroCCImplements
<1>4. CASE AppendNext
  BY <1>4, FailureStep, AppendNextImplements
<1>5. units \in Seq(Nat) /\ 0 \in 0 .. Len(units) /\ IsBoundary(units, 0)
  BY EndsAreBoundaries DEF IInv, NumbersInv
<1>6. CASE Remove
  BY <1>5, <1>6, ShortenImplements DEF Remove
<1>7. ASSUME NEW suffixLength \in 0 .. MaxLength, RemoveSuffix(suffixLength)
      PROVE  Implemented
  <2>1. CASE suffixLength < Len(units)
    <3>1. Len(units) - suffixLength \in 0 .. Len(units)
      BY <1>5, <2>1, BufferConstants
    <3> QED BY <1>7, <2>1, <3>1, ShortenImplements DEF RemoveSuffix
  <2>2. CASE ~(suffixLength < Len(units))
    BY <1>5, <1>7, <2>2, ShortenImplements DEF RemoveSuffix
  <2> QED BY <2>1, <2>2
<1>8. ASSUME NEW newLimit \in 0 .. Len(units), SetReorderingLimit(newLimit)
      PROVE  Implemented
  BY <1>8, ShortenImplements DEF SetReorderingLimit
<1> QED BY <1>1, <1>2, <1>3, <1>4, <1>6, <1>7, <1>8 DEF Next

(* The buffer implements CanonicalText: whatever is appended to it, and at *)
(* every step of a string that is reordered, its text is the canonical     *)
(* order of what has been appended, until a resize fails.                  *)
THEOREM BufferKeepsCanonicalOrder ==
  ASSUME WholeCharacters, LeadingMarksAreBMP
  PROVE  Spec => KeepsCanonicalOrder
<1> DEFINE Inv == IInv /\ SuffixInv /\ FailureInv /\ OrderInv
<1>1. Init => Inv /\ Abstract!Init
  <2>1. Init => FailureInv
    BY DEF Init, FailureInv
  <2> QED BY <2>1, InitInv, InitMarks, InitImplements
<1>2. Inv /\ [Next]_vars => Inv' /\ [Abstract!Next]_<<CodePoints(units), failed>>
  BY StepInv, StepMarks, FailureStep, StepImplements
     DEF Implemented, AbstractStep
<1>3. Spec => Abstract!Init /\ [][Abstract!Next]_<<CodePoints(units), failed>>
  BY <1>1, <1>2, PTL DEF Spec
<1> QED BY <1>3 DEF KeepsCanonicalOrder, Abstract!Spec
=============================================================================
