-------------------------- MODULE ReorderingBuffer --------------------------
(***************************************************************************)
(* The ReorderingBuffer of u_edits.cc: the normalizer's output, in UTF-16, *)
(* kept in canonical order while it is written into the array of a         *)
(* UnicodeString.  Pointers are indexes into the array: start is 0, limit  *)
(* is Len(units).  An operation is one action; only the loop of append()   *)
(* over a string that has to be reordered is a step per character, because *)
(* each of them may resize the array on its own.                           *)
(*                                                                         *)
(* The buffer does not see whole texts: after appendZeroCC(), remove-      *)
(* Suffix() and setReorderingLimit() it assumes that what comes next is a  *)
(* character of class 0.  atBoundary is that obligation of the caller.     *)
(***************************************************************************)
EXTENDS UTF16

CONSTANTS
  CC(_),        (* getCC(): the combining class of a code point            *)
  CodePoint,    (* the code points that are appended one by one            *)
  Texts,        (* the texts, as sequences of code units, that are         *)
                (* appended or that the string already holds               *)
  GrowMinimum,  (* resize() asks for no less: 256 in the code              *)
  Slack,        (* how much more than asked for getBuffer() may give       *)
  MaxLength,    (* bound: the code units of a buffer                       *)
  MaxCapacity   (* bound: the capacity up to which it is resized           *)

ASSUME BufferConstants ==
  /\ \A c \in 0 .. MaxCodePoint : CC(c) \in Nat
  /\ CodePoint \subseteq 0 .. MaxCodePoint
  /\ Texts \subseteq Seq(0 .. FirstSupplementary - 1)
  /\ GrowMinimum \in Nat /\ Slack \subseteq Nat
  /\ MaxLength \in Nat /\ MaxCapacity \in Nat

VARIABLES
  units,              (* the code units from start to limit                *)
  reorderStart,       (* nothing is inserted before this index             *)
  lastCC,
  capacity,           (* of the string's array                             *)
  remainingCapacity,
  rest,               (* what append() of a string has still to insert     *)
  atBoundary,
  failed              (* *errorCode is U_MEMORY_ALLOCATION_ERROR           *)

vars == <<units, reorderStart, lastCC, capacity, remainingCapacity, rest,
          atBoundary, failed>>

-----------------------------------------------------------------------------
(* The backward iterator.  The code point that ends at index i begins at   *)
(* PreviousStart(i); its class is not looked at before reorderStart.       *)
PreviousStart(i) == IF i >= 2 /\ StartsPair(units, i - 2) THEN i - 2 ELSE i - 1

PreviousCC(i) ==
  IF reorderStart >= i THEN 0 ELSE CC(CodePointAt(units, PreviousStart(i)))

(* Mutant: the code points of the same class are skipped, too.             *)
InsertionPointBeforeEquals(cc) ==
  LET at == {i \in 0 .. PreviousStart(Len(units)) :
               IsBoundary(units, i) /\ (i = 0 \/ PreviousCC(i) < cc)}
  IN  CHOOSE i \in at : \A x \in at : x <= i

(* insert(): skip the last code point, then those of a higher class.       *)
InsertionPoint(cc) ==
  LET at == {i \in 0 .. PreviousStart(Len(units)) :
               IsBoundary(units, i) /\ PreviousCC(i) <= cc}
  IN  CHOOSE i \in at : \A x \in at : x <= i

CodePointCC(s, i) == CC(CodePointAt(s, i))
LeadCC(s)  == CodePointCC(s, 0)
TrailCC(s) ==
  CodePointCC(s, IF Len(s) >= 2 /\ StartsPair(s, Len(s) - 2) THEN Len(s) - 2
                                                              ELSE Len(s) - 1)

(* A text whose code points are in canonical order.                        *)
InOrder(s) ==
  LET c == CodePoints(s)
  IN  \A x \in 1 .. Len(c) - 1 : CC(c[x + 1]) = 0 \/ CC(c[x]) <= CC(c[x + 1])

-----------------------------------------------------------------------------
(* resize() asks for at least twice the capacity.                          *)
NewCapacity(appendLength) ==
  LET asked == {Len(units) + appendLength, 2 * capacity, GrowMinimum}
  IN  CHOOSE a \in asked : \A b \in asked : b <= a

(* Take `taken` units of the array, resized first if it lacks room.  After *)
(* a resize has failed the string is bogus, and all further ones fail.     *)
Take(lacks, appendLength, taken) ==
  IF lacks
  THEN \E extra \in Slack :
         /\ ~failed
         /\ capacity' = NewCapacity(appendLength) + extra
         /\ capacity' <= MaxCapacity
         /\ remainingCapacity' = capacity' - Len(units) - taken
  ELSE /\ remainingCapacity' = remainingCapacity - taken
       /\ UNCHANGED capacity

(* Mutant: the new room is accounted for before the allocation is checked. *)
OutOfMemoryAfterAccounting(lacks) ==
  /\ lacks
  /\ failed' = TRUE
  /\ remainingCapacity' = NewCapacity(1) - Len(units)
  /\ UNCHANGED <<units, reorderStart, lastCC, capacity>>

(* The resize fails: start is NULL and nothing is written.                 *)
OutOfMemory(lacks) ==
  /\ lacks
  /\ failed' = TRUE
  /\ UNCHANGED <<units, reorderStart, lastCC, capacity, remainingCapacity>>

(* Mutant: appendSupplementary() tests for 0 as appendBMP() does.          *)
LacksAnyRoom(c) == remainingCapacity = 0

LacksRoomFor(c) ==
  IF U16_LENGTH(c) = 1 THEN remainingCapacity = 0 ELSE remainingCapacity < 2

(* limit[] = t, where cc is the class of its last code point.              *)
Push(t, cc) ==
  /\ units' = units \o t
  /\ lastCC' = cc

(* Mutant: lastCC becomes the class of what was inserted.                  *)
InsertSetsLastCC(c, cc) ==
  LET at == InsertionPoint(cc)
  IN  /\ units' = SubSeq(units, 1, at) \o CodeUnits(c)
                    \o SubSeq(units, at + 1, Len(units))
      /\ reorderStart' = IF cc <= 1 THEN at + U16_LENGTH(c) ELSE reorderStart
      /\ lastCC' = cc

Insert(c, cc) ==
  LET at == InsertionPoint(cc)
  IN  /\ units' = SubSeq(units, 1, at) \o CodeUnits(c)
                    \o SubSeq(units, at + 1, Len(units))
      /\ reorderStart' = IF cc <= 1 THEN at + U16_LENGTH(c) ELSE reorderStart
      /\ UNCHANGED lastCC

(* appendBMP() and appendSupplementary(), once there is room.              *)
Place(c, cc) ==
  IF lastCC <= cc \/ cc = 0
  THEN /\ Push(CodeUnits(c), cc)
       /\ reorderStart' = IF cc <= 1 THEN Len(units') ELSE reorderStart
  ELSE Insert(c, cc)

PlaceCodePoint(c) ==
  \/ /\ Take(LacksRoomFor(c), U16_LENGTH(c), U16_LENGTH(c))
     /\ Place(c, CC(c))
     /\ UNCHANGED failed
  \/ OutOfMemory(LacksRoomFor(c))

-----------------------------------------------------------------------------
(* The buffer is opened on a string that may hold text already.            *)
Init ==
  /\ units \in {t \in Texts \cup {<<>>} : InOrder(t)}
  /\ \E extra \in Slack : capacity = Len(units) + extra
  /\ remainingCapacity = capacity - Len(units)
  /\ LET last == {i \in 0 .. Len(units) :
                    /\ IsBoundary(units, i)
                    /\ i > 0 => CodePointCC(units, PreviousStart(i)) <= 1}
     IN  reorderStart = CHOOSE i \in last : \A x \in last : x <= i
  /\ lastCC = IF units = <<>> THEN 0 ELSE TrailCC(units)
  /\ rest = <<>> /\ atBoundary = FALSE /\ failed = FALSE

Idle == rest = <<>> /\ ~failed

MayContinueWith(cc) == atBoundary => cc = 0

AppendCodePoint(c) ==
  /\ Idle /\ MayContinueWith(CC(c))
  /\ Len(units) + U16_LENGTH(c) <= MaxLength
  /\ PlaceCodePoint(c)
  /\ atBoundary' = FALSE
  /\ UNCHANGED rest

(* append() of a mapping that continues the text: it is copied.  The limit *)
(* behind its first unit may lie inside a pair.                            *)
AppendInOrder(s) ==
  /\ Idle /\ s # <<>> /\ InOrder(s) /\ MayContinueWith(LeadCC(s))
  /\ Len(units) + Len(s) <= MaxLength
  /\ lastCC <= LeadCC(s) \/ LeadCC(s) = 0
  /\ \/ /\ Take(remainingCapacity < Len(s), Len(s), Len(s))
        /\ Push(s, TrailCC(s))
        /\ reorderStart' =
             IF TrailCC(s) <= 1 THEN Len(units) + Len(s)
             ELSE IF LeadCC(s) <= 1 THEN Len(units) + 1 ELSE reorderStart
        /\ UNCHANGED failed
     \/ OutOfMemory(remainingCapacity < Len(s))
  /\ atBoundary' = FALSE
  /\ UNCHANGED rest

(* append() of one that does not: room is taken for all of it and its      *)
(* first code point inserted; each of the others is appended, and takes    *)
(* its room a second time.                                                 *)
AppendReordered(s) ==
  /\ Idle /\ s # <<>> /\ InOrder(s) /\ MayContinueWith(LeadCC(s))
  /\ Len(units) + Len(s) <= MaxLength
  /\ ~(lastCC <= LeadCC(s) \/ LeadCC(s) = 0)
  /\ \/ /\ Take(remainingCapacity < Len(s), Len(s), Len(s))
        /\ Insert(CodePointAt(s, 0), LeadCC(s))
        /\ rest' = SubSeq(s, U16_LENGTH(CodePointAt(s, 0)) + 1, Len(s))
        /\ UNCHANGED failed
     \/ OutOfMemory(remainingCapacity < Len(s)) /\ UNCHANGED rest
  /\ UNCHANGED atBoundary

(* The loop ignores what append() returns: after a failure it goes on.     *)
AppendNext ==
  LET c == CodePointAt(rest, 0)
  IN  /\ rest # <<>>
      /\ PlaceCodePoint(c)
      /\ rest' = SubSeq(rest, U16_LENGTH(c) + 1, Len(rest))
      /\ UNCHANGED atBoundary

(* Both appendZeroCC(): a text that ends before a boundary.                *)
AppendZeroCC(s) ==
  /\ Idle /\ s # <<>> /\ InOrder(s)
  /\ LeadCC(s) = 0 \/ units = <<>>
  /\ Len(units) + Len(s) <= MaxLength
  /\ \/ /\ Take(remainingCapacity < Len(s), Len(s), Len(s))
        /\ Push(s, 0)
        /\ reorderStart' = Len(units')
        /\ atBoundary' = (TrailCC(s) # 0)
        /\ UNCHANGED failed
     \/ OutOfMemory(remainingCapacity < Len(s)) /\ UNCHANGED atBoundary
  /\ UNCHANGED rest

(* What shortens the text: everything is before the limit then.            *)
Shorten(length, remaining) ==
  /\ Idle
  /\ units' = SubSeq(units, 1, length)
  /\ remainingCapacity' = remaining
  /\ lastCC' = 0 /\ reorderStart' = length
  /\ atBoundary' = TRUE
  /\ UNCHANGED <<capacity, rest, failed>>

Remove == Shorten(0, capacity)

(* Mutant: a suffix longer than the text is not clamped to it.             *)
RemoveSuffixUnclamped(suffixLength) ==
  /\ IsBoundary(units, Len(units) - suffixLength)
  /\ Shorten(Len(units) - suffixLength, remainingCapacity + suffixLength)

(* Both callers cut at a code point boundary.                              *)
RemoveSuffix(suffixLength) ==
  IF suffixLength < Len(units)
  THEN /\ IsBoundary(units, Len(units) - suffixLength)
       /\ Shorten(Len(units) - suffixLength, remainingCapacity + suffixLength)
  ELSE Shorten(0, capacity)

SetReorderingLimit(newLimit) ==
  /\ IsBoundary(units, newLimit)
  /\ Shorten(newLimit, remainingCapacity + (Len(units) - newLimit))

Next ==
  \/ \E c \in CodePoint : AppendCodePoint(c)
  \/ \E s \in Texts : AppendInOrder(s) \/ AppendReordered(s) \/ AppendZeroCC(s)
  \/ AppendNext
  \/ Remove
  \/ \E suffixLength \in 0 .. MaxLength : RemoveSuffix(suffixLength)
  \/ \E newLimit \in 0 .. Len(units) : SetReorderingLimit(newLimit)

Spec == Init /\ [][Next]_vars

-----------------------------------------------------------------------------
(* Type invariant: reorderStart is always an index of the text, whatever   *)
(* the buffer was cut to.                                                  *)
BufferTypeOK ==
  /\ units \in Seq(Nat) /\ rest \in Seq(Nat)
  /\ reorderStart \in 0 .. Len(units)
  /\ lastCC \in Nat
  /\ capacity \in Nat /\ remainingCapacity \in Int
  /\ atBoundary \in BOOLEAN /\ failed \in BOOLEAN

(* No operation writes behind the array: what remains is never negative    *)
(* and never more than there is, although a reordered string is counted    *)
(* twice and appendBMP() only tests for 0.                                 *)
CapacityAccounting ==
  /\ 0 <= remainingCapacity
  /\ remainingCapacity <= capacity - Len(units)

(* lastCC and reorderStart describe the text although most operations set  *)
(* them from what their caller says: lastCC is the class of the last code  *)
(* point, and from reorderStart on, where insert() may look, only marks    *)
(* and later characters of class 0 follow one of a class of at most 1.     *)
SuffixIsReorderable ==
  ~failed /\ ~atBoundary /\ rest = <<>> =>
    /\ lastCC = IF units = <<>> THEN 0 ELSE TrailCC(units)
    /\ reorderStart > 0 =>
         \E i \in {reorderStart, reorderStart + 1} :
           IsBoundary(units, i) /\ CodePointCC(units, PreviousStart(i)) <= 1
    /\ lastCC <= 1 => reorderStart = Len(units)

(* After a failed resize the array is gone.  The loop over a string goes   *)
(* on, and only a remainingCapacity of 0 keeps it from writing.            *)
NothingWrittenAfterFailure == [][failed => UNCHANGED units]_vars

-----------------------------------------------------------------------------
Character ==
  CodePoint \cup UNION {{CodePoints(s)[x] : x \in DOMAIN CodePoints(s)} : s \in Texts}

CharacterTexts == {CodePoints(s) : s \in Texts \cup {<<>>}}

Abstract == INSTANCE CanonicalText WITH
  text <- CodePoints(units), CodePoint <- Character, Texts <- CharacterTexts

(* The buffer keeps what CanonicalText promises: at every moment, between  *)
(* the insertions of a string too, its text is the canonical order of what *)
(* has been appended.                                                      *)
KeepsCanonicalOrder == Abstract!Spec
=============================================================================
