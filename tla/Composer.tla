------------------------------ MODULE Composer ------------------------------
(***************************************************************************)
(* The normalizer of u_norm2.cc: compose() reads a text once and writes it *)
(* normalized into a ReorderingBuffer.  Most of a text is copied; around a *)
(* character that needs more, a segment between two boundaries is          *)
(* decomposed into the buffer and composed there.  An iteration of the     *)
(* outer loop is an action.  Three functions use it: normalize(),          *)
(* normalizeSecondAndAppend(), and isNormalized(), which only compares.    *)
(*                                                                         *)
(* A text is a sequence of code points, an index counts from 0: the        *)
(* iteration over code units is in UTF16, the array behind the buffer in   *)
(* ReorderingBuffer.  Everything about a character comes from the data     *)
(* file, NormalizationData; what Unicode says of it, the constants of      *)
(* Normalization, is only for the properties.                              *)
(***************************************************************************)
EXTENDS Normalization, NormalizationData

CONSTANTS
  Calls,            (* the calls that are made                             *)
  MaxDifference     (* INT32_MAX in the code                               *)

Take(s, n) == SubSeq(s, 1, n)
Drop(s, n) == SubSeq(s, n + 1, Len(s))

Bogus == <<None>>   (* a string without a value *)

VARIABLES
  call,          (* the function, its strings, the error it was given      *)
  pc,
  text,          (* what compose() reads, from src on                      *)
  src,
  prevBoundary,
  later,         (* what is composed after it                              *)
  buffer,
  safeMiddle,    (* the suffix taken from the first string                 *)
  errorCode,
  result         (* what the function returns, or leaves in its string     *)

vars == <<call, pc, text, src, prevBoundary, later, buffer, safeMiddle,
          errorCode, result>>

doCompose == call.op # "isNormalized"

-----------------------------------------------------------------------------
(* Boundaries and Jamos.  The fast path looks up a code unit first, for a  *)
(* lead surrogate the value of all characters that begin with it.          *)
Passes(c) ==
  \/ IsLead(c)
  \/ isCompYesAndZeroCC(getRawNorm16(c))
  \/ U16_LENGTH(c) = 2 /\ isCompYesAndZeroCC(getRawNorm16(U16_LEAD(c)))

HasBoundaryBefore(s, i) == i < Len(s) => hasCompBoundaryBefore(s[i + 1])

NextBoundary(s, i) ==
  Min({x \in i .. Len(s) :
         HasBoundaryBefore(s, x) \/ (x > i /\ hasCompBoundaryAfter(s[x]))})

PreviousBoundary(s) ==
  Max({x \in 0 .. Len(s) :
         \/ x = 0
         \/ hasCompBoundaryAfter(s[x])
         \/ x < Len(s) /\ hasCompBoundaryBefore(s[x + 1])})

HangulBase == 44032
JamoLBase  == 4352
JamoVBase  == 4449
JamoTBase  == 4519
JamoLCount == 19
JamoVCount == 21
JamoTCount == 28

IsJamoL(c)    == c - JamoLBase \in 0 .. JamoLCount - 1
IsHangulLV(c) == /\ c - HangulBase \in 0 .. JamoLCount * JamoVCount * JamoTCount - 1
                 /\ (c - HangulBase) % JamoTCount = 0

Syllable(l, v) ==
  HangulBase + ((l - JamoLBase) * JamoVCount + (v - JamoVBase)) * JamoTCount

-----------------------------------------------------------------------------
(* The buffer.                                                             *)
EmptyBuffer == [text |-> <<>>, reorderStart |-> 0, lastCC |-> 0]

(* Mutant: lastCC becomes the class of what was inserted.                  *)
InsertedSetsLastCC(b, c, cc) ==
  LET at == Max({b.reorderStart} \cup
                {x \in b.reorderStart + 1 .. Len(b.text) :
                   getCCFromYesOrMaybeCP(b.text[x]) <= cc})
  IN  [text         |-> InsertAt(b.text, at + 1, c),
       reorderStart |-> b.reorderStart,
       lastCC       |-> cc]

Inserted(b, c, cc) ==
  LET at == Max({b.reorderStart} \cup
                {x \in b.reorderStart + 1 .. Len(b.text) :
                   getCCFromYesOrMaybeCP(b.text[x]) <= cc})
  IN  [b EXCEPT !.text = InsertAt(b.text, at + 1, c),
                !.reorderStart = IF cc <= 1 THEN at + 1 ELSE b.reorderStart]

(* A text in order, with the classes of its first and last character, goes *)
(* behind the buffer's when the first may stand there, else each by itself.*)
InOrderBehind(b, d) == b.lastCC <= d.leadCC \/ d.leadCC = 0

Pushed(b, d) ==
  [text         |-> b.text \o d.text,
   reorderStart |-> IF d.trailCC <= 1 THEN Len(b.text) + Len(d.text)
                    ELSE IF d.leadCC <= 1 THEN Len(b.text) + 1
                    ELSE b.reorderStart,
   lastCC       |-> d.trailCC]

Character(c, cc) == [text |-> <<c>>, leadCC |-> cc, trailCC |-> cc]

AppendedCharacter(b, c, cc) ==
  IF InOrderBehind(b, Character(c, cc)) THEN Pushed(b, Character(c, cc))
                                        ELSE Inserted(b, c, cc)

Appended(b, d) ==
  IF d.text = <<>> THEN b
  ELSE IF InOrderBehind(b, d) THEN Pushed(b, d)
  ELSE LET cc(x) == IF x = Len(d.text) THEN d.trailCC
                    ELSE getCCFromYesOrMaybe(getRawNorm16(d.text[x]))
       IN  FoldLeft(LAMBDA e, x : AppendedCharacter(e, d.text[x], cc(x)),
                    Inserted(b, d.text[1], d.leadCC),
                    [x \in 1 .. Len(d.text) - 1 |-> x + 1])

(* removeSuffix() and setReorderingLimit() make the rest final.            *)
Fixed(s) == [text |-> s, reorderStart |-> Len(s), lastCC |-> 0]

(* appendZeroCC().                                                         *)
Copied(b, s) == IF s = <<>> THEN b ELSE Fixed(b.text \o s)

(* The buffer opens on a string that holds text.                           *)
OpenedOn(s) ==
  [text         |-> s,
   reorderStart |-> Max({0} \cup {x \in DOMAIN s : getCCFromYesOrMaybeCP(s[x]) <= 1}),
   lastCC       |-> IF s = <<>> THEN 0 ELSE getCCFromYesOrMaybeCP(Last(s))]

Decomposed(b, s) ==
  FoldLeft(LAMBDA d, c : Appended(d, Decomposition(c, Norm16(c))), b, s)

-----------------------------------------------------------------------------
(* recompose(): one character of a text in canonical order.  starter is    *)
(* the place of the last character that combines forward, list has what it *)
(* combines with; syllable is the place of an LV syllable which takes the  *)
(* T that may come next.                                                   *)
NothingComposed ==
  [done |-> <<>>, starter |-> 0, list |-> NoList, prevCC |-> 0, syllable |-> 0]

(* No composition: c stays, and may be the next starter.                   *)
Kept(r, c, cc) ==
  [r EXCEPT !.done     = Append(@, c),
            !.starter  = IF cc = 0 THEN Len(r.done) + 1 ELSE @,
            !.list     = IF cc = 0 THEN getCompositionsListForDecompYes(Norm16(c))
                                   ELSE @,
            !.prevCC   = cc,
            !.syllable = 0]

(* Mutant: a character of the same class does not block.                   *)
EqualClassIsNotBlocked(r, cc) == r.list = NoList \/ (r.prevCC > cc /\ r.prevCC # 0)

IsBlocked(r, cc) == r.list = NoList \/ (r.prevCC >= cc /\ r.prevCC # 0)

ComposedWith(r, compositeAndFwd) ==
  LET composite == compositeAndFwd \div 2
  IN  [r EXCEPT !.done[r.starter] = composite,
                !.list = IF compositeAndFwd % 2 = 0 THEN NoList
                         ELSE getCompositionsListForComposite(getRawNorm16(composite)),
                !.syllable = 0]

RecomposeNext(r, c) ==
  LET n  == Norm16(c)
      cc == getCCFromYesOrMaybe(n)
  IN  IF r.syllable > 0 /\ c - JamoTBase \in 0 .. JamoTCount - 1
      THEN [r EXCEPT !.done[r.syllable] = @ + (c - JamoTBase), !.syllable = 0]
      ELSE IF ~isMaybe(n) \/ IsBlocked(r, cc) THEN Kept(r, c, cc)
      ELSE IF isJamoVT(n)
      THEN IF c < JamoTBase /\ IsJamoL(r.done[r.starter])
           THEN [r EXCEPT !.done[r.starter] = Syllable(@, c),
                          !.syllable = r.starter, !.list = NoList]
           ELSE [r EXCEPT !.done = Append(@, c), !.list = NoList, !.syllable = 0]
      ELSE IF combine(r.list, c) = NoComposition THEN Kept(r, c, cc)
      ELSE ComposedWith(r, combine(r.list, c))

Recomposed(s) == FoldLeft(RecomposeNext, NothingComposed, s).done

-----------------------------------------------------------------------------
(* One iteration.  p is prevSrc, the index of the first character from src *)
(* on that is not a plain yes; At(x) is the character at an index.         *)
At(x)            == text[x + 1]
Between(x, y)    == SubSeq(text, x + 1, y)
BoundaryAt(x)    == HasBoundaryBefore(text, x)
Kind(p)          == Norm16(At(p))
HasPrevious(p)   == prevBoundary # p
UpTo(p)          == Copied(buffer, Between(prevBoundary, p))

MapsBetweenBoundaries(p) ==
  /\ isAlgorithmicNoNo(Kind(p)) \/ mapsToComposed(Kind(p))
  /\ hasCompBoundaryAfter(At(p)) \/ BoundaryAt(p + 1)

IsOmitted(p) ==
  /\ mapsToNothing(Kind(p))
  /\ BoundaryAt(p + 1) \/ (HasPrevious(p) => hasCompBoundaryAfter(At(p - 1)))

FollowsL(p) ==
  /\ isJamoVT(Kind(p)) /\ At(p) < JamoTBase
  /\ HasPrevious(p) /\ IsJamoL(At(p - 1))

HasT(p) == p + 1 < Len(text) /\ At(p + 1) - JamoTBase \in 1 .. JamoTCount - 1

FollowsLV(p) ==
  /\ isJamoVT(Kind(p)) /\ At(p) >= JamoTBase
  /\ HasPrevious(p) /\ IsHangulLV(At(p - 1))

(* Marks that do not combine: where their order or their run ends.         *)
IsPlainMark(p) == Kind(p) >= MIN_YES_YES_WITH_CC

MarksEnd(p) ==
  Min({x \in p + 1 .. Len(text) :
         \/ x = Len(text) \/ ~IsPlainMark(x)
         \/ getCCFromNormalYesOrMaybe(Kind(x - 1)) > getCCFromNormalYesOrMaybe(Kind(x))})

Disordered(p) == MarksEnd(p) < Len(text) /\ IsPlainMark(MarksEnd(p))

(* isNormalized() has seen a difference.                                   *)
Differs(p) ==
  \/ ~isMaybeOrNonZeroCC(Kind(p))
  \/ FollowsL(p)
  \/ FollowsLV(p)
  \/ IsPlainMark(p) /\ Disordered(p)

(* Nothing of the segment has to be decomposed.                            *)
IsShortcut(p) ==
  \/ MapsBetweenBoundaries(p)
  \/ IsOmitted(p)
  \/ FollowsL(p) /\ (HasT(p) \/ BoundaryAt(p + 1))
  \/ FollowsLV(p)
  \/ IsPlainMark(p) /\ BoundaryAt(MarksEnd(p))

Continue(b, next) ==
  /\ buffer' = b
  /\ src' = next /\ prevBoundary' = next
  /\ UNCHANGED <<call, pc, text, later, safeMiddle, errorCode, result>>

Return(b, value, code) ==
  /\ pc' = "returned"
  /\ buffer' = b /\ result' = value /\ errorCode' = code
  /\ UNCHANGED <<call, text, src, prevBoundary, later, safeMiddle>>

MapCharacter(p) ==
  /\ doCompose /\ MapsBetweenBoundaries(p)
  /\ Continue(IF isAlgorithmicNoNo(Kind(p))
              THEN AppendedCharacter(UpTo(p), mapAlgorithmic(At(p), Kind(p)), 0)
              ELSE Copied(UpTo(p), MappingText(Kind(p))),
              p + 1)

OmitCharacter(p) ==
  /\ doCompose /\ IsOmitted(p)
  /\ Continue(UpTo(p), p + 1)

(* The vowel with the L before it and a T, if there is one, behind it.     *)
ComposeVowel(p) ==
  /\ doCompose /\ FollowsL(p)
  /\ HasT(p) \/ BoundaryAt(p + 1)
  /\ Continue(AppendedCharacter(UpTo(p - 1),
                Syllable(At(p - 1), At(p))
                  + (IF HasT(p) THEN At(p + 1) - JamoTBase ELSE 0), 0),
              IF HasT(p) THEN p + 2 ELSE p + 1)

ComposeTrail(p) ==
  /\ doCompose /\ FollowsLV(p)
  /\ Continue(AppendedCharacter(UpTo(p - 1), At(p - 1) + (At(p) - JamoTBase), 0), p + 1)

(* Marks in order in front of a boundary stay as they are; they are copied *)
(* with what follows.                                                      *)
SkipMarks(p) ==
  /\ IsPlainMark(p) /\ ~Disordered(p)
  /\ MarksEnd(p) < Len(text) /\ BoundaryAt(MarksEnd(p))
  /\ src' = IF isCompYesAndZeroCC(Kind(MarksEnd(p))) THEN MarksEnd(p) + 1
                                                    ELSE MarksEnd(p)
  /\ UNCHANGED <<call, pc, text, prevBoundary, later, buffer, safeMiddle,
                 errorCode, result>>

ReturnAtLimit(p) ==
  /\ p < Len(text) => IsPlainMark(p) /\ MarksEnd(p) = Len(text)
  /\ Return(IF doCompose THEN UpTo(Len(text)) ELSE buffer, TRUE, errorCode)

ReturnDifferent(p) ==
  /\ ~doCompose /\ Differs(p)
  /\ Return(buffer, FALSE, errorCode)

(* The slow path: the segment begins at the character, or at the one       *)
(* before it when there is no boundary between them, and ends at the next  *)
(* boundary.                                                               *)
IsSlow(p) == p < Len(text) /\ ~IsShortcut(p) /\ (doCompose \/ ~Differs(p))

(* Mutant: the character before is never taken along.                      *)
SegmentStartsHere(p) == p

SegmentStart(p) ==
  IF /\ HasPrevious(p) /\ ~norm16HasCompBoundaryBefore(Kind(p))
     /\ ~hasCompBoundaryAfter(At(p - 1))
  THEN p - 1 ELSE p

SegmentEnd(p) ==
  NextBoundary(text, IF IsPlainMark(p) THEN MarksEnd(p) ELSE p + 1)

Segment(p) == Between(SegmentStart(p), SegmentEnd(p))

Opened(p) == IF doCompose THEN UpTo(SegmentStart(p)) ELSE buffer

(* The buffer with b's text and what the segment is composed to.           *)
ComposedBehind(b, decomposed) ==
  IF Len(decomposed.text) = Len(b.text) THEN decomposed
  ELSE Fixed(b.text \o Recomposed(Drop(decomposed.text, Len(b.text))))

SegmentIsTooLong(p) ==
  /\ IsSlow(p) /\ SegmentEnd(p) - SegmentStart(p) > MaxDifference
  /\ Return(Decomposed(Opened(p), Segment(p)), TRUE, U_INDEX_OUTOFBOUNDS_ERROR)

ComposeSegment(p) ==
  /\ doCompose
  /\ IsSlow(p) /\ SegmentEnd(p) - SegmentStart(p) <= MaxDifference
  /\ Continue(ComposedBehind(Opened(p), Decomposed(Opened(p), Segment(p))),
              SegmentEnd(p))

(* Mutant: buffer.remove() is left out.                                    *)
ComparedAndKept(b) == b

Compared(b) == EmptyBuffer

CompareSegment(p) ==
  /\ ~doCompose
  /\ IsSlow(p) /\ SegmentEnd(p) - SegmentStart(p) <= MaxDifference
  /\ \E b \in {ComposedBehind(buffer, Decomposed(buffer, Segment(p)))} :
       IF b.text = Segment(p) THEN Continue(Compared(b), SegmentEnd(p))
                              ELSE Return(b, FALSE, errorCode)

(* An append fails: the buffer's string is bogus then, and compose()       *)
(* returns true.                                                           *)
OutOfMemory(p) ==
  /\ \/ IsSlow(p)
     \/ /\ doCompose /\ prevBoundary < Len(text)
        /\ p < Len(text) => ~IsOmitted(p) \/ prevBoundary # p
  /\ Return(buffer, TRUE, U_MEMORY_ALLOCATION_ERROR)

Iteration(p) ==
  \/ ReturnAtLimit(p)
  \/ /\ p < Len(text)
     /\ \/ ReturnDifferent(p)
        \/ MapCharacter(p) \/ OmitCharacter(p)
        \/ ComposeVowel(p) \/ ComposeTrail(p) \/ SkipMarks(p)
        \/ SegmentIsTooLong(p) \/ ComposeSegment(p) \/ CompareSegment(p)
  \/ OutOfMemory(p)

ComposeNextSegment ==
  /\ pc = "composing"
  /\ Iteration(Min({Len(text)} \cup {x \in src .. Len(text) - 1 : ~Passes(At(x))}))

-----------------------------------------------------------------------------
(* The functions that call it.                                             *)
Init ==
  /\ call \in Calls
  /\ pc = "called"
  /\ text = <<>> /\ src = 0 /\ prevBoundary = 0 /\ later = <<>>
  /\ buffer = EmptyBuffer /\ safeMiddle = <<>>
  /\ errorCode = call.error /\ result = call.first

Done(value, code) ==
  /\ pc' = "done"
  /\ result' = value /\ errorCode' = code
  /\ UNCHANGED <<call, text, src, prevBoundary, later, buffer, safeMiddle>>

(* A failure before, a string without a value, or one string for both.     *)
Reject ==
  /\ pc = "called" /\ (U_FAILURE(call.error) \/ ~call.legal)
  /\ Done(CASE call.op = "normalize" -> Bogus
            [] call.op = "isNormalized" -> FALSE
            [] OTHER -> call.first,
          IF U_FAILURE(call.error) THEN call.error ELSE U_ILLEGAL_ARGUMENT_ERROR)

BufferInitFails ==
  /\ pc = "called" /\ U_SUCCESS(call.error) /\ call.legal
  /\ Done(IF call.op = "isNormalized" THEN FALSE ELSE Bogus,
          U_MEMORY_ALLOCATION_ERROR)

Begin(b, s, rest, middle) ==
  /\ pc = "called" /\ U_SUCCESS(call.error) /\ call.legal
  /\ pc' = "composing"
  /\ text' = s /\ later' = rest
  /\ buffer' = b /\ safeMiddle' = middle
  /\ UNCHANGED <<call, src, prevBoundary, errorCode, result>>

BeginText ==
  /\ call.op # "append" \/ call.first = <<>> \/ NextBoundary(call.second, 0) = 0
  /\ Begin(OpenedOn(IF call.op = "append" THEN call.first ELSE <<>>),
           call.second, <<>>, <<>>)

(* composeAndAppend(): what stands between the last boundary of the first  *)
(* string and the first one of the second is composed as one text.         *)
BeginMiddle ==
  /\ call.op = "append" /\ call.first # <<>>
  /\ \E last  \in {PreviousBoundary(call.first)},
        first \in {NextBoundary(call.second, 0)} :
       /\ first > 0
       /\ Begin(Fixed(Take(call.first, last)),
                Drop(call.first, last) \o Take(call.second, first),
                Drop(call.second, first),
                Drop(call.first, last))

ComposeLater ==
  /\ pc = "returned" /\ U_SUCCESS(errorCode) /\ later # <<>>
  /\ pc' = "composing"
  /\ text' = later /\ later' = <<>> /\ src' = 0 /\ prevBoundary' = 0
  /\ UNCHANGED <<call, buffer, safeMiddle, errorCode, result>>

(* Mutant: the suffix is put behind the length the string once had.        *)
RestoredBehindIt == Take(buffer.text, Len(call.first)) \o safeMiddle

(* replace() of the suffix that was taken away.                            *)
Restored ==
  Take(buffer.text, Len(call.first) - Len(safeMiddle)) \o safeMiddle

(* The buffer's destructor ends the string; what is bogus stays so.        *)
Finish ==
  /\ pc = "returned" /\ (U_FAILURE(errorCode) \/ later = <<>>)
  /\ Done(IF call.op = "isNormalized" THEN result
          ELSE IF errorCode = U_MEMORY_ALLOCATION_ERROR THEN Bogus
          ELSE IF call.op = "append" /\ U_FAILURE(errorCode) THEN Restored
          ELSE buffer.text,
          errorCode)

(* A call that cannot go on is a deadlock.                                 *)
Stop == pc = "done" /\ UNCHANGED vars

Next ==
  \/ Reject \/ BufferInitFails \/ BeginText \/ BeginMiddle
  \/ ComposeNextSegment \/ ComposeLater \/ Finish
  \/ Stop

Spec == Init /\ [][Next]_vars

-----------------------------------------------------------------------------
(* Type invariant: nothing behind src has been appended, and the buffer    *)
(* may insert only behind what recompose() made final.                     *)
ComposerTypeOK ==
  /\ pc \in {"called", "composing", "returned", "done"}
  /\ 0 <= prevBoundary /\ prevBoundary <= src /\ src <= Len(text)
  /\ buffer.text \in Seq(Nat) /\ buffer.reorderStart \in 0 .. Len(buffer.text)
  /\ buffer.lastCC # 0 => buffer.lastCC = CC(Last(buffer.text))

(* compose() reads a text in segments and never looks back: at every       *)
(* boundary it stops at, what it has written and what the rest would be on *)
(* its own, the normalized text behind it included, is the whole text      *)
(* normalized (prevBoundary of compose()).                                 *)
SegmentsAreIndependent ==
  pc = "composing" /\ doCompose =>
    LET whole == IF call.op = "append" THEN call.first \o call.second
                                       ELSE call.second
    IN  NormalizeCodePoints(whole) =
          buffer.text \o NormalizeCodePoints(Drop(text, prevBoundary) \o later)

(* normalize() and normalizeSecondAndAppend() return what the definition   *)
(* gives for the text, or for both strings as one.                         *)
ReturnsTheDefinition ==
  pc = "done" /\ U_SUCCESS(errorCode) /\ doCompose =>
    result = NormalizeCodePoints(
               IF call.op = "append" THEN call.first \o call.second
                                     ELSE call.second)

(* isNormalized() decides without the normalized text, and decides the     *)
(* same as a comparison with it would.                                     *)
ComparesExactly ==
  pc = "done" /\ U_SUCCESS(errorCode) /\ ~doCompose =>
    (result <=> NormalizeCodePoints(call.second) = call.second)

(* A failure of normalizeSecondAndAppend() leaves no part of the second    *)
(* string behind the first: that is what it was, or bogus when the memory  *)
(* ran out.                                                                *)
FailureKeepsFirst ==
  pc = "done" /\ call.op = "append" /\ U_FAILURE(errorCode) =>
    result = IF errorCode = U_MEMORY_ALLOCATION_ERROR THEN Bogus ELSE call.first
=============================================================================
