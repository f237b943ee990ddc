--------------------------- MODULE UTF8Conversion ---------------------------
(***************************************************************************)
(* u_strFromUTF8WithSub() and u_strToUTF8WithSub() of u_unistr.cc for a    *)
(* source of known length and U+FFFD for what is ill-formed, as their      *)
(* callers use them.  Both run in the same phases: blocks in which one     *)
(* counter stands for the ends of both arrays ("fast"), a loop with a test *)
(* for each end ("slow"), and the count of what no longer fits             *)
(* ("preflight").  A step is one round of one of the loops.                *)
(***************************************************************************)
EXTENDS UTF16, UErrorCode, FiniteSetsExt, SequencesExt

VARIABLE conv

REPLACEMENT == 65533   (* subchar, U+FFFD *)

Begins(dir, src, capacity) ==
  [dir |-> dir, src |-> src, capacity |-> capacity, i |-> 0, dest |-> <<>>,
   count |-> 0, reqLength |-> 0, status |-> U_ZERO_ERROR, pc |-> "block"]

Idle ==
  [Begins("from", <<>>, 0) EXCEPT !.pc = "returned",
                                  !.status = U_STRING_NOT_TERMINATED_WARNING]

-----------------------------------------------------------------------------
(* One character of UTF-8.  Behind the end of the source stands anything.  *)
ByteAt(s, i) == IF i < Len(s) THEN s[i + 1] ELSE 0

IsTrailByte(b) == b \in 128 .. 191

Lead3Trails(lead) == CASE lead = 224 -> {5} [] lead = 237 -> {4} [] OTHER -> {4, 5}
Lead4Leads(t1)    == CASE t1 \div 16 = 8          -> 241 .. 244
                       [] t1 \div 16 \in 9 .. 11  -> 240 .. 243
                       [] OTHER                   -> {}

MayFollow(lead, t1) ==
  IF lead >= 240 THEN lead \in Lead4Leads(t1)
  ELSE IF lead >= 224 THEN t1 \div 32 \in Lead3Trails(lead)
  ELSE IsTrailByte(t1)

SequenceLength(lead) ==
  CASE lead \in 194 .. 223 -> 2
    [] lead \in 224 .. 239 -> 3
    [] lead \in 240 .. 244 -> 4
    [] OTHER               -> 1

(* Mutant: an overlong or surrogate three-byte form is taken as a whole.   *)
ValidLengthByTrails(s, i, limit) ==
  Max({n \in 1 .. SequenceLength(ByteAt(s, i)) :
         /\ n = 1 \/ i + n <= limit
         /\ \A k \in 1 .. n - 1 : IsTrailByte(ByteAt(s, i + k))})

(* How far the sequence at i is one that may be.                           *)
ValidLength(s, i, limit) ==
  Max({n \in 1 .. SequenceLength(ByteAt(s, i)) :
         /\ n = 1 \/ i + n <= limit
         /\ n > 1 => MayFollow(ByteAt(s, i), ByteAt(s, i + 1))
         /\ \A k \in 2 .. n - 1 : IsTrailByte(ByteAt(s, i + k))})

(* The value of n bytes: the bits of the lead byte and six of each trail.  *)
ValueOf(s, i, n) ==
  LET bits(k) == ByteAt(s, i + k) % 64
  IN  CASE n = 1 -> ByteAt(s, i) % 128
        [] n = 2 -> (ByteAt(s, i) % 32) * 64 + bits(1)
        [] n = 3 -> (ByteAt(s, i) % 16) * 4096 + bits(1) * 64 + bits(2)
        [] OTHER -> (ByteAt(s, i) % 8) * 262144 + bits(1) * 4096 + bits(2) * 64 + bits(3)

NextOfUTF8(s, i, limit) ==
  LET n == ValidLength(s, i, limit)
      lead == ByteAt(s, i)
      whole == n = SequenceLength(lead) /\ (n > 1 \/ lead < 128)
      c == IF whole THEN ValueOf(s, i, n) ELSE REPLACEMENT
  IN  [next |-> i + n, text |-> CodeUnits(c), double |-> lead >= 240]

(* One character of UTF-16.                                                *)
AppendUTF8(c) ==
  LET bits(d) == 128 + ((c \div d) % 64)
  IN  IF c < 128        THEN <<c>>
      ELSE IF c < 2048  THEN <<192 + (c \div 64), bits(1)>>
      ELSE IF c < 65536 THEN <<224 + (c \div 4096), bits(64), bits(1)>>
      ELSE <<240 + (c \div 262144), bits(4096), bits(64), bits(1)>>

NextOfUTF16(s, i) ==
  LET c == CodePointAt(s, i)
  IN  [next   |-> i + U16_LENGTH(c),
       text   |-> AppendUTF8(IF IsSurrogate(c) THEN REPLACEMENT ELSE c),
       double |-> IsSurrogate(s[i + 1])]

NextPiece(k) ==
  IF k.dir = "from" THEN NextOfUTF8(k.src, k.i, Len(k.src)) ELSE NextOfUTF16(k.src, k.i)

-----------------------------------------------------------------------------
Left(k) == Len(k.src) - k.i
Room(k) == k.capacity - Len(k.dest)

(* Rounds that need no test: each reads at most three bytes and writes at  *)
(* most one unit, or the other way round.                                  *)
Rounds(k) ==
  IF k.dir = "from" THEN Min({Room(k), Left(k) \div 3}) ELSE Min({Room(k) \div 3, Left(k)})

(* Mutant: blocks are begun as long as there is a round in them.           *)
PhaseOfAnyRound(rounds) == IF rounds < 1 THEN "slow" ELSE "fast"

Phase(rounds) == IF rounds < 3 THEN "slow" ELSE "fast"

BeginBlock ==
  /\ conv.pc = "block"
  /\ conv' = [conv EXCEPT !.count = Rounds(conv), !.pc = Phase(Rounds(conv))]

(* Mutant: a character that may be four bytes and two units counts once.   *)
CostOfOne(piece) == 1

Cost(piece) == IF piece.double THEN 2 ELSE 1

(* No test of an end here.  A long character in the last round is put back *)
(* and the rounds are counted again.                                       *)
ConvertFast ==
  /\ conv.pc = "fast"
  /\ \E piece \in {NextPiece(conv)} :
       /\ conv.count >= Cost(piece)
       /\ conv' = [conv EXCEPT !.i = piece.next, !.dest = @ \o piece.text,
                               !.count = @ - Cost(piece),
                               !.pc = IF conv.count = Cost(piece) THEN "block" ELSE "fast"]

BackOut ==
  /\ conv.pc = "fast"
  /\ conv.count < Cost(NextPiece(conv))
  /\ conv' = [conv EXCEPT !.pc = "block"]

GoesOn(k) == Left(k) > 0 /\ (k.dir = "from" => Room(k) > 0)

ConvertSlow ==
  /\ conv.pc = "slow" /\ GoesOn(conv)
  /\ \E piece \in {NextPiece(conv)} :
       /\ Len(piece.text) <= Room(conv)
       /\ conv' = [conv EXCEPT !.i = piece.next, !.dest = @ \o piece.text]

(* Of a pair the first unit is written, of a sequence of bytes nothing.    *)
Split(k, text) == IF k.dir = "from" THEN Min({Room(k), Len(text)}) ELSE 0

ConvertSplit ==
  /\ conv.pc = "slow" /\ GoesOn(conv)
  /\ \E piece \in {NextPiece(conv)} :
       /\ Len(piece.text) > Room(conv)
       /\ \E n \in {Split(conv, piece.text)} :
            conv' = [conv EXCEPT !.i = piece.next,
                                 !.dest = @ \o SubSeq(piece.text, 1, n),
                                 !.reqLength = Len(piece.text) - n,
                                 !.pc = "preflight"]

EndSlow ==
  /\ conv.pc = "slow" /\ ~GoesOn(conv)
  /\ conv' = [conv EXCEPT !.pc = "preflight"]

Preflight ==
  /\ conv.pc = "preflight" /\ Left(conv) > 0
  /\ \E piece \in {NextPiece(conv)} :
       conv' = [conv EXCEPT !.i = piece.next, !.reqLength = @ + Len(piece.text)]

RequiredLength(k) == k.reqLength + Len(k.dest)

ReturnLength ==
  /\ conv.pc = "preflight" /\ Left(conv) = 0
  /\ conv' = [conv EXCEPT !.reqLength = RequiredLength(conv),
                          !.status = TerminateStatus(conv.capacity, RequiredLength(conv),
                                                     U_ZERO_ERROR),
                          !.pc = "returned"]

Convert ==
  \/ BeginBlock  \/ ConvertFast \/ BackOut   \/ ConvertSlow
  \/ ConvertSplit \/ EndSlow    \/ Preflight \/ ReturnLength

-----------------------------------------------------------------------------
(* Table 3-7 of the Unicode Standard: the well-formed sequences, as the    *)
(* ranges of their bytes.                                                  *)
Trail == 128 .. 191
WellFormedSequences ==
  {<<0 .. 127>>, <<194 .. 223, Trail>>,
   <<{224}, 160 .. 191, Trail>>, <<225 .. 236, Trail, Trail>>,
   <<{237}, 128 .. 159, Trail>>, <<238 .. 239, Trail, Trail>>,
   <<{240}, 144 .. 191, Trail, Trail>>, <<241 .. 243, Trail, Trail, Trail>>,
   <<{244}, 128 .. 143, Trail, Trail>>}

(* Those that the n bytes at i begin.                                      *)
SequencesWith(s, i, n) ==
  {r \in WellFormedSequences : n <= Len(r) /\ \A k \in 1 .. n : s[i + k] \in r[k]}

IsWhole(s, i, n) == \E r \in SequencesWith(s, i, n) : Len(r) = n

(* As far as there is one; a byte that begins none stands alone.           *)
DefinedLength(s, i) ==
  Max({1} \cup {n \in 1 .. Min({4, Len(s) - i}) : SequencesWith(s, i, n) # {}})

(* The code point of a well-formed sequence is the one that is encoded so. *)
DefinedValue(s, i, n) ==
  CASE n = 1 -> s[i + 1]
    [] n = 2 -> (s[i + 1] - 192) * 64 + s[i + 2] - 128
    [] n = 3 -> (s[i + 1] - 224) * 4096 + (s[i + 2] - 128) * 64 + s[i + 3] - 128
    [] OTHER -> (s[i + 1] - 240) * 262144 + (s[i + 2] - 128) * 4096
                  + (s[i + 3] - 128) * 64 + s[i + 4] - 128

DecodedText(s) ==
  LET from[i \in 0 .. Len(s)] ==
        IF i = Len(s) THEN <<>>
        ELSE LET n == DefinedLength(s, i)
             IN  CodeUnits(IF IsWhole(s, i, n) THEN DefinedValue(s, i, n) ELSE REPLACEMENT)
                   \o from[i + n]
  IN  from[0]

EncodedText(s) ==
  LET points == CodePoints(s)
  IN  FlattenSeq([k \in DOMAIN points |->
                    AppendUTF8(IF IsSurrogate(points[k]) THEN REPLACEMENT ELSE points[k])])

(* In a block the counter bounds what is left of both arrays, and outside  *)
(* of it no index has left its array: the reads and the writes of the fast *)
(* loops need no other test.                                               *)
StaysInBounds ==
  /\ Left(conv) >= 0 /\ Room(conv) >= 0
  /\ conv.pc = "fast" => conv.count <= Rounds(conv)
  /\ conv.dir \in {"from", "to"} /\ conv.status \in Int
  /\ conv.pc \in {"block", "fast", "slow", "preflight", "returned"}

(* What is written is the beginning of the text that the standard demands, *)
(* cut at the capacity (UTF-8 in front of a whole character), and the      *)
(* length is that of the whole text, whichever loop converted what.        *)
ConvertsTheDefinition ==
  conv.pc = "returned" =>
    LET whole == IF conv.dir = "from" THEN DecodedText(conv.src) ELSE EncodedText(conv.src)
        n     == Len(conv.dest)
    IN  /\ conv.reqLength = Len(whole)
        /\ conv.dest = SubSeq(whole, 1, n)
        /\ n = Len(whole) \/ (IF conv.dir = "from" THEN n = conv.capacity
                              ELSE n + SequenceLength(whole[n + 1]) > conv.capacity)
        /\ conv.status = TerminateStatus(conv.capacity, Len(whole), U_ZERO_ERROR)
=============================================================================
