------------------------------ MODULE MCLookup ------------------------------
(* Arrays of a few bytes and units in place of 27, 256, 512, 1024 and 2048, *)
(* with the real layout of UTF-8 and UTF-16.                               *)
EXTENDS Lookup, ErrorNames, StringSearch

Emoji == <<240, 159, 152, 128>>
Zh    == <<228, 184, 173>>

(* ASCII of every kind, whole and cut characters, bytes that never occur,  *)
(* an overlong form, a surrogate, a value beyond U+10FFFF.                 *)
Pieces == {<<>>, <<65>>, <<98, Dot>>, <<Hyphen>>, <<Hyphen, Hyphen>>, <<95>>, <<195, 188>>,
           <<117, 204, 136>>, Zh, Emoji,
           <<228, 184>>, <<240, 159, 152>>, <<128>>, <<224, 128, 128>>, <<237, 160, 128>>,
           <<244, 144, 128, 128>>}

Heads == {<<>>, <<98, Dot, 65>>, <<66, 97, 66, 97, 66>>, Emoji \o Emoji \o Emoji, Zh \o Zh \o Emoji}

Tails == {<<>>, <<65>>, Zh, <<128>>}

Names == {h \o p \o q : h \in Heads, p \in Pieces, q \in Tails}

ACall(fn, function, std3, src, capacity) ==
  [fn |-> fn, function |-> function, std3 |-> std3, src |-> src, length |-> -1,
   dest |-> "array", capacity |-> capacity, error |-> U_ZERO_ERROR, given |-> TRUE]

F(isLabel, toASCII, utf8, opens) ==
  [isLabel |-> isLabel, toASCII |-> toASCII, utf8 |-> utf8, opens |-> opens]

Long == Emoji \o Emoji \o Emoji \o Zh

(* The C functions get a code that a former call may have left, arguments  *)
(* of every kind, and texts with a NUL in the middle.                      *)
Arguments ==
  {<<s, -1, "array", 3>> : s \in Names} \cup
  {<<s, n, d, cap>> : s \in {<<>>, <<65, 0, 98>>, Zh}, n \in {-2, -1, 0, 1},
                      d \in {"array", "null", "src"}, cap \in {-1, 0, 5}} \cup
  {<<None, n, "array", 1>> : n \in {-1, 0, 2}}

UTF8Calls ==
  {[ACall("uidna", F(TRUE, TRUE, TRUE, opens), FALSE, a[1], a[4])
      EXCEPT !.length = a[2], !.dest = a[3], !.error = code] :
     opens \in BOOLEAN, a \in Arguments,
     code \in {U_ZERO_ERROR, U_STRING_NOT_TERMINATED_WARNING, U_BUFFER_OVERFLOW_ERROR}}

(* UTF-16: pairs and halves of pairs, around the capacity.                 *)
Texts == {FlattenSeq(w) : w \in BoundedSeq({<<65>>, <<252>>, <<FirstLead>>,
                                            <<FirstTrail>>, <<0>>}, 3)}

UTF16Calls ==
  {[ACall("uidna", F(FALSE, toASCII, FALSE, TRUE), FALSE, s, cap) EXCEPT !.length = n] :
     toASCII \in BOOLEAN, s \in Texts, cap \in 0 .. 6, n \in {-1, 1}} \cup
  {[ACall("uidna", F(TRUE, TRUE, FALSE, opens), FALSE, a[1], a[4])
      EXCEPT !.length = a[2], !.dest = a[3], !.error = code] :
     opens \in BOOLEAN, a \in {a \in Arguments : a[1] \in {None, <<65, 0, 98>>}},
     code \in {U_ZERO_ERROR, U_MEMORY_ALLOCATION_ERROR}}

ByLength(calls) == {c \in calls : c.src = None \/ c.length <= Len(c.src)}

AllCalls ==
  {ACall("idn2_lookup", F(FALSE, TRUE, TRUE, TRUE), std3, s, 0) :
     std3 \in BOOLEAN, s \in Names \cup {None}}
  \cup {ACall("idn2_to_unicode_8z8z", F(FALSE, FALSE, TRUE, TRUE), FALSE, s, 0) : s \in Names}
  \cup {ACall("uidna", F(FALSE, FALSE, TRUE, TRUE), FALSE, s, n) :
          s \in {Long, Zh \o Long, Long \o <<98>>}, n \in 0 .. 22}
  \cup ByLength(UTF8Calls) \cup ByLength(UTF16Calls)
  \cup {[ACall("idn2_lookup", F(FALSE, TRUE, TRUE, TRUE), FALSE, s, 0) EXCEPT !.given = FALSE] :
          s \in {None, <<>>, Zh, Long}}

(* processUnicode() as far as the length and the place of a text go: what  *)
(* STD3 forbids and a dot in a single label are marked, characters         *)
(* compose, and a label that is not ASCII is encoded as a whole, the ASCII *)
(* letters in front.                                                       *)
Diaeresis == 776
Nothing   == -1

MappedUnit(c, k) ==
  IF c < 128 /\ ((k.std3 /\ k.fn # "idn2_to_unicode_8z8z" /\ ~IsLdhDot(c)) \/ c = Dot)
  THEN REPLACEMENT ELSE Lower(c)

Composed(s) ==
  SelectSeq([x \in DOMAIN s |->
               CASE s[x] = 117 /\ x < Len(s) /\ s[x + 1] = Diaeresis -> 252
                 [] s[x] = Diaeresis /\ x > 1 /\ s[x - 1] = 117 -> Nothing
                 [] OTHER -> s[x]],
            LAMBDA c : c # Nothing)

MappedLabel(label, k) ==
  LET s == Composed([x \in DOMAIN label |-> MappedUnit(label[x], k)])
      others == SelectSeq(s, LAMBDA c : ~IsAscii(c))
  IN  IF k.function.toASCII /\ others # <<>> /\ ~Contains(others, REPLACEMENT)
      THEN <<120, 110>> \o SelectSeq(s, IsAscii) \o <<Hyphen>>
             \o [x \in DOMAIN others |-> 97 + (others[x] % 26)]
      ELSE s

RECURSIVE MappedLabels(_, _)
MappedLabels(s, k) ==
  IF k.function.isLabel \/ ~Contains(s, Dot) THEN MappedLabel(s, k)
  ELSE LET dot == SelectInSeq(s, LAMBDA c : c = Dot)
       IN  MappedLabel(SubSeq(s, 1, dot - 1), k) \o <<Dot>>
             \o MappedLabels(SubSeq(s, dot + 1, Len(s)), k)

(* LoopKeepsMapping of LookupProofs, where TLC can look: labels that the   *)
(* loop over ASCII takes in front of a few texts, for every function.      *)
ASSUME MappingAgrees ==
  \A c \in {[fn |-> c.fn, function |-> c.function, std3 |-> c.std3] : c \in AllCalls} :
    c.function.utf8 =>
      \A l \in BoundedSeq({65, 95, 117, Hyphen}, 4),
         s \in BoundedSeq({65, Dot, 252, Diaeresis, REPLACEMENT}, 2) : KeepsLabels(l, s, c)

(* What LookupProofs claims of all integers, where TLC can look: the       *)
(* codes of both sides of every limit, and every mask of errors.           *)
ASSUME NamesAgree ==
  /\ \A f \in Families : \A code \in {Start[f] - 1, Start[f], Limit[f] - 1, Limit[f]} :
       LET name == u_errorName(code)
       IN  IF IsOf(code, f) THEN name.table = f /\ name.index \in 0 .. NamesListed[f] - 1
           ELSE name = Bogus
  /\ \A mask \in 1 .. AllErrorBits : idn2_strerror(-mask).table \in {"standard", "bogus"}

(* And of the search for a part, on texts with pairs and halves of pairs.  *)
ASSUME SearchesAgree ==
  \A s \in BoundedSeq({97, FirstLead, FirstTrail}, 5),
     sub \in BoundedSeq({97, FirstLead, FirstTrail}, 3), isTerminated \in BOOLEAN :
    sub # <<>> =>
      u_strFindFirst(s, sub, isTerminated) = LeastOf(Occurrences(s, sub))
=============================================================================
