------------------------------ MODULE MCUTS46 -------------------------------
(***************************************************************************)
(* The conversions on names made from a small part of the repertoire, with *)
(* the properties and mappings that the data files give it, and with short *)
(* limits for labels, names and the stack array.                           *)
(***************************************************************************)
EXTENDS UTS46Calls, CharacterProperties

SoftHyphen == 173
SharpS     == 223
FinalSigma == 962
Macron   == 772
DotBelow == 803
Slash    == 824
SDotBelow == 7779
ADotBelow == 7841
AMacron   == 257
LDotBelow == 7735
LBoth     == 7737
NotLess   == 8814
FullStop == 12290
Alef     == 1488
Patah    == 1463
ArabicTwo  == 1634
PersianTwo == 1778
Beh        == 1576
Virama_       == 2381
Ka            == 2325
HiraganaA     == 12354
Supplementary == 65536

MCCC(c) ==
  CASE c = Macron -> 230 [] c = DotBelow -> 220 [] c = Slash -> 1
    [] c = Patah -> 17 [] c = Virama_ -> 9 [] OTHER -> 0

MCMapping(c) ==
  CASE IsUpper(c) -> <<c + 32>> [] c = SoftHyphen -> <<>>
    [] c \in 128 .. 159 -> <<Replacement>> [] c = FullStop -> <<Dot>>
    [] c = AMacron -> <<97, Macron>> [] c = ADotBelow -> <<97, DotBelow>>
    [] c = LDotBelow -> <<108, DotBelow>> [] c = SDotBelow -> <<115, DotBelow>>
    [] c = LBoth -> <<108, DotBelow, Macron>>
    [] c = NotLess -> <<60, Slash>>
    [] OTHER -> <<c>>

MCComposite(c, d) ==
  CASE c = 108 /\ d = DotBelow -> LDotBelow
    [] c = 115 /\ d = DotBelow -> SDotBelow
    [] c = 97 /\ d = DotBelow -> ADotBelow
    [] c = 97 /\ d = Macron -> AMacron
    [] c = LDotBelow /\ d = Macron -> LBoth
    [] c = 60 /\ d = Slash -> NotLess
    [] OTHER -> None

(* What the tables of u_char.cc and u_bidi.cc say of the repertoire.       *)
Repertoire ==
  32 .. 126 \cup
  {128, SoftHyphen, MiddleDot, SharpS, 252, AMacron, Macron, DotBelow, Slash,
   Keraia, FinalSigma, 963, Patah, Alef, Geresh, Gershayim, Beh, ArabicTwo,
   PersianTwo, Ka, Virama_, LDotBelow, LBoth, SDotBelow, ADotBelow, ZWNJ, ZWJ,
   NotLess, FullStop, HiraganaA, KatakanaDot, FirstLead, FirstTrail,
   Replacement, Supplementary}

Directions_  == [c \in Repertoire |-> u_charDirection(c)]
JoiningTypes == [c \in Repertoire |-> ubidi_getJoiningType(c)]
Scripts      == [c \in Repertoire |-> uscript_getScript(c, U_ZERO_ERROR).script]
Marks        == {c \in Repertoire : U_GET_GC_MASK(c) \cap U_GC_M_MASK # {}}

MCDirection(c)   == Directions_[c]
MCJoiningType(c) == JoiningTypes[c]
MCScript(c)      == Scripts[c]
MCIsMark(c)      == c \in Marks

(* What Unicode says of them; Han, Adlam and Chakma have a letter, or a    *)
(* mark, each, and U+10FFFF is not assigned.                               *)
Others ==
  [han |-> 19968, adlam |-> 125184, chakmaVirama |-> 69939, last |-> 1114111,
   mark |-> 12540]

ASSUME DirectionsAgree ==
  /\ \A c \in Repertoire :
       Directions_[c] =
         CASE c \in {Alef, Geresh, Gershayim} -> "R"
           [] c = Beh -> "AL"
           [] IsDigit(c) \/ c = PersianTwo -> "EN"
           [] c = ArabicTwo -> "AN"
           [] c \in {Macron, DotBelow, Slash, Patah, Virama_} -> "NSM"
           [] c \in {128, SoftHyphen, ZWNJ, ZWJ} -> "BN"
           [] c \in {43, Hyphen} -> "ES"
           [] c \in {44, Dot, 47, 58} -> "CS"
           [] c \in 35 .. 37 -> "ET"
           [] c = 32 -> "WS"
           [] c \in {MiddleDot, Keraia, NotLess, FullStop, KatakanaDot, Replacement}
                \/ (c < 128 /\ ~IsLower(c) /\ ~IsUpper(c)) -> "ON"
           [] OTHER -> "L"
  /\ u_charDirection(Others.adlam) = "R" /\ u_charDirection(Others.han) = "L"
  /\ u_charDirection(Others.chakmaVirama) = "NSM"
  /\ u_charDirection(Others.last) = "BN" /\ u_charDirection(Others.mark) = "L"

ASSUME JoiningTypesAgree ==
  /\ \A c \in Repertoire :
       JoiningTypes[c] =
         CASE c = Beh -> "D" [] c = ZWJ -> "C"
           [] c \in {Macron, DotBelow, Slash, Patah, Virama_, SoftHyphen} -> "T"
           [] OTHER -> "U"
  /\ ubidi_getJoiningType(Others.adlam) = "D"
  /\ ubidi_getJoiningType(Others.chakmaVirama) = "T"

ASSUME ScriptsAgree ==
  /\ \A c \in Repertoire :
       /\ Scripts[c] \in UScriptCode
       /\ Scripts[c] \in {USCRIPT_GREEK, USCRIPT_HEBREW, USCRIPT_HIRAGANA,
                          USCRIPT_KATAKANA, USCRIPT_HAN}
            => Scripts[c] = CASE c \in {Keraia, FinalSigma, 963} -> USCRIPT_GREEK
                              [] c \in {Patah, Alef, Geresh, Gershayim} -> USCRIPT_HEBREW
                              [] c = HiraganaA -> USCRIPT_HIRAGANA
       /\ c \in {Macron, DotBelow, Slash, ZWNJ, ZWJ} <=> Scripts[c] = USCRIPT_INHERITED
       /\ Scripts[c] = USCRIPT_COMMON <=>
            \/ c \in {128, SoftHyphen, MiddleDot, NotLess, FullStop, KatakanaDot,
                      Replacement}
            \/ c < 128 /\ ~IsLower(c) /\ ~IsUpper(c)
  /\ uscript_getScript(Others.han, U_ZERO_ERROR).script = USCRIPT_HAN
  /\ uscript_getScript(Others.mark, U_ZERO_ERROR).script = USCRIPT_COMMON
  /\ \A code \in {U_ZERO_ERROR, U_INTERNAL_PROGRAM_ERROR} :
       LET invalid == uscript_getScript(Others.last + 1, code)
       IN  invalid.script = USCRIPT_INVALID_CODE /\ U_FAILURE(invalid.errorCode)

(* General categories; and a mark is transparent in both other tables.     *)
ASSUME CategoriesAgree ==
  /\ \A c \in Repertoire \cup {Others.chakmaVirama} :
       (u_charType(c) = "Mn")
         <=> (u_charDirection(c) = "NSM" /\ ubidi_getJoiningType(c) = "T")
  /\ \A c \in 32 .. 126 : /\ (u_charType(c) = "Nd") <=> IsDigit(c)
                          /\ (u_charType(c) = "Lu") <=> IsUpper(c)
                          /\ (u_charType(c) = "Ll") <=> IsLower(c)
                          /\ u_isWhitespace(c) <=> c = 32
  /\ u_charType(Others.last) = "Cn" /\ u_charType(Others.last + 1) = "Cn"
  /\ u_charType(Others.adlam) = "Lu" /\ u_charType(Others.mark) = "Lm"

-----------------------------------------------------------------------------
Words(tokens, length) == {FlattenSeq(w) : w \in BoundedSeq(tokens, length)}

(* What the proofs assume of the normalizer and of Punycode.               *)
ASSUME TextsAreReturned ==
  \A s \in Words({<<65>>, <<97>>, <<108>>, <<Hyphen>>, <<Dot>>, <<SharpS>>, <<ZWNJ>>,
                 <<DotBelow>>, <<FirstLead>>, <<FirstTrail>>}, 3) : ReturnsTexts(s)

ASSUME LabelsAreLeft ==
  \A s \in Words({<<97>>, <<95>>, <<Dot>>}, 3),
     t \in Words({<<65>>, <<97>>, <<Dot>>, <<SharpS>>, <<ZWNJ>>, <<Macron>>, <<DotBelow>>,
                 <<Slash>>, <<FirstLead>>, <<FirstTrail>>}, 2) : LeavesLabels(s, t)

(* The calls on names.  UTF-8 input is well-formed here.                   *)
CallsOn(names, utf8s, isLabels, optionSets) ==
  {c \in [src : names, utf8 : utf8s, isLabel : isLabels, toASCII : BOOLEAN,
          options : optionSets] : c.utf8 => IsWellFormed(c.src)}

Nontransitional == {"NONTRANSITIONAL_TO_ASCII", "NONTRANSITIONAL_TO_UNICODE"}
Ace(s)          == AcePrefix \o EncodeText(s)

(* Hyphens, dots, empty labels, what is mapped away, what STD3 forbids.    *)
LabelNames ==
  Words({<<65>>, <<Hyphen>>, <<Dot>>, <<95>>, <<252>>, <<SoftHyphen>>}, 3)

(* ACE labels that are valid, and each kind that is not.                   *)
AceNames ==
  {a \o b : a \in {Ace(s) : s \in {<<252>>, <<128>>, <<Macron>>, <<95, 252>>,
                                   <<108, DotBelow>>, <<SharpS>>, <<Dot, 252>>,
                                   <<45, 252>>}}
                    \cup {AcePrefix, AcePrefix \o <<45>>, AcePrefix \o <<97, 45>>,
                          <<252>> \o AcePrefix, <<88, 78, 45, 45>>},
            b \in {<<>>, <<95>>, <<Dot>>, <<Dot, 252>>, <<SoftHyphen>>, <<252>>}}

(* Names around the limits for a label, a name and the array.              *)
LongNames == Words({<<65, 65, 65>>, <<65, Dot>>, <<252>>, <<65, 65, 65, Dot>>}, 3)

(* Deviation characters, and what composes across them; surrogates, paired *)
(* or not, and what is mapped away between them.                           *)
MCMappingCalls ==
  CallsOn(Words({<<108>>, <<ZWNJ>>, <<SharpS>>, <<Macron>>, <<DotBelow>>, <<Dot>>,
                 Ace(<<SharpS>>)}, 3)
            \cup Words({<<108, Macron>>, <<ZWNJ>>, <<DotBelow>>, <<Dot>>}, 4),
          {FALSE}, BOOLEAN, {{}, {"NONTRANSITIONAL_TO_UNICODE"}})
    \cup CallsOn(Words({<<FirstLead>>, <<FirstTrail>>, <<SoftHyphen>>, <<ZWNJ>>,
                       <<Dot>>}, 4),
                 {FALSE}, BOOLEAN, {{}, Nontransitional})

(* Labels of both directions, joiners in their contexts, punctuation.      *)
BiDiNames ==
  Words({<<65>>, <<49>>, <<Alef>>, <<ArabicTwo>>, <<Dot>>}, 4)
    \cup Words({<<65>>, <<49>>, <<Alef>>, <<Hyphen>>, <<Dot>>}, 3)

ContextNames ==
  Words({<<ZWNJ>>, <<ZWJ>>, <<Beh>>, <<Virama_>>, <<Patah>>}, 4)
    \cup Words({<<108>>, <<MiddleDot>>, <<Keraia>>, <<963>>, <<Geresh>>, <<Alef>>,
                <<KatakanaDot>>, <<HiraganaA>>, <<ArabicTwo>>, <<PersianTwo>>}, 3)

MCLabelCalls ==
  CallsOn(LabelNames \cup AceNames \cup LongNames, BOOLEAN, BOOLEAN,
          {Nontransitional, {"STD3"}})
    \cup CallsOn(BiDiNames, {FALSE}, {FALSE}, {Nontransitional \cup {"BIDI"}})
    \cup CallsOn(ContextNames, {FALSE}, {FALSE},
                 {Nontransitional \cup {"CONTEXTJ", "CONTEXTO"}})

MCNameCalls == MCLabelCalls \cup MCMappingCalls
=============================================================================
