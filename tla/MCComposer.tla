----------------------------- MODULE MCComposer -----------------------------
(***************************************************************************)
(* The normalizer on characters of every kind, with the values of the data *)
(* file, against what Unicode says of these characters.                    *)
(***************************************************************************)
EXTENDS Composer, UTS46Data

Grave    == 768
DotAbove == 775
DotBelow == 803
Overlay  == 820
LowGrave       == 790
SolidusOverlay == 824
Diaeresis      == 776
Acute          == 769
SoftHyphen == 173
Joiner     == 8204
AGrave     == 224
SDots      == 7785
SDotBelow == 7779
SDotAbove == 7777
NotEqual  == 8800
CapitalAGrave == 192
Angstrom      == 8491
ARing         == 229
Ring          == 778
Ligature   == 64257
GreekTonos == 836
ToneGrave  == 832
JamoL        == 4352
JamoV        == 4449
JamoT        == 4520
VowelBeforeT == 4519
LV      == 44032
LVT     == 44033
LetterV == 12623
LetterT == 12595
TT      == 4522
LetterL == 12593
VowelE == 2503
SignAA == 2494
VowelO == 2507
ChakmaA == 69927
ChakmaE == 69937
ChakmaO == 69934
BoldA   == 119808
LoneLead == 55300

MCCC(c) ==
  CASE c \in {Grave, DotAbove, Ring, Diaeresis, Acute, GreekTonos, ToneGrave} -> 230
    [] c \in {DotBelow, LowGrave} -> 220
    [] c \in {Overlay, SolidusOverlay} -> 1
    [] OTHER -> 0

MCMapping(c) ==
  CASE c = 65 -> <<97>>
    [] c \in {AGrave, CapitalAGrave} -> <<97, Grave>>
    [] c = ARing \/ c = Angstrom -> <<97, Ring>>
    [] c = SDotBelow -> <<115, DotBelow>>   [] c = SDotAbove -> <<115, DotAbove>>
    [] c = SDots -> <<115, DotBelow, DotAbove>>
    [] c = NotEqual -> <<61, SolidusOverlay>>
    [] c = Ligature -> <<102, 105>>
    [] c = GreekTonos -> <<Diaeresis, Acute>>   [] c = ToneGrave -> <<Grave>>
    [] c = SoftHyphen -> <<>>
    [] c = LetterL -> <<JamoL>>   [] c = LetterV -> <<JamoV>>
    [] c = LetterT -> <<TT>>
    [] c = LV -> <<JamoL, JamoV>>   [] c = LVT -> <<JamoL, JamoV, JamoT>>
    [] c = VowelO -> <<VowelE, SignAA>>
    [] c = ChakmaO -> <<ChakmaE, ChakmaA>>   [] c = BoldA -> <<97>>
    [] OTHER -> <<c>>

MCComposite(c, d) ==
  CASE c = 97 /\ d = Grave -> AGrave         [] c = 97 /\ d = Ring -> ARing
    [] c = 97 /\ d = Diaeresis -> 228        [] c = 97 /\ d = Acute -> 225
    [] c = 105 /\ d = Grave -> 236
    [] c = 115 /\ d = DotBelow -> SDotBelow  [] c = 115 /\ d = DotAbove -> SDotAbove
    [] c = SDotBelow /\ d = DotAbove -> SDots
    [] c = 61 /\ d = SolidusOverlay -> NotEqual
    [] c = VowelE /\ d = SignAA -> VowelO
    [] c = ChakmaE /\ d = ChakmaA -> ChakmaO
    [] c = JamoL /\ d = JamoV -> LV
    [] c = LV /\ d \in {JamoT, TT} -> LV + (d - 4519)
    [] OTHER -> None

-----------------------------------------------------------------------------
(* Words of characters that may compose or reorder with each other.        *)
Marked  == {97, 65, CapitalAGrave, Grave, LowGrave, Overlay, GreekTonos, SoftHyphen}
Dotted  == {115, SDotBelow, SDotAbove, DotBelow, DotAbove, LowGrave, Joiner}
Others  == {61, SolidusOverlay, NotEqual, VowelE, SignAA, Overlay, Angstrom,
            Ring, Ligature, ToneGrave}
Hangul  == {JamoL, JamoV, JamoT, VowelBeforeT, LV, LVT, LetterL, LetterV, LetterT,
            LowGrave}
Supplementary == {ChakmaA, ChakmaE, ChakmaO, BoldA, Grave, LowGrave, LoneLead}

(* The data file says the same of every character as Unicode does: its     *)
(* combining class, its mapping, and the composites of any two.            *)
ASSUME DataAgrees ==
  \A words \in {Marked, Dotted, Others, Hangul, Supplementary} :
    LET starters == {c \in words : LET n == getNorm16(c)
                       IN  /\ isDecompYes(n) /\ ~IsJamoL(c)
                           /\ getCompositionsListForDecompYes(n) # NoList}
        marks    == {c \in words : isMaybe(Norm16(c)) /\ ~isJamoVT(Norm16(c))}
    IN  /\ \A c \in words : /\ getCombiningClass(c) = CC(c)
                            /\ Decomposition(c, Norm16(c)).text = Mapping(c)
        /\ \A c \in starters, d \in marks :
             combine(getCompositionsList(getNorm16(c)), d) \div 2 = Composite(c, d)

MCTexts ==
  BoundedSeq(Marked, 4) \cup BoundedSeq(Dotted, 4) \cup BoundedSeq(Others, 3)
    \cup BoundedSeq(Hangul, 3) \cup BoundedSeq(Hangul \ {LVT, LowGrave}, 4)
    \cup BoundedSeq(Supplementary, 3) \cup BoundedSeq(Supplementary \ {LoneLead}, 4)

MCFirsts(words) == {s \in BoundedSeq(words, 2) : NormalizeCodePoints(s) = s}

Appends(words) ==
  [op : {"append"}, first : MCFirsts(words), second : BoundedSeq(words, 2),
   legal : {TRUE}, error : {U_ZERO_ERROR}]

MCCalls ==
  [op : {"normalize", "isNormalized"}, first : {<<>>}, second : MCTexts,
   legal : {TRUE}, error : {U_ZERO_ERROR}]
    \cup Appends(Marked) \cup Appends(Dotted) \cup Appends(Others)
    \cup Appends(Hangul) \cup Appends(Supplementary)
    \cup [op : {"normalize", "isNormalized", "append"}, first : {<<97>>},
          second : {<<Grave>>}, legal : BOOLEAN,
          error : {U_ZERO_ERROR, U_ILLEGAL_ARGUMENT_ERROR}]
=============================================================================
