---------------------------- MODULE LabelChecks -----------------------------
(***************************************************************************)
(* The contextual checks of a label in u_uts46.cc: the BiDi rule and the   *)
(* two groups of contextual rules.  They look at code points; the label is *)
(* well-formed when they are called, and not empty.  CC(), which is        *)
(* getCombiningClass() here, is declared by CanonicalOrdering.             *)
(***************************************************************************)
EXTENDS CanonicalOrdering, CharacterEnums

CONSTANTS
  Direction(_),    (* u_charDirection(): "L", "R", "AL", "EN", "NSM", ...  *)
  JoiningType(_),  (* ubidi_getJoiningType(): "L", "D", "R", "T", ...      *)
  Script(_)        (* uscript_getScript(), a number of UScriptCode         *)

Dot              == 46
MiddleDot        == 183
Keraia           == 885
Geresh           == 1523
Gershayim        == 1524
KatakanaDot      == 12539
ZWNJ             == 8204
ZWJ              == 8205
Virama           == 9

IsLower(c) == 97 <= c /\ c <= 122
IsUpper(c) == 65 <= c /\ c <= 90
IsDigit(c) == 48 <= c /\ c <= 57

Neutral == {"ES", "CS", "ET", "ON", "BN", "NSM"}

-----------------------------------------------------------------------------
(* checkLabelBiDi().  The last direction is that of the last character     *)
(* behind the first that is not a non-spacing mark, or the first one's.    *)
LastDirection(c) ==
  LET at == {x \in 2 .. Len(c) : Direction(c[x]) # "NSM"}
  IN  IF at = {} THEN Direction(c[1])
      ELSE Direction(c[CHOOSE x \in at : \A y \in at : y <= x])

Directions(c) == {Direction(c[x]) : x \in DOMAIN c}

HasRTL(c) == Directions(c) \cap {"R", "AL", "AN"} # {}

PassesBiDiRule(c) ==
  LET first == Direction(c[1])
      all   == Directions(c)
  IN  /\ first \in {"L", "R", "AL"}
      /\ IF first = "L"
         THEN /\ LastDirection(c) \in {"L", "EN"}
              /\ all \subseteq {"L", "EN"} \cup Neutral
         ELSE /\ LastDirection(c) \in {"R", "AL", "EN", "AN"}
              /\ all \subseteq {"R", "AL", "EN", "AN"} \cup Neutral
              /\ ~({"EN", "AN"} \subseteq all)

(* isASCIIOkBiDi(): the same for the labels of an ASCII prefix, which ends *)
(* with a dot.  In the UTF-8 version the prefix is that of the source.     *)
IsASCIIOkBiDi(s, utf8) ==
  LET letter(c)   == IsLower(c) \/ (utf8 /\ IsUpper(c))
      starts(x)   == x = 1 \/ s[x - 1] = Dot
      separator(c) == c <= 32 /\ (c >= 28 \/ (9 <= c /\ c <= 13))
  IN  \A x \in DOMAIN s :
        IF s[x] = Dot
        THEN ~starts(x) => letter(s[x - 1]) \/ IsDigit(s[x - 1])
        ELSE IF starts(x) THEN letter(s[x]) ELSE ~separator(s[x])

-----------------------------------------------------------------------------
(* isLabelOkContextJ(): a joiner behind a virama is fine; a non-joiner is  *)
(* fine, too, between two characters that join across it.                  *)
JoinsBefore(c, x) ==
  \E y \in 1 .. x - 1 :
    /\ JoiningType(c[y]) \in {"L", "D"}
    /\ \A z \in y + 1 .. x - 1 : JoiningType(c[z]) = "T"

JoinsAfter(c, x) ==
  \E y \in x + 1 .. Len(c) :
    /\ JoiningType(c[y]) \in {"R", "D"}
    /\ \A z \in x + 1 .. y - 1 : JoiningType(c[z]) = "T"

IsLabelOkContextJ(c) ==
  \A x \in DOMAIN c : c[x] \in {ZWNJ, ZWJ} =>
    /\ x > 1
    /\ \/ CC(c[x - 1]) = Virama
       \/ c[x] = ZWNJ /\ JoinsBefore(c, x) /\ JoinsAfter(c, x)

(* checkLabelContextO(): what surrounds the five punctuation characters.   *)
ContextOPunctuation(c) ==
  \E x \in DOMAIN c :
    \/ c[x] = MiddleDot
       /\ ~(1 < x /\ x < Len(c) /\ c[x - 1] = 108 /\ c[x + 1] = 108)
    \/ c[x] = Keraia
       /\ ~(x < Len(c) /\ Script(c[x + 1]) = USCRIPT_GREEK)
    \/ c[x] \in {Geresh, Gershayim}
       /\ ~(1 < x /\ Script(c[x - 1]) = USCRIPT_HEBREW)
    \/ c[x] = KatakanaDot
       /\ \A y \in DOMAIN c :
            Script(c[y]) \notin {USCRIPT_HIRAGANA, USCRIPT_KATAKANA, USCRIPT_HAN}

(* The two kinds of Arabic digits do not occur together.                   *)
ContextODigits(c) ==
  /\ \E x \in DOMAIN c : c[x] \in 1632 .. 1641
  /\ \E x \in DOMAIN c : c[x] \in 1776 .. 1785
=============================================================================
