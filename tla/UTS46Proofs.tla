---------------------------- MODULE UTS46Proofs -----------------------------
(***************************************************************************)
(* process() and processUTF8(): the length of the text and the limits of   *)
(* its labels, which are kept by hand, stay those of the text, whatever    *)
(* processLabel() makes of a label; and a name with a severe error does    *)
(* not look valid.  For every name, all options, all character data and    *)
(* every normalizer and decoder of which NameInputs is true.               *)
(*                                                                         *)
(* First what the helpers return, then each way out of processLabel(),     *)
(* then the inductive invariant, one lemma per operation; and the same     *)
(* for what looks bad.                                                     *)
(***************************************************************************)
EXTENDS UTS46Calls, UTF16Proofs

Text == Seq(CodeUnit)

(* The calls have texts, and U+FFFD is a code unit.                        *)
NameInputs ==
  /\ Inputs \subseteq Calls /\ \A c \in Inputs : c.src \in Text
  /\ Replacement < FirstSupplementary
  /\ \A s \in Text : ReturnsTexts(s)
  /\ \A s, t \in Text : LeavesLabels(s, t)

-----------------------------------------------------------------------------
(* The units that the processing itself puts into a text.                  *)
LEMMA UnitsOfTheCode ==
  ASSUME NameInputs
  PROVE  Replacement \in CodeUnit /\ \A c \in Nat : c <= 127 => c \in CodeUnit
BY SurrogateLayout DEF NameInputs, CodeUnit, Replacement

(* A function on the indexes of a text makes a text of the same length.    *)
LEMMA FunctionIsText ==
  ASSUME NEW n \in Nat, NEW f, f = [x \in 1 .. n |-> f[x]],
         \A x \in 1 .. n : f[x] \in CodeUnit
  PROVE  f \in Text /\ Len(f) = n
<1>1. f \in [1 .. n -> CodeUnit]
  OBVIOUS
<1>2. f \in Seq(CodeUnit)
  BY <1>1, SeqDef
<1>3. DOMAIN f = 1 .. n /\ DOMAIN f = 1 .. Len(f) /\ Len(f) \in Nat
  BY <1>1, <1>2
<1> QED BY <1>2, <1>3 DEF Text

(* What is flagged is what the name says, or nothing.                      *)
LEMMA FlagsAreNames ==
  ASSUME NEW set, NEW name \in ErrorNames
  PROVE  Flags(set, name) \subseteq ErrorNames
BY DEF Flags

(* Code units are numbers.                                                 *)
LEMMA TextsAreNumbers == Text \subseteq Seq(Nat)
<1> SUFFICES ASSUME NEW s \in Text PROVE s \in Seq(Nat)
  OBVIOUS
<1>1. \A x \in CodeUnit : x \in Nat
  BY SurrogateLayout DEF CodeUnit
<1>2. s \in Seq(CodeUnit) /\ Len(s) \in Nat
  BY DEF Text
<1>3. s \in [1 .. Len(s) -> CodeUnit]
  BY <1>2
<1>4. s \in [1 .. Len(s) -> Nat]
  BY <1>1, <1>3
<1> QED BY <1>2, <1>4, SeqDef

(* Part of a text.                                                         *)
LEMMA PartOfText ==
  ASSUME NEW s \in Text, NEW i \in Nat, NEW j \in Nat, j <= Len(s)
  PROVE  /\ SubSeq(s, i + 1, j) \in Text
         /\ Len(SubSeq(s, i + 1, j)) = IF i <= j THEN j - i ELSE 0
         /\ \A x \in 1 .. Len(SubSeq(s, i + 1, j)) : SubSeq(s, i + 1, j)[x] = s[i + x]
BY DEF Text

(* What is left of a text.                                                 *)
LEMMA RestOfText ==
  ASSUME NEW s \in Text, NEW i \in Nat
  PROVE  /\ Drop(s, i) \in Text
         /\ i <= Len(s) => /\ Len(Drop(s, i)) = Len(s) - i
                           /\ \A x \in 1 .. Len(s) - i : Drop(s, i)[x] = s[i + x]
<1>1. Len(s) \in Nat /\ Len(s) <= Len(s)
  BY DEF Text
<1>2. Drop(s, i) = SubSeq(s, i + 1, Len(s))
  BY DEF Drop
<1>3. /\ SubSeq(s, i + 1, Len(s)) \in Text
      /\ Len(SubSeq(s, i + 1, Len(s))) = IF i <= Len(s) THEN Len(s) - i ELSE 0
      /\ \A x \in 1 .. Len(SubSeq(s, i + 1, Len(s))) :
           SubSeq(s, i + 1, Len(s))[x] = s[i + x]
  BY <1>1, PartOfText
<1> QED BY <1>2, <1>3

(* Two texts make one.                                                     *)
LEMMA TextsMakeOne ==
  ASSUME NEW a \in Text, NEW b \in Text
  PROVE  /\ a \o b \in Text /\ Len(a \o b) = Len(a) + Len(b)
         /\ Len(a) \in Nat /\ Len(b) \in Nat
         /\ \A i \in 1 .. Len(a) : (a \o b)[i] = a[i]
         /\ \A i \in 1 .. Len(b) : (a \o b)[Len(a) + i] = b[i]
<1>1. a \in Seq(CodeUnit) /\ b \in Seq(CodeUnit)
  BY DEF Text
<1>2. Len(a) \in Nat /\ Len(b) \in Nat
  BY <1>1
<1>3. /\ a \o b \in Seq(CodeUnit) /\ Len(a \o b) = Len(a) + Len(b)
      /\ \A i \in 1 .. Len(a) : (a \o b)[i] = a[i]
      /\ \A i \in 1 .. Len(b) : (a \o b)[Len(a) + i] = b[i]
  BY <1>1, ConcatUnits
<1> QED BY <1>2, <1>3 DEF Text

(* The scan replaces units, one by one.                                    *)
LEMMA ScannedIsText ==
  ASSUME NameInputs, NEW u \in Text
  PROVE  Scanned(u) \in Text /\ Len(Scanned(u)) = Len(u)
<1> DEFINE f == Scanned(u)
<1>1. u \in Seq(CodeUnit) /\ Len(u) \in Nat /\ DOMAIN u = 1 .. Len(u)
  BY DEF Text
<1>2. f = [x \in 1 .. Len(u) |-> f[x]]
  BY <1>1 DEF Scanned
<1>3. \A x \in 1 .. Len(u) : f[x] \in {Replacement, u[x]}
  BY <1>1 DEF Scanned
<1>4. \A x \in 1 .. Len(u) : u[x] \in CodeUnit
  BY <1>1
<1> HIDE DEF f
<1>5. \A x \in 1 .. Len(u) : f[x] \in CodeUnit
  BY <1>3, <1>4, UnitsOfTheCode
<1> QED BY <1>1, <1>2, <1>5, FunctionIsText DEF f

(* A leading mark of two units becomes one unit: the text is shorter, and  *)
(* that is what the length says.                                           *)
LEMMA RepairedIsText ==
  ASSUME NameInputs, NEW u \in Text, u # <<>>
  PROVE  Repaired(u) \in Text /\ Len(Repaired(u)) = RepairedLength(u)
<1> DEFINE n == U16_LENGTH(CodePointAt(u, 0))
           rest == Drop(Scanned(u), n)
<1>1. u \in Seq(0 .. FirstSupplementary - 1) /\ Len(u) \in Nat /\ Len(u) > 0
  BY DEF Text, CodeUnit
<1>2. 0 \in 0 .. Len(u) - 1
  BY <1>1
<1>3. 0 + n <= Len(u) /\ n \in 1 .. 2
  <2>1. 0 + U16_LENGTH(CodePointAt(u, 0)) <= Len(u)
    BY <1>1, <1>2, CodePointAtRange
  <2> QED BY <2>1 DEF U16_LENGTH
<1>4. Scanned(u) \in Text /\ Len(Scanned(u)) = Len(u)
  BY ScannedIsText
<1> HIDE DEF n
<1>5. rest \in Text /\ Len(rest) = Len(u) - n
  <2>1. n \in Nat /\ n <= Len(u)
    BY <1>3
  <2> QED BY <1>1, <1>4, <2>1, PartOfText DEF Drop
<1>6. <<Replacement>> \in Text /\ Len(<<Replacement>>) = 1
  BY UnitsOfTheCode DEF Text
<1>7. <<Replacement>> \o rest \in Text /\ Len(<<Replacement>> \o rest) = 1 + Len(rest)
  <2> HIDE DEF rest
  <2> QED BY <1>5, <1>6, ConcatUnits DEF Text
<1> QED BY <1>1, <1>3, <1>4, <1>5, <1>7 DEF Repaired, RepairedLength, n

(* An ACE label that is marked as bad.                                     *)
LEMMA BadLabelIsText ==
  ASSUME NameInputs, NEW label \in Text, NEW errs \in SUBSET ErrorNames
  PROVE  LET bad == MarkBadACELabel(label, errs)
         IN  /\ bad.label \in Text /\ bad.length = Len(bad.label)
             /\ bad.errors \subseteq ErrorNames
<1> DEFINE onlyLDH == \A c \in {label[x] : x \in 5 .. Len(label)} :
                        IsASCII(c) /\ IsLDHDot(c) /\ c # Dot
           f == [x \in DOMAIN label |->
                   IF x > 4 /\ Forbidden(label[x]) THEN Replacement ELSE label[x]]
           hasDot == Flags(Dot \in {label[x] : x \in 5 .. Len(label)}, "LABEL_HAS_DOT")
           tooLong == LabelIsTooLong(Len(label))
<1>1. label \in Seq(CodeUnit) /\ Len(label) \in Nat /\ DOMAIN label = 1 .. Len(label)
  BY DEF Text
<1>2. hasDot \subseteq ErrorNames /\ tooLong \subseteq ErrorNames
  <2>1. "LABEL_HAS_DOT" \in ErrorNames /\ "LABEL_TOO_LONG" \in ErrorNames
    BY DEF ErrorNames, SevereErrors
  <2> QED BY <2>1, FlagsAreNames DEF LabelIsTooLong
<1>3. f \in Text /\ Len(f) = Len(label)
  <2>1. f = [x \in 1 .. Len(label) |-> f[x]]
    BY <1>1
  <2>2. \A x \in 1 .. Len(label) : f[x] \in {Replacement, label[x]}
    BY <1>1
  <2>3. \A x \in 1 .. Len(label) : label[x] \in CodeUnit
    BY <1>1
  <2> HIDE DEF f
  <2>4. \A x \in 1 .. Len(label) : f[x] \in CodeUnit
    BY <2>2, <2>3, UnitsOfTheCode
  <2> QED BY <1>1, <2>1, <2>4, FunctionIsText
<1>4. Marked(label) \in Text /\ MarkedLength(label) = Len(Marked(label))
  BY <1>1, UnitsOfTheCode DEF Marked, MarkedLength, Text
<1>5. CASE onlyLDH
  <2>1. MarkBadACELabel(label, errs)
          = [label |-> Marked(label), length |-> MarkedLength(label), errors |-> errs]
    BY <1>5 DEF MarkBadACELabel
  <2> QED BY <1>4, <2>1
<1>6. CASE ~onlyLDH
  <2> DEFINE b == \A c \in {label[x] : x \in 5 .. Len(label)} : IsASCII(c) /\ ~Forbidden(c)
  <2>1. MarkBadACELabel(label, errs)
          = [label |-> f, length |-> Len(label),
             errors |-> errs \cup hasDot \cup IF b THEN tooLong ELSE {}]
    BY <1>6 DEF MarkBadACELabel
  <2> HIDE DEF onlyLDH, f, hasDot, tooLong, b
  <2> QED BY <1>2, <1>3, <2>1
<1> QED BY <1>5, <1>6

-----------------------------------------------------------------------------
(* What processLabel() returns, by any of its ways out: a text and its     *)
(* length, and names of errors.                                            *)
ResultOK(r) ==
  /\ r.label \in Text /\ r.length = Len(r.label)
  /\ r.errors \subseteq ErrorNames
  /\ {r.isBiDi, r.isOkBiDi} \subseteq BOOLEAN
  /\ r.code \in Int

BiDiOK == {isBiDi, isOkBiDi} \subseteq BOOLEAN

(* A label that has passed its checks.                                     *)
LEMMA ValidIsOK ==
  ASSUME BiDiOK, NEW label \in Text, NEW c, NEW errs \in SUBSET ErrorNames, NEW fails
  PROVE  ResultOK(Valid(label, c, errs, fails))
<1> DEFINE biDi == isBiDi \/ (ChecksBiDi /\ HasRTL(c))
           okBiDi == isOkBiDi /\ (ChecksBiDi => PassesBiDiRule(c))
           code == IF fails THEN U_INPUT_TOO_LONG_ERROR ELSE U_ZERO_ERROR
           more == errs \cup ContextErrors(c)
                     \cup IF fails THEN {} ELSE LabelIsTooLong(Len(label))
<1>1. Valid(label, c, errs, fails)
        = [label |-> label, length |-> Len(label), errors |-> more,
           isBiDi |-> biDi, isOkBiDi |-> okBiDi, code |-> code]
  BY DEF Valid
<1>2. biDi \in BOOLEAN /\ okBiDi \in BOOLEAN
  OBVIOUS
<1>3. code \in Int
  BY DEF U_INPUT_TOO_LONG_ERROR, U_ZERO_ERROR
<1>4. more \subseteq ErrorNames
  <2>1. {"CONTEXTJ", "CONTEXTO_PUNCTUATION", "CONTEXTO_DIGITS", "LABEL_TOO_LONG"}
          \subseteq ErrorNames
    BY DEF ErrorNames
  <2>2. ContextErrors(c) \subseteq ErrorNames
    BY <2>1, FlagsAreNames DEF ContextErrors
  <2>3. LabelIsTooLong(Len(label)) \subseteq ErrorNames
    BY <2>1, FlagsAreNames DEF LabelIsTooLong
  <2> QED BY <2>2, <2>3
<1> HIDE DEF biDi, okBiDi, code, more
<1> QED BY <1>1, <1>2, <1>3, <1>4 DEF ResultOK

(* A label that is not valid.                                              *)
LEMMA InvalidIsOK ==
  ASSUME BiDiOK, NEW label \in Text, NEW errs \in SUBSET ErrorNames
  PROVE  ResultOK(Invalid(label, Len(label), errs))
<1>1. U_ZERO_ERROR \in Int
  BY DEF U_ZERO_ERROR
<1> QED BY <1>1 DEF Invalid, ResultOK, BiDiOK

(* An ACE label that is not valid.                                         *)
LEMMA BadACEIsOK ==
  ASSUME NameInputs, BiDiOK, NEW label \in Text, NEW errs \in SUBSET ErrorNames
  PROVE  ResultOK(BadACE(label, errs))
<1> DEFINE bad == MarkBadACELabel(label, errs)
<1>1. /\ bad.label \in Text /\ bad.length = Len(bad.label)
      /\ bad.errors \subseteq ErrorNames
  BY BadLabelIsText
<1>2. BadACE(label, errs) = Invalid(bad.label, bad.length, bad.errors)
  BY DEF BadACE
<1> HIDE DEF bad
<1>3. ResultOK(Invalid(bad.label, Len(bad.label), bad.errors))
  BY <1>1, InvalidIsOK
<1> QED BY <1>1, <1>2, <1>3

(* A label whose text is valid.                                            *)
LEMMA FinishedIsOK ==
  ASSUME NameInputs, BiDiOK, NEW label \in Text, NEW u \in Text,
         NEW errs \in SUBSET ErrorNames
  PROVE  ResultOK(FinishLabel(label, u, errs))
<1> DEFINE encodes == call.toASCII /\ ~IsACE(label) /\ \E x \in DOMAIN u : ~IsASCII(u[x])
           fails   == encodes /\ Len(u) > EncodeMaxCodeUnits
           becomes == IF fails THEN u ELSE IF encodes THEN AceForm(u)
                      ELSE IF call.toASCII THEN label ELSE u
<1>1. AceForm(u) \in Text
  <2>1. EncodeText(u) \in Text
    BY DEF NameInputs, ReturnsTexts, Text
  <2>2. AcePrefix \in Text
    <3>1. \A c \in {45, 110, 120} : c \in CodeUnit
      BY UnitsOfTheCode
    <3> QED BY <3>1 DEF AcePrefix, Text
  <2> QED BY <2>1, <2>2, ConcatUnits DEF AceForm, Text
<1>2. becomes \in Text
  BY <1>1
<1>3. FinishLabel(label, u, errs) = Valid(becomes, CodePoints(u), errs, fails)
  BY DEF FinishLabel
<1> HIDE DEF becomes, fails
<1> QED BY <1>2, <1>3, ValidIsOK

(* A label, or what an ACE label stands for, with its checks.              *)
LEMMA CheckedIsOK ==
  ASSUME NameInputs, BiDiOK, NEW label \in Text, NEW u \in Text, u # <<>>,
         NEW errs \in SUBSET ErrorNames
  PROVE  ResultOK(ProcessText(label, u, errs))
<1> DEFINE all == errs \cup ValidityErrors(u)
<1>1. all \in SUBSET ErrorNames
  <2>1. {"HYPHEN_3_4", "LEADING_HYPHEN", "TRAILING_HYPHEN", "LABEL_HAS_DOT",
         "DISALLOWED", "LEADING_COMBINING_MARK"} \subseteq ErrorNames
    BY DEF ErrorNames, SevereErrors
  <2>2. ValidityErrors(u) \subseteq ErrorNames
    <3> DEFINE hyphens == Len(u) >= 4 /\ u[3] = Hyphen /\ u[4] = Hyphen
               leading == u[1] = Hyphen
               ends    == Last(u) = Hyphen
               hasDot  == \E x \in DOMAIN u : u[x] = Dot
               other   == \E x \in DOMAIN u : u[x] # Dot /\ Scanned(u)[x] = Replacement
               mark    == HasLeadingMark(u)
    <3>1. ValidityErrors(u)
            = Flags(hyphens, "HYPHEN_3_4") \cup Flags(leading, "LEADING_HYPHEN")
                \cup Flags(ends, "TRAILING_HYPHEN") \cup Flags(hasDot, "LABEL_HAS_DOT")
                \cup Flags(other, "DISALLOWED") \cup Flags(mark, "LEADING_COMBINING_MARK")
      BY DEF ValidityErrors
    <3> HIDE DEF hyphens, leading, ends, hasDot, other, mark
    <3>2. /\ Flags(hyphens, "HYPHEN_3_4") \subseteq ErrorNames
          /\ Flags(leading, "LEADING_HYPHEN") \subseteq ErrorNames
          /\ Flags(ends, "TRAILING_HYPHEN") \subseteq ErrorNames
          /\ Flags(hasDot, "LABEL_HAS_DOT") \subseteq ErrorNames
          /\ Flags(other, "DISALLOWED") \subseteq ErrorNames
          /\ Flags(mark, "LEADING_COMBINING_MARK") \subseteq ErrorNames
      BY <2>1, FlagsAreNames
    <3> QED BY <3>1, <3>2
  <2> QED BY <2>2
<1>2. Repaired(u) \in Text /\ Len(Repaired(u)) = RepairedLength(u)
  BY RepairedIsText
<1>3. ProcessText(label, u, errs) = CheckLabel(label, u, all)
  BY DEF ProcessText
<1> HIDE DEF all
<1>4. CASE all \cap SevereErrors = {}
  <2>1. CheckLabel(label, u, all) = FinishLabel(label, Repaired(u), all)
    BY <1>4 DEF CheckLabel
  <2> QED BY <1>1, <1>2, <1>3, <2>1, FinishedIsOK
<1>5. CASE all \cap SevereErrors # {} /\ IsACE(label)
  <2>1. CheckLabel(label, u, all) = BadACE(label, all \cup {"INVALID_ACE_LABEL"})
    BY <1>5 DEF CheckLabel
  <2>2. all \cup {"INVALID_ACE_LABEL"} \in SUBSET ErrorNames
    BY <1>1 DEF ErrorNames, SevereErrors
  <2> QED BY <1>3, <2>1, <2>2, BadACEIsOK
<1>6. CASE all \cap SevereErrors # {} /\ ~IsACE(label)
  <2>1. CheckLabel(label, u, all) = Invalid(Repaired(u), Len(Repaired(u)), all)
    BY <1>2, <1>6 DEF CheckLabel
  <2> QED BY <1>1, <1>2, <1>3, <2>1, InvalidIsOK
<1> QED BY <1>4, <1>5, <1>6

(* What an ACE label with more than its prefix stands for.                 *)
LEMMA DecodedIsText ==
  ASSUME NameInputs, NEW label \in Text, IsACE(label), ~IsEmptyACE(label),
         Decoded(Drop(label, 4)).ok
  PROVE  Decoded(Drop(label, 4)).text \in Text /\ Decoded(Drop(label, 4)).text # <<>>
<1>1. Len(label) >= 4
  BY DEF IsACE
<1>2. Len(label) # 4
  BY DEF IsEmptyACE
<1>3. Len(label) \in Nat
  BY DEF Text
<1> DEFINE encoded == Drop(label, 4)
<1>4. encoded \in Text /\ Len(encoded) = Len(label) - 4
  <2>1. 4 \in Nat /\ 4 <= Len(label)
    BY <1>1, <1>3
  <2> HIDE DEF encoded
  <2>2. /\ Drop(label, 4) \in Text /\ Len(Drop(label, 4)) = Len(label) - 4
    BY <2>1, RestOfText
  <2> QED BY <2>2 DEF encoded
<1>5. encoded # <<>>
  <2> HIDE DEF encoded
  <2> QED BY <1>1, <1>2, <1>3, <1>4
<1> QED BY <1>4, <1>5 DEF NameInputs, ReturnsTexts, Text

(* processLabel() returns the length of the label it leaves.               *)
LEMMA ProcessedIsOK ==
  ASSUME NameInputs, BiDiOK, NEW label \in Text, NEW errs \in SUBSET ErrorNames
  PROVE  ResultOK(ProcessLabel(label, errs))
<1>1. /\ errs \cup {"EMPTY_LABEL"} \in SUBSET ErrorNames
      /\ errs \cup {"INVALID_ACE_LABEL"} \in SUBSET ErrorNames
      /\ errs \cup {"PUNYCODE"} \in SUBSET ErrorNames
  BY DEF ErrorNames, SevereErrors
<1>2. CASE label = <<>>
  <2>1. ProcessLabel(label, errs) = Invalid(label, Len(label), errs \cup {"EMPTY_LABEL"})
    BY <1>2 DEF ProcessLabel
  <2> QED BY <1>1, <2>1, InvalidIsOK
<1>3. CASE label # <<>> /\ ~IsACE(label)
  <2>1. ProcessLabel(label, errs) = ProcessText(label, label, errs)
    BY <1>3 DEF ProcessLabel
  <2> QED BY <1>3, <2>1, CheckedIsOK
<1>4. CASE label # <<>> /\ IsACE(label) /\ IsEmptyACE(label)
  <2>1. ProcessLabel(label, errs) = BadACE(label, errs \cup {"INVALID_ACE_LABEL"})
    BY <1>4 DEF ProcessLabel
  <2> QED BY <1>1, <2>1, BadACEIsOK
<1>5. CASE label # <<>> /\ IsACE(label) /\ ~IsEmptyACE(label)
  <2> DEFINE encoded == Drop(label, 4)
             decoded == Decoded(encoded)
  <2>1. ProcessLabel(label, errs) = ProcessDecoded(label, decoded, errs)
    BY <1>5 DEF ProcessLabel
  <2>3. decoded.ok => decoded.text \in Text /\ decoded.text # <<>>
    BY <1>5, DecodedIsText
  <2> HIDE DEF decoded
  <2>4. CASE ~decoded.ok
    <3>1. ProcessDecoded(label, decoded, errs) = BadACE(label, errs \cup {"PUNYCODE"})
      BY <2>4 DEF ProcessDecoded
    <3> QED BY <1>1, <2>1, <3>1, BadACEIsOK
  <2>5. CASE decoded.ok /\ ~IsNormalized(decoded.text)
    <3>1. ProcessDecoded(label, decoded, errs)
            = BadACE(label, errs \cup {"INVALID_ACE_LABEL"})
      BY <2>5 DEF ProcessDecoded
    <3> QED BY <1>1, <2>1, <3>1, BadACEIsOK
  <2>6. CASE decoded.ok /\ IsNormalized(decoded.text)
    <3>1. ProcessDecoded(label, decoded, errs) = ProcessText(label, decoded.text, errs)
      BY <2>6 DEF ProcessDecoded
    <3> QED BY <2>1, <2>3, <2>6, <3>1, CheckedIsOK
  <2> QED BY <2>4, <2>5, <2>6
<1> QED BY <1>2, <1>3, <1>4, <1>5

-----------------------------------------------------------------------------
(* The inductive invariant.  While the loop over the ASCII prefix runs,    *)
(* what it has copied ends with a dot where the current label starts, and  *)
(* is of a kind that the normalizer leaves where it is; while the other    *)
(* loop runs, the label starts inside the text.                            *)
CallIsOK  == call \in Calls /\ call.src \in Text
TextsOK   == prefix \in Text /\ text \in Text /\ behind \in Text
IndexesOK == /\ asciiEnd \in 0 .. Len(call.src) /\ asciiStart \in 0 .. asciiEnd
             /\ destLength \in Nat /\ labelStart \in Nat /\ labelLimit \in Nat
ErrorsOK  == /\ errors \subseteq ErrorNames /\ labelErrors \subseteq ErrorNames
             /\ errorCode \in Int
FlagsOK   == {doMapDevChars, isTransDiff} \subseteq BOOLEAN /\ BiDiOK

CopyIsOK ==
  pc = "ascii" =>
    /\ Len(text) = asciiEnd
    /\ \A x \in 1 .. asciiEnd : IsASCII(text[x]) /\ ~IsUpper(text[x])
    /\ asciiStart > 0 => text[asciiStart] = Dot

LabelIsOK == LengthIsKept /\ (pc = "unicode" => labelStart <= Len(text))

NameInv ==
  /\ pc \in {"ready", "ascii", "unicode", "verdict", "done"}
  /\ CallIsOK /\ TextsOK /\ IndexesOK /\ ErrorsOK /\ FlagsOK /\ CopyIsOK /\ LabelIsOK

-----------------------------------------------------------------------------
(* Every operation keeps the invariant.                                    *)

(* The beginning of a call.                                                *)
LEMMA CallKeeps ==
  ASSUME NameInputs, NEW c \in Calls, c.src \in Text, Call(c)
  PROVE  NameInv'
<1>1. CallIsOK'
  BY DEF Call, CallIsOK
<1>2. Normalize(c.src) \in Text /\ <<>> \in Text
  BY DEF NameInputs, ReturnsTexts, Text
<1>3. TextsOK'
  BY <1>2 DEF Call, Reset, TextsOK
<1>4. /\ pc' \in {"done", "unicode", "ascii"}
      /\ pc' = "ascii" => text' = <<>>
  BY DEF Call
<1>5. Len(text') \in Nat /\ destLength' = Len(text') /\ Len(c.src) \in Nat
  BY <1>3 DEF TextsOK, Text, Call
<1>6. IndexesOK'
  BY <1>5 DEF Call, Reset, IndexesOK
<1>7. ErrorsOK'
  <2>1. "EMPTY_LABEL" \in ErrorNames
    BY DEF ErrorNames
  <2>2. errors' \in {{}, {"EMPTY_LABEL"}}
    BY DEF Call
  <2> QED BY <2>1, <2>2 DEF Call, Reset, ErrorsOK, U_ZERO_ERROR
<1>8. FlagsOK'
  <2>1. MapsDeviations(c) \in BOOLEAN
    BY DEF MapsDeviations
  <2>2. /\ doMapDevChars' = MapsDeviations(c) /\ isTransDiff' = FALSE
        /\ isBiDi' = FALSE /\ isOkBiDi' = TRUE
    BY DEF Call, Reset
  <2> QED BY <2>1, <2>2 DEF FlagsOK, BiDiOK
<1>9. CopyIsOK'
  <2>1. asciiEnd' = 0 /\ asciiStart' = 0
    BY DEF Call, Reset
  <2> QED BY <1>4, <2>1 DEF CopyIsOK
<1>10. LabelIsOK'
  <2>1. labelStart' = 0 /\ labelLimit' = 0
    BY DEF Call, Reset
  <2>2. ~(labelStart' > 0) /\ labelStart' <= labelLimit' /\ labelStart' <= Len(text')
    BY <1>5, <2>1
  <2>3. destLength' = Len(text')
    BY <1>5
  <2> QED BY <2>2, <2>3 DEF LabelIsOK, LengthIsKept
<1> QED BY <1>1, <1>3, <1>4, <1>6, <1>7, <1>8, <1>9, <1>10 DEF NameInv

(* A unit that the loop over the ASCII prefix copies.                      *)
LEMMA AsciiCopyKeeps ==
  ASSUME NameInputs, NameInv, AsciiCopy
  PROVE  NameInv'
<1> DEFINE unit == IF IsUpper(Next1) THEN Next1 + 32 ELSE Next1
<1>1. /\ asciiEnd \in Nat /\ asciiStart \in 0 .. asciiEnd
      /\ asciiEnd + 1 \in 1 .. Len(call.src) /\ Len(call.src) \in Nat
  BY DEF NameInv, IndexesOK, CallIsOK, Text, AsciiCopy, AtEnd
<1>2. Next1 \in Nat /\ Next1 <= 127
  <2>1. Next1 \in CodeUnit
    BY <1>1 DEF NameInv, CallIsOK, Text, Next1
  <2> QED BY <2>1 DEF AsciiCopy, LeavesAscii, IsASCII, CodeUnit
<1>3. unit \in Nat /\ IsASCII(unit) /\ ~IsUpper(unit)
  BY <1>2 DEF IsASCII, IsUpper
<1>4. unit \in CodeUnit
  BY <1>3, UnitsOfTheCode DEF IsASCII
<1>5. text' = Append(text, unit) /\ asciiEnd' = asciiEnd + 1 /\ pc' = "ascii"
      /\ asciiStart' = asciiStart /\ pc = "ascii"
  BY DEF AsciiCopy
<1> HIDE DEF unit
<1>6. /\ text \in Seq(CodeUnit) /\ Len(text) = asciiEnd
      /\ \A x \in 1 .. asciiEnd : IsASCII(text[x]) /\ ~IsUpper(text[x])
      /\ asciiStart > 0 => text[asciiStart] = Dot
  BY <1>5 DEF NameInv, TextsOK, CopyIsOK, Text
<1>7. /\ text' \in Seq(CodeUnit) /\ Len(text') = asciiEnd + 1
      /\ \A x \in 1 .. asciiEnd : text'[x] = text[x]
      /\ text'[asciiEnd + 1] = unit
  BY <1>1, <1>4, <1>5, <1>6
<1>8. CallIsOK' /\ TextsOK' /\ IndexesOK'
  BY <1>1, <1>5, <1>7
  DEF NameInv, AsciiCopy, CallIsOK, TextsOK, IndexesOK, Text, indexes
<1>9. ErrorsOK' /\ FlagsOK'
  <2>1. {"LEADING_HYPHEN", "TRAILING_HYPHEN"} \subseteq ErrorNames
    BY DEF ErrorNames
  <2> DEFINE leads == Next1 = Hyphen /\ asciiEnd = asciiStart
             ends  == /\ Next1 = Hyphen
                      /\ asciiEnd + 1 < Len(call.src) => call.src[asciiEnd + 2] = Dot
  <2>2. labelErrors' = labelErrors \cup Flags(leads, "LEADING_HYPHEN")
                         \cup Flags(ends, "TRAILING_HYPHEN")
    BY DEF AsciiCopy
  <2> HIDE DEF leads, ends
  <2>3. labelErrors' \subseteq ErrorNames
    BY <2>1, <2>2, FlagsAreNames DEF NameInv, ErrorsOK
  <2> QED BY <2>3 DEF NameInv, AsciiCopy, ErrorsOK, FlagsOK, BiDiOK, indexes, bidi
<1>10. CopyIsOK'
  BY <1>1, <1>3, <1>5, <1>6, <1>7 DEF CopyIsOK
<1>11. LabelIsOK'
  BY <1>5 DEF LabelIsOK, LengthIsKept
<1> QED BY <1>5, <1>8, <1>9, <1>10, <1>11 DEF NameInv

(* A dot: what was copied ends with it where the next label starts.        *)
LEMMA AsciiDotKeeps ==
  ASSUME NameInputs, NameInv, AsciiDot
  PROVE  NameInv'
<1>1. /\ asciiEnd \in Nat /\ asciiStart \in 0 .. asciiEnd
      /\ asciiEnd + 1 \in 1 .. Len(call.src) /\ Len(call.src) \in Nat
  BY DEF NameInv, IndexesOK, CallIsOK, Text, AsciiDot, AtEnd
<1>2. Dot \in CodeUnit /\ IsASCII(Dot) /\ ~IsUpper(Dot)
  BY UnitsOfTheCode DEF Dot, IsASCII, IsUpper
<1>3. text' = Append(text, Dot) /\ asciiEnd' = asciiEnd + 1 /\ pc' = "ascii"
      /\ asciiStart' = asciiEnd + 1 /\ pc = "ascii"
  BY DEF AsciiDot
<1>4. /\ text \in Seq(CodeUnit) /\ Len(text) = asciiEnd
      /\ \A x \in 1 .. asciiEnd : IsASCII(text[x]) /\ ~IsUpper(text[x])
  BY <1>3 DEF NameInv, TextsOK, CopyIsOK, Text
<1>5. /\ text' \in Seq(CodeUnit) /\ Len(text') = asciiEnd + 1
      /\ \A x \in 1 .. asciiEnd : text'[x] = text[x]
      /\ text'[asciiEnd + 1] = Dot
  BY <1>1, <1>2, <1>3, <1>4
<1>6. CallIsOK' /\ TextsOK' /\ IndexesOK'
  BY <1>1, <1>3, <1>5
  DEF NameInv, AsciiDot, CallIsOK, TextsOK, IndexesOK, Text, indexes
<1>7. ErrorsOK' /\ FlagsOK'
  <2>1. {"EMPTY_LABEL", "LABEL_TOO_LONG"} \subseteq ErrorNames
    BY DEF ErrorNames
  <2> DEFINE empty == asciiEnd = asciiStart
  <2>2. errors' = errors \cup labelErrors \cup Flags(empty, "EMPTY_LABEL")
                    \cup LabelIsTooLong(asciiEnd - asciiStart)
    BY DEF AsciiDot
  <2> HIDE DEF empty
  <2>3. /\ Flags(empty, "EMPTY_LABEL") \subseteq ErrorNames
        /\ LabelIsTooLong(asciiEnd - asciiStart) \subseteq ErrorNames
    BY <2>1, FlagsAreNames DEF LabelIsTooLong
  <2> QED BY <2>2, <2>3 DEF NameInv, AsciiDot, ErrorsOK, FlagsOK, BiDiOK, indexes, bidi
<1>8. CopyIsOK'
  BY <1>1, <1>2, <1>3, <1>4, <1>5 DEF CopyIsOK
<1>9. LabelIsOK'
  BY <1>3 DEF LabelIsOK, LengthIsKept
<1> QED BY <1>3, <1>6, <1>7, <1>8, <1>9 DEF NameInv

(* The end of a name in ASCII.                                             *)
LEMMA AsciiFinishKeeps ==
  ASSUME NameInputs, NameInv, AsciiFinish
  PROVE  NameInv'
<1>1. pc' = "done"
  BY DEF AsciiFinish
<1>2. CallIsOK' /\ TextsOK' /\ IndexesOK' /\ FlagsOK'
  BY DEF NameInv, AsciiFinish, CallIsOK, TextsOK, IndexesOK, FlagsOK, BiDiOK, buffer,
         indexes, bidi
<1>3. ErrorsOK'
  <2>1. {"LABEL_TOO_LONG", "DOMAIN_NAME_TOO_LONG"} \subseteq ErrorNames
    BY DEF ErrorNames
  <2> DEFINE long == /\ call.toASCII /\ ~call.isLabel
                     /\ asciiEnd >= MaxNameLength
                     /\ asciiEnd > MaxNameLength \/ asciiStart < asciiEnd
  <2>2. errors' = errors \cup labelErrors \cup LabelIsTooLong(asciiEnd - asciiStart)
                    \cup Flags(long, "DOMAIN_NAME_TOO_LONG")
    BY DEF AsciiFinish
  <2> HIDE DEF long
  <2>3. /\ Flags(long, "DOMAIN_NAME_TOO_LONG") \subseteq ErrorNames
        /\ LabelIsTooLong(asciiEnd - asciiStart) \subseteq ErrorNames
    BY <2>1, FlagsAreNames DEF LabelIsTooLong
  <2> QED BY <2>2, <2>3 DEF NameInv, AsciiFinish, ErrorsOK
<1> QED BY <1>1, <1>2, <1>3 DEF NameInv, CopyIsOK, LabelIsOK, LengthIsKept

(* The loop over the ASCII prefix is left: the labels that were copied     *)
(* stay where they are when the rest is normalized behind them.            *)
LEMMA LeaveAsciiKeeps ==
  ASSUME NameInputs, NameInv, LeaveAscii
  PROVE  NameInv'
<1> DEFINE written == IF call.utf8 THEN asciiStart ELSE 0
           rest    == Drop(call.src, asciiEnd)
           source  == Drop(text, written) \o rest
<1>1. /\ asciiEnd \in Nat /\ asciiEnd <= Len(call.src) /\ Len(call.src) \in Nat
      /\ asciiStart \in Nat /\ asciiStart <= asciiEnd /\ call.src \in Text
  BY DEF NameInv, IndexesOK, CallIsOK, Text
<1>2. /\ text \in Text /\ Len(text) = asciiEnd
      /\ \A x \in 1 .. asciiEnd : IsASCII(text[x]) /\ ~IsUpper(text[x])
      /\ asciiStart > 0 => text[asciiStart] = Dot
  BY DEF NameInv, TextsOK, CopyIsOK, LeaveAscii
<1>3. written \in Nat /\ written <= asciiStart
  BY <1>1
<1>4. /\ prefix' = SubSeq(text, 1, written)
      /\ text' = Normalize(source) /\ destLength' = Len(text') /\ pc' = "unicode"
      /\ labelStart' = asciiStart - written /\ labelLimit' = asciiStart - written
  BY DEF LeaveAscii
<1>5. rest \in Text
  BY <1>1, PartOfText DEF Drop
<1>6. Drop(text, written) \in Text
  BY <1>1, <1>2, <1>3, PartOfText DEF Drop
<1>7. source \in Text
  <2> HIDE DEF written, rest
  <2> QED BY <1>5, <1>6, ConcatUnits DEF Text
<1>8. text' \in Text
  <2> HIDE DEF source
  <2> QED BY <1>4, <1>7 DEF NameInputs, ReturnsTexts, Text
<1>9. prefix' \in Text
  <2> HIDE DEF written
  <2>1. 0 \in Nat /\ written <= Len(text) /\ 0 + 1 = 1
    BY <1>1, <1>2, <1>3
  <2>2. SubSeq(text, 0 + 1, written) \in Text
    BY <1>2, <1>3, <2>1, PartOfText
  <2> QED BY <1>4, <2>1, <2>2
<1>10. CallIsOK' /\ TextsOK'
  BY <1>8, <1>9 DEF NameInv, CallIsOK, TextsOK, LeaveAscii
<1>11. Len(text') \in Nat
  BY <1>8 DEF Text
<1>12. IndexesOK' /\ ErrorsOK' /\ FlagsOK'
  <2>1. asciiStart - written \in Nat
    BY <1>1, <1>3
  <2> HIDE DEF written
  <2> QED BY <1>4, <1>11, <2>1
      DEF NameInv, LeaveAscii, IndexesOK, ErrorsOK, FlagsOK, BiDiOK, bidi
<1>13. CASE asciiStart - written > 0
  <2> DEFINE labels == SubSeq(text, 1, asciiStart)
             behind_ == SubSeq(text, asciiStart + 1, asciiEnd) \o rest
  <2>1. written = 0 /\ asciiStart > 0
    BY <1>1, <1>13
  <2>2. /\ labels \in Text /\ Len(labels) = asciiStart
        /\ \A x \in 1 .. asciiStart : labels[x] = text[x]
    BY <1>1, <1>2 DEF Text
  <2>3. /\ SubSeq(text, asciiStart + 1, asciiEnd) \in Text
        /\ text = labels \o SubSeq(text, asciiStart + 1, asciiEnd)
    BY <1>1, <1>2 DEF Text
  <2>4. behind_ \in Text
    <3> HIDE DEF rest
    <3> QED BY <1>5, <2>3, ConcatUnits DEF Text
  <2>5. source = labels \o behind_
    <3>1. Drop(text, written) = text
      BY <1>2, <2>1 DEF Drop, Text
    <3> DEFINE between == SubSeq(text, asciiStart + 1, asciiEnd)
    <3> HIDE DEF labels, rest, between
    <3>2. /\ labels \in Seq(CodeUnit) /\ between \in Seq(CodeUnit) /\ rest \in Seq(CodeUnit)
          /\ text = labels \o between
      BY <1>5, <2>2, <2>3 DEF Text, between
    <3>3. (labels \o between) \o rest = labels \o (between \o rest)
      BY <3>2, ConcatAssociative
    <3> QED BY <3>1, <3>2, <3>3 DEF between
  <2>6. AreLabels(labels)
    <3> HIDE DEF labels
    <3>1. labels # <<>>
      BY <2>1, <2>2
    <3>2. labels[Len(labels)] = Dot
      BY <1>1, <1>2, <2>1, <2>2
    <3>3. \A x \in 1 .. Len(labels) : IsASCII(labels[x]) /\ ~IsUpper(labels[x])
      BY <1>1, <1>2, <2>2
    <3> QED BY <3>1, <3>2, <3>3 DEF AreLabels
  <2>7. LeavesLabels(labels, behind_)
    <3> HIDE DEF labels, behind_
    <3> QED BY <2>2, <2>4 DEF NameInputs
  <2>8. Len(text') >= asciiStart /\ text'[asciiStart] = Dot
    <3> HIDE DEF labels, behind_, source
    <3> QED BY <1>4, <2>2, <2>5, <2>6, <2>7 DEF LeavesLabels
  <2> HIDE DEF written
  <2>9. asciiStart - written = asciiStart
    BY <1>1, <2>1
  <2>10. labelStart' <= labelLimit' /\ labelStart' <= Len(text') /\ text'[labelStart'] = Dot
    BY <1>1, <1>4, <2>8, <2>9
  <2> QED BY <1>4, <1>10, <1>12, <2>10 DEF NameInv, CopyIsOK, LabelIsOK, LengthIsKept
<1>14. CASE ~(asciiStart - written > 0)
  <2>1. asciiStart - written = 0
    BY <1>1, <1>3, <1>14
  <2>2. ~(labelStart' > 0) /\ labelStart' <= labelLimit' /\ labelStart' <= Len(text')
    BY <1>4, <1>11, <2>1
  <2> QED BY <1>4, <1>10, <1>12, <2>2 DEF NameInv, CopyIsOK, LabelIsOK, LengthIsKept
<1> QED BY <1>13, <1>14

(* What the invariant says while the loop over the normalized text runs.   *)
LEMMA WhileScanning ==
  ASSUME NameInv, pc = "unicode"
  PROVE  /\ text \in Text /\ Len(text) \in Nat /\ destLength = Len(text)
         /\ labelStart \in Nat /\ labelLimit \in Nat /\ labelStart <= labelLimit
         /\ labelStart <= Len(text)
         /\ labelStart > 0 => text[labelStart] = Dot
         /\ BiDiOK /\ labelErrors \in SUBSET ErrorNames
<1>1. text \in Text /\ Len(text) \in Nat
  BY DEF NameInv, TextsOK, Text
<1> QED BY <1>1 DEF NameInv, IndexesOK, ErrorsOK, FlagsOK, LabelIsOK, LengthIsKept

(* A unit that the scan passes.                                            *)
LEMMA ScanPassKeeps ==
  ASSUME NameInputs, NameInv, ScanPass
  PROVE  NameInv'
<1>1. pc = "unicode" /\ pc' = pc /\ labelLimit' = labelLimit + 1
      /\ text' = text /\ destLength' = destLength /\ labelStart' = labelStart
  BY DEF ScanPass, Scanning, buffer
<1>2. /\ destLength = Len(text) /\ labelStart \in Nat /\ labelLimit \in Nat
      /\ labelStart <= labelLimit /\ labelStart <= Len(text)
      /\ labelStart > 0 => text[labelStart] = Dot
  BY <1>1, WhileScanning
<1>3. labelStart' <= labelLimit' /\ labelLimit' \in Nat
  BY <1>1, <1>2
<1>4. CallIsOK' /\ TextsOK' /\ IndexesOK' /\ ErrorsOK'
  BY <1>1, <1>3 DEF NameInv, ScanPass, CallIsOK, TextsOK, IndexesOK, ErrorsOK, buffer
<1>5. FlagsOK'
  <2>1. isTransDiff' \in BOOLEAN
    <3>1. isTransDiff' = (isTransDiff \/ IsDeviation(Unit))
      BY DEF ScanPass
    <3> QED BY <3>1
  <2> QED BY <2>1 DEF NameInv, ScanPass, FlagsOK, BiDiOK, bidi
<1>6. LabelIsOK'
  BY <1>1, <1>2, <1>3 DEF LabelIsOK, LengthIsKept
<1> QED BY <1>1, <1>4, <1>5, <1>6 DEF NameInv, CopyIsOK

(* An unpaired surrogate is replaced where it stands.                      *)
LEMMA ScanUnpairedKeeps ==
  ASSUME NameInputs, NameInv, ScanUnpaired
  PROVE  NameInv'
<1>1. /\ pc = "unicode" /\ pc' = pc /\ labelLimit < destLength
      /\ labelLimit' = labelLimit + 1 /\ labelStart' = labelStart
      /\ text' = [text EXCEPT ![labelLimit + 1] = Replacement]
      /\ destLength' = destLength
  BY DEF ScanUnpaired, Scanning
<1>2. /\ text \in Seq(CodeUnit) /\ Len(text) \in Nat
      /\ destLength = Len(text) /\ labelStart \in Nat /\ labelLimit \in Nat
      /\ labelStart <= labelLimit /\ labelStart <= Len(text)
      /\ labelStart > 0 => text[labelStart] = Dot
  BY <1>1, WhileScanning DEF Text
<1>3. Replacement \in CodeUnit
  BY UnitsOfTheCode
<1>4. /\ text' \in Seq(CodeUnit) /\ Len(text') = Len(text)
      /\ \A x \in 1 .. Len(text) : x # labelLimit + 1 => text'[x] = text[x]
  BY <1>1, <1>2, <1>3
<1>5. labelStart' <= labelLimit' /\ labelLimit' \in Nat
  BY <1>1, <1>2
<1>6. CallIsOK' /\ TextsOK' /\ IndexesOK' /\ FlagsOK'
  BY <1>1, <1>4, <1>5
  DEF NameInv, ScanUnpaired, CallIsOK, TextsOK, IndexesOK, FlagsOK, BiDiOK, bidi, Text
<1>7. ErrorsOK'
  <2>1. "DISALLOWED" \in ErrorNames
    BY DEF ErrorNames, SevereErrors
  <2> QED BY <2>1 DEF NameInv, ScanUnpaired, ErrorsOK
<1>8. labelStart' > 0 => text'[labelStart'] = Dot
  BY <1>1, <1>2, <1>4
<1>9. LabelIsOK'
  BY <1>1, <1>2, <1>4, <1>5, <1>8 DEF LabelIsOK, LengthIsKept
<1> QED BY <1>1, <1>6, <1>7, <1>9 DEF NameInv, CopyIsOK

(* The text is normalized once more from the start of the label on.        *)
LEMMA MapDevCharsKeeps ==
  ASSUME NameInputs, NameInv, MapDevChars
  PROVE  NameInv'
<1> DEFINE before == SubSeq(text, 1, labelStart)
           mapped == SubSeq(text, labelStart + 1, labelLimit)
                       \o MappedDeviations(Drop(text, labelLimit))
           again  == NormalizedAgain(mapped)
<1>1. /\ pc = "unicode" /\ pc' = pc /\ labelLimit < destLength
      /\ labelLimit' = labelLimit /\ labelStart' = labelStart
      /\ text' = before \o again /\ destLength' = Len(text')
      /\ behind' = SubSeq(text, Len(text') + 1, labelLimit)
      /\ doMapDevChars' = FALSE /\ isTransDiff' = TRUE
  BY DEF MapDevChars, Scanning
<1>2. /\ text \in Text /\ Len(text) \in Nat /\ destLength = Len(text)
      /\ labelStart \in Nat /\ labelLimit \in Nat
      /\ labelStart <= labelLimit /\ labelStart <= Len(text)
      /\ labelStart > 0 => text[labelStart] = Dot
  BY <1>1, WhileScanning
<1>3. labelLimit <= Len(text)
  BY <1>1, <1>2
<1>4. /\ before \in Text /\ Len(before) = labelStart
      /\ \A x \in 1 .. labelStart : before[x] = text[x]
  BY <1>2 DEF Text
<1>5. mapped \in Text
  <2>1. SubSeq(text, labelStart + 1, labelLimit) \in Text
    BY <1>2, <1>3, PartOfText
  <2>2. Drop(text, labelLimit) \in Text
    BY <1>2, RestOfText
  <2>3. MappedDeviations(Drop(text, labelLimit)) \in Text
    BY <2>2 DEF NameInputs, ReturnsTexts, Text
  <2> QED BY <2>1, <2>3, TextsMakeOne
<1> HIDE DEF mapped
<1>6. again \in Text
  BY <1>5 DEF NameInputs, ReturnsTexts, Text, NormalizedAgain
<1> HIDE DEF before, again
<1>7. /\ text' \in Text /\ Len(text') = labelStart + Len(again) /\ Len(again) \in Nat
      /\ \A x \in 1 .. labelStart : text'[x] = before[x]
  BY <1>1, <1>4, <1>6, TextsMakeOne
<1>8. behind' \in Text
  <2>1. Len(text') \in Nat
    BY <1>2, <1>7
  <2>2. SubSeq(text, Len(text') + 1, labelLimit) \in Text
    BY <1>2, <1>3, <2>1, PartOfText
  <2> QED BY <1>1, <2>2
<1>9. Len(text') \in Nat /\ labelStart <= Len(text')
  BY <1>2, <1>7
<1>10. CallIsOK' /\ TextsOK' /\ IndexesOK'
  BY <1>1, <1>2, <1>7, <1>8, <1>9
  DEF NameInv, MapDevChars, CallIsOK, TextsOK, IndexesOK
<1>11. ErrorsOK' /\ FlagsOK'
  BY <1>1 DEF NameInv, MapDevChars, ErrorsOK, FlagsOK, BiDiOK, bidi
<1>12. labelStart' > 0 => text'[labelStart'] = Dot
  <2> SUFFICES ASSUME labelStart > 0 PROVE text'[labelStart] = Dot
    BY <1>1
  <2>1. labelStart \in 1 .. labelStart
    BY <1>2
  <2> QED BY <1>2, <1>4, <1>7, <2>1
<1>13. LabelIsOK'
  BY <1>1, <1>2, <1>9, <1>12 DEF LabelIsOK, LengthIsKept
<1> QED BY <1>1, <1>10, <1>11, <1>13 DEF NameInv, CopyIsOK

(* What is taken over from the result of processLabel().                   *)
LEMMA ResultIsTaken ==
  ASSUME NameInv, NEW result, ResultOK(result), TakeResult(result),
         UNCHANGED <<doMapDevChars, isTransDiff>>
  PROVE  ErrorsOK' /\ FlagsOK'
<1>1. ErrorsOK'
  BY DEF NameInv, ErrorsOK, ResultOK, TakeResult
<1>2. FlagsOK'
  BY DEF NameInv, FlagsOK, BiDiOK, ResultOK, TakeResult
<1> QED BY <1>1, <1>2

(* A label ends with a dot: the next one starts behind that dot, by the    *)
(* length that processLabel() has returned.                                *)
LEMMA EndLabelKeeps ==
  ASSUME NameInputs, NameInv, EndLabel
  PROVE  NameInv'
<1>1. /\ pc = "unicode" /\ labelLimit < destLength /\ text[labelLimit + 1] = Dot
      /\ \E result \in {ProcessLabel(SubSeq(text, labelStart + 1, labelLimit),
                                     labelErrors)} :
           /\ TakeResult(result)
           /\ text' = SubSeq(text, 1, labelStart) \o result.label \o Drop(text, labelLimit)
           /\ destLength' = LengthWith(result.length)
           /\ labelStart' = labelStart + result.length + 1
           /\ labelLimit' = labelStart + result.length + 1
           /\ pc' = IF U_FAILURE(result.code) THEN "verdict" ELSE pc
      /\ UNCHANGED <<call, asciiEnd, asciiStart, prefix, behind, doMapDevChars, isTransDiff>>
  BY DEF EndLabel, Scanning, Unit
<1>2. PICK result \in {ProcessLabel(SubSeq(text, labelStart + 1, labelLimit), labelErrors)} :
        /\ TakeResult(result)
        /\ text' = SubSeq(text, 1, labelStart) \o result.label \o Drop(text, labelLimit)
        /\ destLength' = LengthWith(result.length)
        /\ labelStart' = labelStart + result.length + 1
        /\ labelLimit' = labelStart + result.length + 1
        /\ pc' = IF U_FAILURE(result.code) THEN "verdict" ELSE pc
  BY <1>1
<1>3. /\ text \in Text /\ Len(text) \in Nat /\ destLength = Len(text)
      /\ labelStart \in Nat /\ labelLimit \in Nat
      /\ labelStart <= labelLimit /\ labelStart <= Len(text)
      /\ BiDiOK /\ labelErrors \in SUBSET ErrorNames
  BY <1>1, WhileScanning
<1>4. labelLimit < Len(text)
  BY <1>1, <1>3
<1>5. ResultOK(result)
  <2>1. SubSeq(text, labelStart + 1, labelLimit) \in Text
    BY <1>3, <1>4, PartOfText
  <2>2. ResultOK(ProcessLabel(SubSeq(text, labelStart + 1, labelLimit), labelErrors))
    BY <1>3, <2>1, ProcessedIsOK
  <2> QED BY <1>2, <2>2
<1> DEFINE label  == result.label
           before == SubSeq(text, 1, labelStart)
           after  == Drop(text, labelLimit)
<1>6. label \in Text /\ result.length = Len(label)
  BY <1>5 DEF ResultOK
<1>7. before \in Text /\ Len(before) = labelStart
  BY <1>3 DEF Text
<1>8. after \in Text /\ Len(after) = Len(text) - labelLimit /\ after[1] = Dot
  <2>1. /\ Drop(text, labelLimit) \in Text
        /\ Len(Drop(text, labelLimit)) = Len(text) - labelLimit
        /\ \A x \in 1 .. Len(text) - labelLimit :
             Drop(text, labelLimit)[x] = text[labelLimit + x]
    <3> HIDE DEF after
    <3>1. labelLimit <= Len(text)
      BY <1>3, <1>4
    <3> QED BY <1>3, <3>1, RestOfText
  <2>2. 1 \in 1 .. Len(text) - labelLimit
    BY <1>3, <1>4
  <2> QED BY <1>1, <2>1, <2>2
<1>9. text' = (before \o label) \o after
  BY <1>2
<1> HIDE DEF label, before, after
<1>10. /\ before \o label \in Text /\ Len(before \o label) = labelStart + Len(label)
       /\ Len(label) \in Nat
  BY <1>6, <1>7, TextsMakeOne
<1>11. /\ text' \in Text
       /\ Len(text') = labelStart + Len(label) + (Len(text) - labelLimit)
       /\ text'[labelStart + Len(label) + 1] = Dot
  <2> DEFINE head == before \o label
  <2> HIDE DEF head
  <2>1. /\ head \o after \in Text /\ Len(head \o after) = Len(head) + Len(after)
        /\ \A i \in 1 .. Len(after) : (head \o after)[Len(head) + i] = after[i]
    BY <1>8, <1>10, TextsMakeOne DEF head
  <2>2. text' = head \o after /\ Len(head) = labelStart + Len(label)
    BY <1>9, <1>10 DEF head
  <2>3. 1 \in 1 .. Len(after)
    BY <1>3, <1>4, <1>8
  <2>4. text'[Len(head) + 1] = Dot
    BY <1>8, <2>1, <2>2, <2>3
  <2> QED BY <1>8, <2>1, <2>2, <2>4
<1>12. destLength' = Len(text') /\ Len(text') \in Nat
  <2>1. destLength' = destLength + Len(label) - (labelLimit - labelStart)
    BY <1>2, <1>6 DEF LengthWith, label
  <2> QED BY <1>3, <1>4, <1>10, <1>11, <2>1
<1>13. /\ labelStart' = labelStart + Len(label) + 1 /\ labelLimit' = labelStart'
       /\ labelStart' \in Nat /\ labelStart' <= Len(text')
       /\ text'[labelStart'] = Dot
  <2>1. /\ labelStart' = labelStart + Len(label) + 1
        /\ labelLimit' = labelStart + Len(label) + 1
    BY <1>2, <1>6 DEF label
  <2> QED BY <1>3, <1>4, <1>10, <1>11, <2>1
<1>14. pc' \in {"verdict", "unicode"}
  BY <1>1, <1>2
<1>15. CallIsOK' /\ TextsOK' /\ IndexesOK'
  BY <1>1, <1>11, <1>12, <1>13 DEF NameInv, CallIsOK, TextsOK, IndexesOK
<1>16. ErrorsOK' /\ FlagsOK'
  BY <1>1, <1>2, <1>5, ResultIsTaken
<1>17. LabelIsOK'
  BY <1>12, <1>13 DEF LabelIsOK, LengthIsKept
<1> QED BY <1>14, <1>15, <1>16, <1>17 DEF NameInv, CopyIsOK

(* The last label, which may go on behind the end of the text.             *)
LEMMA LastLabelKeeps ==
  ASSUME NameInputs, NameInv, LastLabel
  PROVE  NameInv'
<1> DEFINE label  == Drop(text, labelStart) \o behind
           before == SubSeq(text, 1, labelStart)
<1>1. /\ pc = "unicode" /\ pc' = "verdict"
      /\ \E result \in {ProcessLabel(label, labelErrors)} :
           /\ TakeResult(result)
           /\ text' = IF /\ behind # <<>> /\ Len(before \o result.label) > destLength
                         /\ IsACE(result.label) <=> IsACE(label)
                      THEN SubSeq(before \o result.label, 1, destLength)
                      ELSE before \o result.label
      /\ UNCHANGED <<call, asciiEnd, asciiStart, prefix, behind, indexes, isTransDiff>>
  BY DEF LastLabel
<1>2. PICK result \in {ProcessLabel(label, labelErrors)} :
        /\ TakeResult(result)
        /\ text' = IF /\ behind # <<>> /\ Len(before \o result.label) > destLength
                      /\ IsACE(result.label) <=> IsACE(label)
                   THEN SubSeq(before \o result.label, 1, destLength)
                   ELSE before \o result.label
  BY <1>1
<1>3. /\ text \in Text /\ Len(text) \in Nat /\ destLength = Len(text)
      /\ labelStart \in Nat /\ labelStart <= Len(text)
      /\ BiDiOK /\ labelErrors \in SUBSET ErrorNames
  BY <1>1, WhileScanning
<1>4. before \in Text
  BY <1>3 DEF Text
<1>5. label \in Text
  <2>1. Drop(text, labelStart) \in Text /\ behind \in Text
    BY <1>3, RestOfText DEF NameInv, TextsOK
  <2> QED BY <2>1, TextsMakeOne
<1>6. ResultOK(result)
  <2> HIDE DEF label
  <2>1. ResultOK(ProcessLabel(label, labelErrors))
    BY <1>3, <1>5, ProcessedIsOK
  <2> QED BY <1>2, <2>1
<1> DEFINE all == before \o result.label
<1>7. all \in Text
  <2>1. result.label \in Text
    BY <1>6 DEF ResultOK
  <2> HIDE DEF before
  <2> QED BY <1>4, <2>1, TextsMakeOne
<1>8. text' \in {SubSeq(all, 1, destLength), all}
      /\ (text' = SubSeq(all, 1, destLength) => text' = all \/ Len(all) > destLength)
  <2> HIDE DEF before, label
  <2> QED BY <1>2
<1> HIDE DEF all
<1>9. text' \in Text
  <2>1. CASE text' = all
    BY <1>7, <2>1
  <2>2. CASE text' = SubSeq(all, 1, destLength) /\ Len(all) > destLength
    <3>1. destLength \in Nat /\ destLength <= Len(all) /\ 0 \in Nat /\ 0 + 1 = 1
      <4>1. Len(all) \in Nat
        BY <1>7 DEF Text
      <4> QED BY <1>3, <2>2, <4>1
    <3>2. SubSeq(all, 0 + 1, destLength) \in Text
      BY <1>7, <3>1, PartOfText
    <3> QED BY <2>2, <3>1, <3>2
  <2> QED BY <1>8, <2>1, <2>2
<1>10. CallIsOK' /\ TextsOK' /\ IndexesOK'
  BY <1>1, <1>9 DEF NameInv, CallIsOK, TextsOK, IndexesOK, indexes
<1>11. ErrorsOK' /\ FlagsOK'
  BY <1>1, <1>2, <1>6, ResultIsTaken DEF indexes
<1> QED BY <1>1, <1>10, <1>11 DEF NameInv, CopyIsOK, LabelIsOK, LengthIsKept

(* An empty last label behind a dot.                                       *)
LEMMA NoLastLabelKeeps ==
  ASSUME NameInv, NoLastLabel
  PROVE  NameInv'
<1>1. pc' = "verdict"
  BY DEF NoLastLabel
<1>2. CallIsOK' /\ TextsOK' /\ IndexesOK' /\ ErrorsOK' /\ FlagsOK'
  BY DEF NameInv, NoLastLabel, CallIsOK, TextsOK, IndexesOK, ErrorsOK, FlagsOK, BiDiOK,
         buffer, indexes, bidi
<1> QED BY <1>1, <1>2 DEF NameInv, CopyIsOK, LabelIsOK, LengthIsKept

(* The verdicts on the name.                                               *)
LEMMA VerdictKeeps ==
  ASSUME NameInv, Verdict
  PROVE  NameInv'
<1>1. pc' = "done"
  BY DEF Verdict
<1>2. CallIsOK' /\ TextsOK' /\ IndexesOK' /\ FlagsOK'
  BY DEF NameInv, Verdict, CallIsOK, TextsOK, IndexesOK, FlagsOK, BiDiOK, buffer,
         indexes, bidi
<1>3. ErrorsOK'
  <2>1. {"BIDI", "DOMAIN_NAME_TOO_LONG"} \subseteq ErrorNames
    BY DEF ErrorNames
  <2>2. /\ Flags(FailsBiDi, "BIDI") \subseteq ErrorNames
        /\ Flags(NameIsTooLong, "DOMAIN_NAME_TOO_LONG") \subseteq ErrorNames
    BY <2>1, FlagsAreNames
  <2> QED BY <2>2 DEF NameInv, Verdict, ErrorsOK
<1> QED BY <1>1, <1>2, <1>3 DEF NameInv, CopyIsOK, LabelIsOK, LengthIsKept

-----------------------------------------------------------------------------
(* A second call takes the result of the first, or its arguments.          *)
LEMMA NextCallIsACall ==
  ASSUME NameInv, NEW toASCII \in BOOLEAN, SecondCall(toASCII) \/ CallInUTF8
  PROVE  \E c \in Calls : c.src \in Text /\ Call(c)
<1>1. call \in Calls /\ call.src \in Text /\ Result \in Text /\ Text \subseteq Seq(Nat)
  <2>1. prefix \o text \in Text
    BY TextsMakeOne DEF NameInv, TextsOK
  <2> QED BY <2>1, TextsAreNumbers DEF NameInv, CallIsOK, Result
<1>2. CASE SecondCall(toASCII)
  <2> DEFINE c == [call EXCEPT !.src = Result, !.toASCII = toASCII]
  <2>1. c \in Calls /\ c.src \in Text
    BY <1>1 DEF Calls
  <2>2. Call(c)
    BY <1>2 DEF SecondCall
  <2> HIDE DEF c
  <2> QED BY <2>1, <2>2
<1>3. CASE CallInUTF8
  <2> DEFINE c == [call EXCEPT !.utf8 = TRUE]
  <2>1. c \in Calls /\ c.src \in Text
    BY <1>1 DEF Calls
  <2>2. Call(c)
    BY <1>3 DEF CallInUTF8
  <2> HIDE DEF c
  <2> QED BY <2>1, <2>2
<1> QED BY <1>2, <1>3

(* The invariant holds before the first call.                              *)
LEMMA NameInvBegins ==
  ASSUME NameInputs, CallsInit
  PROVE  NameInv
<1>1. call = NoCall /\ NoCall \in Calls /\ NoCall.src = <<>>
  BY DEF CallsInit, Init, NoCall, Calls, Options
<1>2. <<>> \in Text
  BY DEF Text
<1>3. CallIsOK /\ TextsOK /\ IndexesOK
  BY <1>1, <1>2 DEF CallsInit, Init, CallIsOK, TextsOK, IndexesOK
<1>4. ErrorsOK /\ FlagsOK
  <2>1. /\ errors = {} /\ labelErrors = {} /\ errorCode = 0
        /\ doMapDevChars = FALSE /\ isTransDiff = FALSE
        /\ isBiDi = FALSE /\ isOkBiDi = TRUE
    BY DEF CallsInit, Init, U_ZERO_ERROR
  <2>2. ErrorsOK
    BY <2>1 DEF ErrorsOK
  <2>3. FlagsOK
    BY <2>1 DEF FlagsOK, BiDiOK
  <2> QED BY <2>2, <2>3
<1>5. pc = "ready"
  BY DEF CallsInit, Init
<1> QED BY <1>3, <1>4, <1>5 DEF NameInv, CopyIsOK, LabelIsOK, LengthIsKept

(* It holds after every step.                                              *)
LEMMA NameInvStays ==
  ASSUME NameInputs, NameInv, [CallsNext]_<<vars, first>>
  PROVE  NameInv'
<1>1. ASSUME NEW c \in Inputs, Call(c) PROVE NameInv'
  <2>1. c \in Calls /\ c.src \in Text
    BY DEF NameInputs
  <2> QED BY <1>1, <2>1, CallKeeps
<1>2. CASE FirstCall
  BY <1>1, <1>2 DEF FirstCall
<1>3. call.toASCII \in BOOLEAN
  BY DEF NameInv, CallIsOK, Calls
<1>4. CASE SecondCall(call.toASCII) \/ SecondCall(FALSE) \/ CallInUTF8
  <2>1. FALSE \in BOOLEAN
    OBVIOUS
  <2>2. PICK c \in Calls : c.src \in Text /\ Call(c)
    BY <1>3, <1>4, <2>1, NextCallIsACall
  <2> QED BY <2>2, CallKeeps
<1>5. CASE Step
  BY <1>5, AsciiCopyKeeps, AsciiDotKeeps, AsciiFinishKeeps, LeaveAsciiKeeps,
     ScanPassKeeps, ScanUnpairedKeeps, MapDevCharsKeeps, EndLabelKeeps, LastLabelKeeps,
     NoLastLabelKeeps, VerdictKeeps DEF Step
<1>6. CASE UNCHANGED vars
  <2>1. CallIsOK' /\ TextsOK' /\ IndexesOK' /\ ErrorsOK' /\ FlagsOK'
    BY <1>6 DEF NameInv, vars, CallIsOK, TextsOK, IndexesOK, ErrorsOK, FlagsOK, BiDiOK,
       buffer, indexes, bidi
  <2>2. CopyIsOK' /\ LabelIsOK' /\ pc' = pc
    BY <1>6 DEF NameInv, vars, CopyIsOK, LabelIsOK, LengthIsKept, buffer, indexes
  <2> QED BY <2>1, <2>2 DEF NameInv
<1> QED BY <1>2, <1>4, <1>5, <1>6 DEF CallsNext, NameStep, Returned

(* The length of the text, and where its labels start, are kept by         *)
(* arithmetic on what processLabel() returns, for every name, every option *)
(* and every data that leaves ASCII labels alone: the text never gets out  *)
(* of step with them, and a label starts behind a dot.                     *)
THEOREM LengthIsAlwaysKept == ASSUME NameInputs PROVE CallsSpec => []LengthIsKept
<1>1. CallsInit => NameInv
  BY NameInvBegins
<1>2. NameInv /\ [CallsNext]_<<vars, first>> => NameInv'
  BY NameInvStays
<1>3. NameInv => LengthIsKept
  BY DEF NameInv, LabelIsOK
<1> QED BY <1>1, <1>2, <1>3, PTL DEF CallsSpec

(* The loop over the ASCII prefix stays inside the source, every text is   *)
(* one, and only errors that the header names are set.                     *)
THEOREM NameTypeIsOK == ASSUME NameInputs PROVE CallsSpec => []NameTypeOK
<1>1. CallsInit => NameInv
  BY NameInvBegins
<1>2. NameInv /\ [CallsNext]_<<vars, first>> => NameInv'
  BY NameInvStays
<1>3. NameInv => NameTypeOK
  <2>1. Text \subseteq Seq(Nat)
    BY TextsAreNumbers
  <2> QED BY <2>1 DEF NameInv, TextsOK, IndexesOK, ErrorsOK, FlagsOK, BiDiOK, NameTypeOK
<1> QED BY <1>1, <1>2, <1>3, PTL DEF CallsSpec

-----------------------------------------------------------------------------
(* What is not valid does not look valid.  A unit that no host name has:   *)
IsBad(c) == ~IsASCII(c) \/ ~IsLDHDot(c)
LooksBad(s) == \E x \in 1 .. Len(s) : IsBad(s[x])

(* U+FFFD is one.                                                          *)
LEMMA ReplacementIsBad == IsBad(Replacement)
BY DEF IsBad, IsASCII, Replacement

(* An ACE label that is marked as bad looks bad, whatever was in it.       *)
LEMMA BadACELooksBad ==
  ASSUME NameInputs, NEW label \in Text, NEW errs
  PROVE  LooksBad(BadACE(label, errs).label)
<1> DEFINE onlyLDH == \A c \in {label[x] : x \in 5 .. Len(label)} :
                        IsASCII(c) /\ IsLDHDot(c) /\ c # Dot
           f == [x \in DOMAIN label |->
                   IF x > 4 /\ Forbidden(label[x]) THEN Replacement ELSE label[x]]
<1>1. label \in Seq(CodeUnit) /\ Len(label) \in Nat /\ DOMAIN label = 1 .. Len(label)
  BY DEF Text
<1>2. CASE onlyLDH
  <2>1. BadACE(label, errs).label = Marked(label)
    BY <1>2 DEF BadACE, Invalid, MarkBadACELabel
  <2>2. Marked(label) = Append(label, Replacement)
    BY DEF Marked
  <2> HIDE DEF onlyLDH
  <2>3. /\ Len(label) + 1 \in 1 .. Len(Append(label, Replacement))
        /\ Append(label, Replacement)[Len(label) + 1] = Replacement
    BY <1>1
  <2> QED BY <2>1, <2>2, <2>3, ReplacementIsBad DEF LooksBad
<1>3. CASE ~onlyLDH
  <2>1. BadACE(label, errs).label = f
    BY <1>3 DEF BadACE, Invalid, MarkBadACELabel
  <2>2. PICK x \in 5 .. Len(label) :
          ~(IsASCII(label[x]) /\ IsLDHDot(label[x]) /\ label[x] # Dot)
    BY <1>3
  <2>3. x \in 1 .. Len(label) /\ x > 4
    BY <1>1
  <2>4. IsBad(f[x])
    <3>1. CASE Forbidden(label[x])
      <4>1. f[x] = Replacement
        BY <1>1, <2>3, <3>1
      <4> HIDE DEF f
      <4> QED BY <4>1, ReplacementIsBad
    <3>2. CASE ~Forbidden(label[x])
      <4>1. f[x] = label[x]
        BY <1>1, <2>3, <3>2
      <4>2. label[x] # Dot
        BY <3>2 DEF Forbidden
      <4> HIDE DEF f
      <4> QED BY <2>2, <4>1, <4>2 DEF IsBad
    <3> QED BY <3>1, <3>2
  <2>5. Len(f) = Len(label)
    <3>1. f = [y \in 1 .. Len(label) |-> f[y]]
      BY <1>1
    <3>2. \A y \in 1 .. Len(label) : f[y] \in {Replacement, label[y]}
      BY <1>1
    <3>3. \A y \in 1 .. Len(label) : label[y] \in CodeUnit
      BY <1>1
    <3> HIDE DEF f
    <3>4. \A y \in 1 .. Len(label) : f[y] \in CodeUnit
      BY <3>2, <3>3, UnitsOfTheCode
    <3> QED BY <1>1, <3>1, <3>4, FunctionIsText
  <2> HIDE DEF f
  <2> QED BY <2>1, <2>3, <2>4, <2>5 DEF LooksBad
<1> QED BY <1>2, <1>3

(* A label that is repaired because it has a severe error looks bad: what  *)
(* the error is about has become U+FFFD, or was bad before.                *)
LEMMA RepairedLooksBad ==
  ASSUME NameInputs, NEW u \in Text, u # <<>>, NEW errs,
         Severe(errs) => LooksBad(u), Severe(errs \cup ValidityErrors(u))
  PROVE  LooksBad(Repaired(u))
<1>1. u \in Seq(CodeUnit) /\ Len(u) \in Nat /\ DOMAIN u = 1 .. Len(u)
  BY DEF Text
<1>2. Scanned(u) \in Text /\ Len(Scanned(u)) = Len(u)
  BY ScannedIsText
<1>3. CASE HasLeadingMark(u)
  <2> DEFINE rest == Drop(Scanned(u), U16_LENGTH(CodePointAt(u, 0)))
  <2>1. Repaired(u) = <<Replacement>> \o rest
    BY <1>3 DEF Repaired
  <2>2. rest \in Text
    BY <1>2, RestOfText DEF U16_LENGTH
  <2>3. <<Replacement>> \in Text /\ Len(<<Replacement>>) = 1 /\ <<Replacement>>[1] = Replacement
    BY UnitsOfTheCode DEF Text
  <2> HIDE DEF rest
  <2>4. /\ Len(<<Replacement>> \o rest) = 1 + Len(rest) /\ Len(rest) \in Nat
        /\ (<<Replacement>> \o rest)[1] = Replacement
    BY <2>2, <2>3, TextsMakeOne
  <2>5. 1 \in 1 .. Len(Repaired(u)) /\ Repaired(u)[1] = Replacement
    BY <2>1, <2>4
  <2> QED BY <2>5, ReplacementIsBad DEF LooksBad
<1>4. CASE ~HasLeadingMark(u)
  <2>1. Repaired(u) = Scanned(u)
    BY <1>4 DEF Repaired
  <2>2. \A x \in 1 .. Len(u) : Scanned(u)[x] \in {Replacement, u[x]}
    BY <1>1 DEF Scanned
  <2>3. \A x \in 1 .. Len(u) : IsBad(u[x]) => IsBad(Scanned(u)[x])
    BY <2>2, ReplacementIsBad
  <2>4. \A x \in 1 .. Len(u) : u[x] = Dot => Scanned(u)[x] = Replacement
    BY <1>1 DEF Scanned, Forbidden
  <2>5. CASE Severe(errs)
    BY <1>2, <2>1, <2>3, <2>5 DEF LooksBad
  <2>6. CASE ~Severe(errs)
    <3>1. PICK e \in ValidityErrors(u) : e \in SevereErrors
      BY <2>6 DEF Severe
    <3>2. e \in {"LABEL_HAS_DOT", "DISALLOWED"}
      BY <1>4, <3>1 DEF ValidityErrors, Flags, SevereErrors
    <3>3. \E x \in 1 .. Len(u) : Scanned(u)[x] = Replacement
      BY <1>1, <2>4, <3>1, <3>2 DEF ValidityErrors, Flags
    <3> QED BY <1>2, <2>1, <3>3, ReplacementIsBad DEF LooksBad
  <2> QED BY <2>5, <2>6
<1> QED BY <1>3, <1>4

(* A label that passes its checks has no severe error.                     *)
LEMMA FinishedIsNotSevere ==
  ASSUME NEW label, NEW u, NEW errs, ~Severe(errs)
  PROVE  ~Severe(FinishLabel(label, u, errs).errors)
<1>1. ASSUME NEW becomes, NEW c, NEW fails
      PROVE  ~Severe(Valid(becomes, c, errs, fails).errors)
  <2>1. ContextErrors(c) \cap SevereErrors = {}
    BY DEF ContextErrors, Flags, SevereErrors
  <2>2. LabelIsTooLong(Len(becomes)) \cap SevereErrors = {}
    BY DEF LabelIsTooLong, Flags, SevereErrors
  <2>3. Valid(becomes, c, errs, fails).errors
          = errs \cup ContextErrors(c)
              \cup IF fails THEN {} ELSE LabelIsTooLong(Len(becomes))
    BY DEF Valid
  <2> QED BY <2>1, <2>2, <2>3 DEF Severe
<1> QED BY <1>1 DEF FinishLabel

(* processLabel() leaves a label that looks bad when it reports a severe   *)
(* error, given that one it was told of can be seen already.               *)
LEMMA SevereLooksBad ==
  ASSUME NameInputs, NEW label \in Text, NEW errs, Severe(errs) => LooksBad(label),
         Severe(ProcessLabel(label, errs).errors)
  PROVE  LooksBad(ProcessLabel(label, errs).label)
<1>1. ASSUME NEW u \in Text, u # <<>>, ~IsACE(label) => u = label,
             Severe(ProcessText(label, u, errs).errors)
      PROVE  LooksBad(ProcessText(label, u, errs).label)
  <2> DEFINE all == errs \cup ValidityErrors(u)
  <2>1. ProcessText(label, u, errs) = CheckLabel(label, u, all)
    BY DEF ProcessText
  <2>2. CASE ~Severe(all)
    <3>1. CheckLabel(label, u, all) = FinishLabel(label, Repaired(u), all)
      BY <2>2 DEF CheckLabel, Severe
    <3> HIDE DEF all
    <3> QED BY <1>1, <2>1, <2>2, <3>1, FinishedIsNotSevere
  <2>3. CASE Severe(all) /\ IsACE(label)
    <3>1. CheckLabel(label, u, all) = BadACE(label, all \cup {"INVALID_ACE_LABEL"})
      BY <2>3 DEF CheckLabel, Severe
    <3> HIDE DEF all
    <3> QED BY <2>1, <3>1, BadACELooksBad
  <2>4. CASE Severe(all) /\ ~IsACE(label)
    <3>1. CheckLabel(label, u, all).label = Repaired(u)
      BY <2>4 DEF CheckLabel, Severe, Invalid
    <3>2. LooksBad(Repaired(u))
      BY <1>1, <2>4, RepairedLooksBad
    <3> HIDE DEF all
    <3> QED BY <2>1, <3>1, <3>2
  <2> QED BY <2>2, <2>3, <2>4
<1>2. CASE label = <<>>
  <2>1. ProcessLabel(label, errs).errors = errs \cup {"EMPTY_LABEL"}
    BY <1>2 DEF ProcessLabel, Invalid
  <2>2. "EMPTY_LABEL" \notin SevereErrors
    BY DEF SevereErrors
  <2>3. ~LooksBad(label)
    BY <1>2 DEF LooksBad
  <2> QED BY <2>1, <2>2, <2>3 DEF Severe
<1>3. CASE label # <<>> /\ ~IsACE(label)
  <2>1. ProcessLabel(label, errs) = ProcessText(label, label, errs)
    BY <1>3 DEF ProcessLabel
  <2> QED BY <1>1, <1>3, <2>1
<1>4. CASE label # <<>> /\ IsACE(label) /\ IsEmptyACE(label)
  <2>1. ProcessLabel(label, errs) = BadACE(label, errs \cup {"INVALID_ACE_LABEL"})
    BY <1>4 DEF ProcessLabel
  <2> QED BY <2>1, BadACELooksBad
<1>5. CASE label # <<>> /\ IsACE(label) /\ ~IsEmptyACE(label)
  <2> DEFINE encoded == Drop(label, 4)
             decoded == Decoded(encoded)
  <2>1. ProcessLabel(label, errs) = ProcessDecoded(label, decoded, errs)
    BY <1>5 DEF ProcessLabel
  <2> HIDE DEF decoded
  <2>2. decoded.ok => decoded.text \in Text /\ decoded.text # <<>>
    BY <1>5, DecodedIsText DEF decoded
  <2>3. CASE ~decoded.ok \/ ~IsNormalized(decoded.text)
    <3>1. PICK e \in {"PUNYCODE", "INVALID_ACE_LABEL"} :
            ProcessDecoded(label, decoded, errs) = BadACE(label, errs \cup {e})
      BY <2>3 DEF ProcessDecoded
    <3> QED BY <2>1, <3>1, BadACELooksBad
  <2>4. CASE decoded.ok /\ IsNormalized(decoded.text)
    <3>1. ProcessDecoded(label, decoded, errs) = ProcessText(label, decoded.text, errs)
      BY <2>4 DEF ProcessDecoded
    <3> QED BY <1>1, <1>5, <2>1, <2>2, <2>4, <3>1
  <2> QED BY <2>3, <2>4
<1> QED BY <1>2, <1>3, <1>4, <1>5

-----------------------------------------------------------------------------
(* That it stays so in a name.  Nothing has been mapped in this call:      *)
Unmapped == doMapDevChars = MapsDeviations(call)

BadIn(s, from, to) == \E x \in from .. to : IsBad(s[x])

(* The severe errors of the labels before this one are about units in      *)
(* those, and the ones of this label are about units that were scanned.    *)
CopyIsGood == pc = "ascii" => ~Severe(errors) /\ ~Severe(labelErrors)

BadIsSeen ==
  /\ pc = "unicode" =>
       /\ labelLimit <= Len(text)
       /\ Severe(errors) => BadIn(text, 1, labelStart)
       /\ Severe(labelErrors) => BadIn(text, labelStart + 1, labelLimit)
  /\ pc \in {"verdict", "done"} /\ Severe(errors) => LooksBad(text)

BadInv ==
  /\ doMapDevChars => MapsDeviations(call)
  /\ Unmapped => behind = <<>> /\ CopyIsGood /\ BadIsSeen

(* Errors that are not severe.                                             *)
LEMMA OtherFlags ==
  ASSUME NEW set, NEW name \in {"LEADING_HYPHEN", "TRAILING_HYPHEN", "EMPTY_LABEL",
                                "LABEL_TOO_LONG", "DOMAIN_NAME_TOO_LONG", "BIDI"}
  PROVE  Flags(set, name) \cap SevereErrors = {}
<1>1. name \notin SevereErrors
  BY DEF SevereErrors
<1> QED BY <1>1 DEF Flags

(* Nor is the one about the length of a label.                             *)
LEMMA LengthIsNotSevere ==
  ASSUME NEW length
  PROVE  LabelIsTooLong(length) \cap SevereErrors = {}
BY OtherFlags DEF LabelIsTooLong

(* A call begins with nothing bad.                                         *)
LEMMA CallIsGood ==
  ASSUME NameInputs, NEW c \in Calls, c.src \in Text, Call(c)
  PROVE  BadInv'
<1>1. /\ labelLimit' = 0 /\ labelStart' = 0 /\ behind' = <<>> /\ call' = c
      /\ errors' \in {{}, {"EMPTY_LABEL"}} /\ labelErrors' = {}
      /\ doMapDevChars' = MapsDeviations(c)
  BY DEF Call, Reset
<1>2. ~Severe(errors') /\ ~Severe(labelErrors')
  <2>1. "EMPTY_LABEL" \notin SevereErrors
    BY DEF SevereErrors
  <2> QED BY <1>1, <2>1 DEF Severe
<1>3. labelLimit' <= Len(text')
  <2>1. text' \in Text
    BY CallKeeps DEF NameInv, TextsOK
  <2> QED BY <1>1, <2>1 DEF Text
<1>4. CopyIsGood' /\ BadIsSeen'
  BY <1>2, <1>3 DEF CopyIsGood, BadIsSeen
<1> QED BY <1>1, <1>4 DEF BadInv

(* Nothing is bad in the ASCII prefix.                                     *)
LEMMA AsciiIsGood ==
  ASSUME NameInputs, NameInv, BadInv, AsciiCopy \/ AsciiDot \/ AsciiFinish \/ LeaveAscii
  PROVE  BadInv'
<1>1. /\ pc = "ascii" /\ doMapDevChars' = doMapDevChars /\ call' = call
      /\ behind' = behind
  BY DEF AsciiCopy, AsciiDot, AsciiFinish, LeaveAscii, indexes, buffer
<1>2. doMapDevChars' => MapsDeviations(call')
  BY <1>1 DEF BadInv
<1> SUFFICES ASSUME Unmapped' PROVE behind' = <<>> /\ CopyIsGood' /\ BadIsSeen'
  BY <1>2 DEF BadInv
<1>3. behind = <<>> /\ ~Severe(errors) /\ ~Severe(labelErrors)
  BY <1>1 DEF BadInv, Unmapped, CopyIsGood
<1>4. CASE AsciiCopy
  <2>1. errors' = errors /\ pc' = "ascii"
    BY <1>4 DEF AsciiCopy
  <2> DEFINE leads == Next1 = Hyphen /\ asciiEnd = asciiStart
             ends  == /\ Next1 = Hyphen
                      /\ asciiEnd + 1 < Len(call.src) => call.src[asciiEnd + 2] = Dot
  <2>2. labelErrors' = labelErrors \cup Flags(leads, "LEADING_HYPHEN")
                         \cup Flags(ends, "TRAILING_HYPHEN")
    BY <1>4 DEF AsciiCopy
  <2> HIDE DEF leads, ends
  <2>3. /\ Flags(leads, "LEADING_HYPHEN") \cap SevereErrors = {}
        /\ Flags(ends, "TRAILING_HYPHEN") \cap SevereErrors = {}
    BY OtherFlags
  <2>4. ~Severe(labelErrors')
    BY <1>3, <2>2, <2>3 DEF Severe
  <2> QED BY <1>1, <1>3, <2>1, <2>4 DEF CopyIsGood, BadIsSeen
<1>5. CASE AsciiDot
  <2> DEFINE empty == asciiEnd = asciiStart
  <2>1. labelErrors' = {} /\ pc' = "ascii"
    BY <1>5 DEF AsciiDot
  <2>2. errors' = errors \cup labelErrors \cup Flags(empty, "EMPTY_LABEL")
                    \cup LabelIsTooLong(asciiEnd - asciiStart)
    BY <1>5 DEF AsciiDot
  <2> HIDE DEF empty
  <2>3. /\ Flags(empty, "EMPTY_LABEL") \cap SevereErrors = {}
        /\ LabelIsTooLong(asciiEnd - asciiStart) \cap SevereErrors = {}
    BY OtherFlags, LengthIsNotSevere
  <2>4. ~Severe(errors') /\ ~Severe(labelErrors')
    BY <1>3, <2>1, <2>2, <2>3 DEF Severe
  <2> QED BY <1>1, <1>3, <2>1, <2>4 DEF CopyIsGood, BadIsSeen
<1>6. CASE AsciiFinish
  <2> DEFINE long == /\ call.toASCII /\ ~call.isLabel
                     /\ asciiEnd >= MaxNameLength
                     /\ asciiEnd > MaxNameLength \/ asciiStart < asciiEnd
  <2>1. pc' = "done"
    BY <1>6 DEF AsciiFinish
  <2>2. errors' = errors \cup labelErrors \cup LabelIsTooLong(asciiEnd - asciiStart)
                    \cup Flags(long, "DOMAIN_NAME_TOO_LONG")
    BY <1>6 DEF AsciiFinish
  <2> HIDE DEF long
  <2>3. /\ Flags(long, "DOMAIN_NAME_TOO_LONG") \cap SevereErrors = {}
        /\ LabelIsTooLong(asciiEnd - asciiStart) \cap SevereErrors = {}
    BY OtherFlags, LengthIsNotSevere
  <2>4. ~Severe(errors')
    BY <1>3, <2>2, <2>3 DEF Severe
  <2> QED BY <1>1, <1>3, <2>1, <2>4 DEF CopyIsGood, BadIsSeen
<1>7. CASE LeaveAscii
  <2>1. /\ pc' = "unicode" /\ errors' = errors \cup labelErrors
        /\ labelErrors' = labelErrors /\ labelLimit' = labelStart'
    BY <1>7 DEF LeaveAscii
  <2>2. labelStart' <= Len(text')
    BY <1>7, <2>1, LeaveAsciiKeeps DEF NameInv, LabelIsOK
  <2>3. ~Severe(errors') /\ ~Severe(labelErrors')
    BY <1>3, <2>1 DEF Severe
  <2> QED BY <1>1, <1>3, <2>1, <2>2, <2>3 DEF CopyIsGood, BadIsSeen
<1> QED BY <1>4, <1>5, <1>6, <1>7

(* What was bad before the label, or in it, is so in the whole.            *)
LEMMA BadStaysInTheWhole ==
  ASSUME NEW before \in Text, NEW label \in Text, NEW after \in Text, NEW t,
         t = (before \o label) \o after, LooksBad(before) \/ LooksBad(label)
  PROVE  /\ BadIn(t, 1, Len(before) + Len(label))
         /\ Len(before) + Len(label) <= Len(t) /\ Len(t) \in Nat
<1> DEFINE head == before \o label
<1>1. /\ head \in Text /\ Len(head) = Len(before) + Len(label)
      /\ Len(before) \in Nat /\ Len(label) \in Nat
      /\ \A i \in 1 .. Len(before) : head[i] = before[i]
      /\ \A i \in 1 .. Len(label) : head[Len(before) + i] = label[i]
  BY TextsMakeOne
<1>2. \E x \in 1 .. Len(head) : IsBad(head[x])
  <2> HIDE DEF head
  <2>1. CASE LooksBad(before)
    <3>1. PICK x \in 1 .. Len(before) : IsBad(before[x])
      BY <2>1 DEF LooksBad
    <3>2. x \in 1 .. Len(head) /\ head[x] = before[x]
      BY <1>1
    <3> QED BY <3>1, <3>2
  <2>2. CASE LooksBad(label)
    <3>1. PICK x \in 1 .. Len(label) : IsBad(label[x])
      BY <2>2 DEF LooksBad
    <3>2. Len(before) + x \in 1 .. Len(head) /\ head[Len(before) + x] = label[x]
      BY <1>1
    <3> QED BY <3>1, <3>2
  <2> QED BY <2>1, <2>2
<1> HIDE DEF head
<1>3. /\ Len(head \o after) = Len(head) + Len(after) /\ Len(after) \in Nat
      /\ \A i \in 1 .. Len(head) : (head \o after)[i] = head[i]
  BY <1>1, TextsMakeOne
<1>4. t = head \o after
  BY DEF head
<1>5. \E x \in 1 .. Len(head) : IsBad(t[x])
  BY <1>2, <1>3, <1>4
<1> QED BY <1>1, <1>3, <1>4, <1>5 DEF BadIn

(* What is bad in a part makes the part look bad.                          *)
LEMMA PartLooksBad ==
  ASSUME NEW s \in Text, NEW i \in Nat, NEW j \in Nat, j <= Len(s), BadIn(s, i + 1, j)
  PROVE  LooksBad(SubSeq(s, i + 1, j))
<1>1. PICK x \in i + 1 .. j : IsBad(s[x])
  BY DEF BadIn
<1>2. /\ Len(SubSeq(s, i + 1, j)) = IF i <= j THEN j - i ELSE 0
      /\ \A y \in 1 .. Len(SubSeq(s, i + 1, j)) : SubSeq(s, i + 1, j)[y] = s[i + y]
  BY PartOfText
<1>3. x - i \in 1 .. Len(SubSeq(s, i + 1, j)) /\ i + (x - i) = x
  BY <1>2
<1> QED BY <1>1, <1>2, <1>3 DEF LooksBad

(* The scan over a label.  When the deviation characters are mapped, the   *)
(* call is none of those this is about any more.                           *)
LEMMA ScanIsSeen ==
  ASSUME NameInputs, NameInv, BadInv, ScanPass \/ ScanUnpaired \/ MapDevChars
  PROVE  BadInv'
<1>1. /\ pc = "unicode" /\ pc' = "unicode" /\ labelLimit < destLength /\ call' = call
      /\ errors' = errors /\ labelStart' = labelStart
  BY DEF ScanPass, ScanUnpaired, MapDevChars, Scanning
<1>2. /\ text \in Seq(CodeUnit) /\ Len(text) \in Nat /\ destLength = Len(text)
      /\ labelStart \in Nat /\ labelLimit \in Nat /\ labelStart <= labelLimit
  BY <1>1, WhileScanning DEF Text
<1>3. CASE ScanPass \/ ScanUnpaired
  <2>1. /\ doMapDevChars' = doMapDevChars /\ behind' = behind
        /\ labelLimit' = labelLimit + 1
    BY <1>3 DEF ScanPass, ScanUnpaired, buffer
  <2>2. doMapDevChars' => MapsDeviations(call')
    BY <1>1, <2>1 DEF BadInv
  <2> SUFFICES ASSUME Unmapped' PROVE behind' = <<>> /\ CopyIsGood' /\ BadIsSeen'
    BY <2>2 DEF BadInv
  <2>3. /\ behind = <<>>
        /\ Severe(errors) => BadIn(text, 1, labelStart)
        /\ Severe(labelErrors) => BadIn(text, labelStart + 1, labelLimit)
    BY <1>1, <2>1 DEF BadInv, Unmapped, BadIsSeen
  <2>4. Len(text') = Len(text) /\ \A x \in 1 .. labelLimit : text'[x] = text[x]
    <3>1. CASE ScanPass
      BY <3>1 DEF ScanPass, buffer
    <3>2. CASE ScanUnpaired
      BY <1>1, <1>2, <3>2 DEF ScanUnpaired
    <3> QED BY <1>3, <3>1, <3>2
  <2>5. labelLimit' <= Len(text')
    BY <1>1, <1>2, <2>1, <2>4
  <2>6. Severe(errors) => BadIn(text', 1, labelStart)
    BY <1>2, <2>3, <2>4 DEF BadIn
  <2>7. Severe(labelErrors') => BadIn(text', labelStart + 1, labelLimit + 1)
    <3>1. CASE ScanPass
      <4>1. labelErrors' = labelErrors
        BY <3>1 DEF ScanPass
      <4>2. BadIn(text, labelStart + 1, labelLimit)
              => BadIn(text', labelStart + 1, labelLimit + 1)
        BY <1>2, <2>4 DEF BadIn
      <4> QED BY <2>3, <4>1, <4>2
    <3>2. CASE ScanUnpaired
      <4>1. text'[labelLimit + 1] = Replacement
        BY <1>1, <1>2, <3>2 DEF ScanUnpaired
      <4>2. labelLimit + 1 \in labelStart + 1 .. labelLimit + 1
        BY <1>2
      <4> QED BY <4>1, <4>2, ReplacementIsBad DEF BadIn
    <3> QED BY <1>3, <3>1, <3>2
  <2> QED BY <1>1, <2>1, <2>3, <2>5, <2>6, <2>7 DEF CopyIsGood, BadIsSeen
<1>4. CASE MapDevChars
  <2>1. doMapDevChars /\ doMapDevChars' = FALSE
    BY <1>4 DEF MapDevChars
  <2>2. MapsDeviations(call)
    BY <2>1 DEF BadInv
  <2> QED BY <1>1, <2>1, <2>2 DEF BadInv, Unmapped
<1> QED BY <1>3, <1>4

(* A label whose errors are seen in it, and what processLabel() makes of   *)
(* it.                                                                     *)
LEMMA LabelIsSeen ==
  ASSUME NameInputs, NameInv, BadInv, pc = "unicode", Unmapped,
         NEW label, label = SubSeq(text, labelStart + 1, labelLimit),
         NEW result, result = ProcessLabel(label, labelErrors), Severe(result.errors)
  PROVE  LooksBad(result.label)
<1>1. /\ text \in Text /\ labelStart \in Nat /\ labelLimit \in Nat
  BY WhileScanning
<1>2. /\ labelLimit <= Len(text)
      /\ Severe(labelErrors) => BadIn(text, labelStart + 1, labelLimit)
  BY DEF BadInv, BadIsSeen
<1>3. SubSeq(text, labelStart + 1, labelLimit) \in Text
  BY <1>1, <1>2, PartOfText
<1>4. Severe(labelErrors) => LooksBad(label)
  BY <1>1, <1>2, PartLooksBad
<1> QED BY <1>3, <1>4, SevereLooksBad

(* A label is written back, with what was before it and what comes behind. *)
LEMMA LabelsAreSeen ==
  ASSUME NameInputs, NameInv, BadInv, EndLabel \/ LastLabel
  PROVE  BadInv'
<1>1. /\ pc = "unicode" /\ doMapDevChars' = doMapDevChars /\ call' = call
      /\ behind' = behind
  BY DEF EndLabel, LastLabel, Scanning, indexes
<1>2. doMapDevChars' => MapsDeviations(call')
  BY <1>1 DEF BadInv
<1> SUFFICES ASSUME Unmapped' PROVE behind' = <<>> /\ CopyIsGood' /\ BadIsSeen'
  BY <1>2 DEF BadInv
<1>3. Unmapped
  BY <1>1 DEF Unmapped
<1>4. /\ behind = <<>> /\ labelLimit <= Len(text)
      /\ Severe(errors) => BadIn(text, 1, labelStart)
  BY <1>1, <1>3 DEF BadInv, BadIsSeen
<1>5. /\ text \in Text /\ Len(text) \in Nat /\ destLength = Len(text)
      /\ labelStart \in Nat /\ labelLimit \in Nat
      /\ labelStart <= labelLimit /\ labelStart <= Len(text)
      /\ BiDiOK /\ labelErrors \in SUBSET ErrorNames
  BY <1>1, WhileScanning
<1> DEFINE label  == SubSeq(text, labelStart + 1, labelLimit)
           before == SubSeq(text, 1, labelStart)
<1>6. label \in Text
  BY <1>4, <1>5, PartOfText
<1>7. before \in Text /\ Len(before) = labelStart /\ (Severe(errors) => LooksBad(before))
  <2>1. before \in Text /\ Len(before) = labelStart
        /\ \A x \in 1 .. labelStart : before[x] = text[x]
    BY <1>5 DEF Text
  <2> HIDE DEF before
  <2> QED BY <1>4, <2>1 DEF BadIn, LooksBad
<1> HIDE DEF label, before
<1> DEFINE result == ProcessLabel(label, labelErrors)
<1>8. ResultOK(result) /\ (Severe(result.errors) => LooksBad(result.label))
  BY <1>1, <1>3, <1>5, <1>6, ProcessedIsOK, LabelIsSeen DEF label
<1>9. result.label \in Text /\ result.length = Len(result.label)
  BY <1>8 DEF ResultOK
<1>10. CASE EndLabel
  <2> DEFINE after == Drop(text, labelLimit)
  <2>1. /\ errors' = errors \cup result.errors /\ labelErrors' = {}
        /\ text' = (before \o result.label) \o after
        /\ labelStart' = labelStart + result.length + 1
        /\ labelLimit' = labelStart'
        /\ pc' \in {"verdict", "unicode"}
    BY <1>1, <1>10 DEF EndLabel, TakeResult, label, before
  <2>2. after \in Text
    BY <1>5, RestOfText
  <2> HIDE DEF result, after
  <2>3. Severe(errors') => LooksBad(before) \/ LooksBad(result.label)
    BY <1>7, <1>8, <2>1 DEF Severe
  <2>4. Severe(errors') =>
          /\ BadIn(text', 1, labelStart + Len(result.label))
          /\ labelStart + Len(result.label) <= Len(text') /\ Len(text') \in Nat
    BY <1>7, <1>9, <2>1, <2>2, <2>3, BadStaysInTheWhole
  <2>5. Len(result.label) \in Nat
    BY <1>9 DEF Text
  <2>6. Severe(errors') => BadIn(text', 1, labelStart') /\ LooksBad(text')
    <3> SUFFICES ASSUME Severe(errors') PROVE BadIn(text', 1, labelStart') /\ LooksBad(text')
      OBVIOUS
    <3>1. PICK x \in 1 .. labelStart + Len(result.label) : IsBad(text'[x])
      BY <2>4 DEF BadIn
    <3>2. x \in 1 .. labelStart' /\ x \in 1 .. Len(text')
      BY <1>5, <1>9, <2>1, <2>4, <2>5
    <3> QED BY <3>1, <3>2 DEF BadIn, LooksBad
  <2>7. pc' = "unicode" => labelLimit' <= Len(text')
    BY <1>10, <2>1, EndLabelKeeps DEF NameInv, LabelIsOK
  <2>8. ~Severe(labelErrors')
    BY <2>1 DEF Severe
  <2> QED BY <1>1, <1>4, <2>1, <2>6, <2>7, <2>8 DEF CopyIsGood, BadIsSeen
<1>11. CASE LastLabel
  <2>1. labelLimit >= destLength
    BY <1>11 DEF LastLabel
  <2>2. Drop(text, labelStart) \o behind = label
    <3>1. labelLimit = Len(text)
      BY <1>4, <1>5, <2>1
    <3>2. Drop(text, labelStart) = label
      BY <3>1 DEF Drop, label
    <3>3. label \in Seq(CodeUnit)
      BY <1>6 DEF Text
    <3> QED BY <1>4, <3>2, <3>3
  <2>3. /\ errors' = errors \cup result.errors /\ pc' = "verdict"
        /\ text' = before \o result.label
    BY <1>4, <1>11, <2>2 DEF LastLabel, TakeResult, before
  <2> HIDE DEF result
  <2>4. Severe(errors') => LooksBad(before) \/ LooksBad(result.label)
    BY <1>7, <1>8, <2>3 DEF Severe
  <2>5. <<>> \in Text /\ text' = (before \o result.label) \o <<>>
    <3>1. before \o result.label \in Text
      BY <1>7, <1>9, TextsMakeOne
    <3> QED BY <2>3, <3>1 DEF Text
  <2>6. Severe(errors') => LooksBad(text')
    <3> SUFFICES ASSUME Severe(errors') PROVE LooksBad(text')
      OBVIOUS
    <3>1. /\ BadIn(text', 1, Len(before) + Len(result.label))
          /\ Len(before) + Len(result.label) <= Len(text') /\ Len(text') \in Nat
      BY <1>7, <1>9, <2>4, <2>5, BadStaysInTheWhole
    <3>2. Len(before) + Len(result.label) \in Nat
      BY <1>7, <1>9, TextsMakeOne
    <3> QED BY <3>1, <3>2 DEF BadIn, LooksBad
  <2> QED BY <1>1, <1>4, <2>3, <2>6 DEF CopyIsGood, BadIsSeen
<1> QED BY <1>10, <1>11

(* The verdicts add no severe error.                                       *)
LEMMA VerdictsAreSeen ==
  ASSUME NameInputs, NameInv, BadInv, NoLastLabel \/ Verdict
  PROVE  BadInv'
<1>1. /\ doMapDevChars' = doMapDevChars /\ call' = call /\ behind' = behind
      /\ text' = text /\ pc' \in {"verdict", "done"}
  BY DEF NoLastLabel, Verdict, indexes, buffer
<1>2. doMapDevChars' => MapsDeviations(call')
  BY <1>1 DEF BadInv
<1> SUFFICES ASSUME Unmapped' PROVE behind' = <<>> /\ CopyIsGood' /\ BadIsSeen'
  BY <1>2 DEF BadInv
<1>3. behind = <<>> /\ BadIsSeen
  BY <1>1 DEF BadInv, Unmapped
<1>4. CASE NoLastLabel
  <2>1. errors' = errors /\ pc = "unicode"
    BY <1>4 DEF NoLastLabel
  <2>2. labelStart \in Nat /\ labelStart <= Len(text) /\ Len(text) \in Nat
    BY <2>1, WhileScanning
  <2>3. BadIn(text, 1, labelStart) => LooksBad(text)
    BY <2>2 DEF BadIn, LooksBad
  <2> QED BY <1>1, <1>3, <2>1, <2>3 DEF CopyIsGood, BadIsSeen
<1>5. CASE Verdict
  <2>1. /\ Flags(FailsBiDi, "BIDI") \cap SevereErrors = {}
        /\ Flags(NameIsTooLong, "DOMAIN_NAME_TOO_LONG") \cap SevereErrors = {}
    BY OtherFlags
  <2>2. /\ pc = "verdict"
        /\ errors' = errors \cup Flags(FailsBiDi, "BIDI")
                       \cup Flags(NameIsTooLong, "DOMAIN_NAME_TOO_LONG")
    BY <1>5 DEF Verdict
  <2>3. Severe(errors') => Severe(errors)
    BY <2>1, <2>2 DEF Severe
  <2> QED BY <1>1, <1>3, <2>2, <2>3 DEF CopyIsGood, BadIsSeen
<1> QED BY <1>4, <1>5

(* Every step keeps it.                                                    *)
LEMMA BadInvStays ==
  ASSUME NameInputs, NameInv, BadInv, [CallsNext]_<<vars, first>>
  PROVE  BadInv'
<1>1. ASSUME NEW c \in Inputs, Call(c) PROVE BadInv'
  <2>1. c \in Calls /\ c.src \in Text
    BY DEF NameInputs
  <2> QED BY <1>1, <2>1, CallIsGood
<1>2. CASE FirstCall
  BY <1>1, <1>2 DEF FirstCall
<1>3. CASE SecondCall(call.toASCII) \/ SecondCall(FALSE) \/ CallInUTF8
  <2>1. call.toASCII \in BOOLEAN /\ FALSE \in BOOLEAN
    BY DEF NameInv, CallIsOK, Calls
  <2>2. PICK c \in Calls : c.src \in Text /\ Call(c)
    BY <1>3, <2>1, NextCallIsACall
  <2> QED BY <2>2, CallIsGood
<1>4. CASE Step
  BY <1>4, AsciiIsGood, ScanIsSeen, LabelsAreSeen, VerdictsAreSeen DEF Step
<1>5. CASE UNCHANGED vars
  BY <1>5 DEF vars, buffer, indexes, bidi, BadInv, Unmapped, CopyIsGood, BadIsSeen
<1> QED BY <1>2, <1>3, <1>4, <1>5 DEF CallsNext, NameStep, Returned

(* A name that has a severe error does not look like one that a host may   *)
(* have: for every name, all options and all data, in every call that has  *)
(* not mapped deviation characters.  processLabel() replaces what it       *)
(* reports, or has replaced it before, and nothing behind it undoes that.  *)
THEOREM BadLooksBadUnmapped ==
  ASSUME NameInputs PROVE CallsSpec => [](Unmapped => BadLooksBad)
<1>1. CallsInit => NameInv
  BY NameInvBegins
<1>2. NameInv /\ [CallsNext]_<<vars, first>> => NameInv'
  BY NameInvStays
<1>3. CallsInit => BadInv
  BY DEF CallsInit, Init, BadInv, CopyIsGood, BadIsSeen
<1>4. NameInv /\ BadInv /\ [CallsNext]_<<vars, first>> => BadInv'
  BY BadInvStays
<1>5. NameInv /\ BadInv => (Unmapped => BadLooksBad)
  <2> SUFFICES ASSUME NameInv, BadInv, Unmapped, Done, Severe(errors)
               PROVE  \E x \in DOMAIN Result : IsBad(Result[x])
    BY DEF BadLooksBad, IsBad
  <2>1. LooksBad(text)
    BY DEF BadInv, BadIsSeen, Done
  <2>2. PICK x \in 1 .. Len(text) : IsBad(text[x])
    BY <2>1 DEF LooksBad
  <2>3. prefix \in Text /\ text \in Text
    BY DEF NameInv, TextsOK
  <2>4. /\ prefix \o text \in Text /\ Len(prefix \o text) = Len(prefix) + Len(text)
        /\ Len(prefix) \in Nat /\ Len(text) \in Nat
        /\ (prefix \o text)[Len(prefix) + x] = text[x]
    BY <2>3, TextsMakeOne
  <2>5. Len(prefix) + x \in DOMAIN (prefix \o text)
    BY <2>4 DEF Text
  <2> QED BY <2>2, <2>4, <2>5 DEF Result
<1> QED BY <1>1, <1>2, <1>3, <1>4, <1>5, PTL DEF CallsSpec
=============================================================================
