------------------------------- MODULE UTS46 --------------------------------
(***************************************************************************)
(* UTS46::process() and processUTF8(): an ASCII prefix is copied by a loop *)
(* of its own, the rest is normalized and processed label by label, and    *)
(* the verdicts that concern the whole name come last.  One action per     *)
(* iteration of the two loops; processLabel() is one step.                 *)
(*                                                                         *)
(* Strings are code units; a string in UTF-8 is modelled by its code       *)
(* points' UTF-16 form, and only its length is that of its bytes.  The     *)
(* normalizer is the function of Normalization, Punycode the one of        *)
(* PunycodeDefinition.  Allocation failures are left out.                  *)
(***************************************************************************)
EXTENDS Normalization, PunycodeDefinition, LabelChecks

CONSTANTS
  IsMark(_),       (* the general category is one of the marks             *)
  MaxLabelLength,  (* of a DNS label: 63                                   *)
  MaxNameLength,   (* of a name that ends with a dot: 254                  *)
  StackArray       (* the bytes of processUTF8()'s array: 256              *)

VARIABLES
  pc,              (* "ready", "ascii", "unicode", "verdict" or "done"     *)
  call,            (* the arguments and options of the call                *)
  asciiEnd,        (* the index of the loop over the ASCII prefix          *)
  asciiStart,      (* process()'s labelStart                               *)
  prefix,          (* what was appended to the sink already (UTF-8)        *)
  text,            (* dest, or destString (UTF-8)                          *)
  behind,          (* what the array holds behind text, up to labelLimit   *)
  destLength, labelStart, labelLimit, doMapDevChars,
  errors, labelErrors, isTransDiff, isBiDi, isOkBiDi,
  errorCode

buffer  == <<text, behind>>
indexes == <<destLength, labelStart, labelLimit, doMapDevChars>>
bidi    == <<isBiDi, isOkBiDi>>
vars    == <<pc, call, asciiEnd, asciiStart, prefix, buffer, indexes, errors,
             labelErrors, isTransDiff, bidi, errorCode>>

Options == {"STD3", "BIDI", "CONTEXTJ", "CONTEXTO",
            "NONTRANSITIONAL_TO_ASCII", "NONTRANSITIONAL_TO_UNICODE"}

Calls == [src : Seq(Nat), utf8 : BOOLEAN, isLabel : BOOLEAN,
          toASCII : BOOLEAN, options : SUBSET Options]

NoCall == [src |-> <<>>, utf8 |-> FALSE, isLabel |-> FALSE, toASCII |-> FALSE,
           options |-> {}]

SevereErrors == {"LEADING_COMBINING_MARK", "DISALLOWED", "PUNYCODE",
                 "LABEL_HAS_DOT", "INVALID_ACE_LABEL"}

Hyphen      == 45
Replacement == 65533
AcePrefix   == <<120, 110, 45, 45>>

IsASCII(c) == c <= 127

(* asciiData[c] >= 0: letters, digits, hyphen and dot.                     *)
IsLDHDot(c) == IsLower(c) \/ IsUpper(c) \/ IsDigit(c) \/ c \in {Hyphen, Dot}

(* The deviation characters: sharp s, final sigma and the two joiners.     *)
IsDeviation(c) == c \in {223, 962, ZWNJ, ZWJ}

IsNonASCIIDisallowedSTD3Valid(c) == c \in {8800, 8814, 8815}

STD3 == "STD3" \in call.options
Flags(set, name) == IF set THEN {name} ELSE {}

Utf8Length(s) ==
  LET bytes(c) == IF c < 128 THEN 1 ELSE IF c < 2048 THEN 2
                  ELSE IF c < 65536 THEN 3 ELSE 4
  IN  FoldLeft(LAMBDA sum, c : sum + bytes(c), 0, CodePoints(s))

Drop(s, count) == SubSeq(s, count + 1, Len(s))

-----------------------------------------------------------------------------
(* A call: the arguments are checked, the output values are reset.  In     *)
(* UTF-8 a long name does without the loop over its ASCII prefix.          *)
Reset ==
  /\ asciiEnd' = 0 /\ asciiStart' = 0 /\ prefix' = <<>> /\ behind' = <<>>
  /\ labelStart' = 0 /\ labelLimit' = 0
  /\ labelErrors' = {} /\ isTransDiff' = FALSE
  /\ isBiDi' = FALSE /\ isOkBiDi' = TRUE
  /\ errorCode' = U_ZERO_ERROR

MapsDeviations(c) ==
  IF c.toASCII THEN "NONTRANSITIONAL_TO_ASCII" \notin c.options
               ELSE "NONTRANSITIONAL_TO_UNICODE" \notin c.options

Call(c) ==
  /\ pc \in {"ready", "done"}
  /\ call' = c
  /\ Reset
  /\ doMapDevChars' = MapsDeviations(c)
  /\ IF c.src = <<>>
     THEN pc' = "done" /\ errors' = {"EMPTY_LABEL"} /\ text' = <<>>
     ELSE IF c.utf8 /\ Utf8Length(c.src) > StackArray
     THEN pc' = "unicode" /\ errors' = {} /\ text' = Normalize(c.src)
     ELSE pc' = "ascii" /\ errors' = {} /\ text' = <<>>
  /\ destLength' = Len(text')

-----------------------------------------------------------------------------
(* The loop over the ASCII prefix, at character c of the source.           *)
AtEnd == asciiEnd = Len(call.src)
Next1 == call.src[asciiEnd + 1]

(* Mutant: an ACE label is taken for ASCII like any other.                 *)
LeavesAsciiNotForAce(c) ==
  ~IsASCII(c) \/ (STD3 /\ ~IsLDHDot(c)) \/ (c = Dot /\ call.isLabel)

(* A "??--" label, a dot in a single label, and what STD3 rules forbid are *)
(* left to the other loop, and so is everything that is not ASCII.         *)
LeavesAscii(c) ==
  \/ ~IsASCII(c)
  \/ STD3 /\ ~IsLDHDot(c)
  \/ c = Hyphen /\ asciiEnd = asciiStart + 3 /\ call.src[asciiEnd] = Hyphen
  \/ c = Dot /\ call.isLabel

LabelIsTooLong(length) ==
  Flags(call.toASCII /\ length > MaxLabelLength, "LABEL_TOO_LONG")

AsciiCopy ==
  /\ pc = "ascii" /\ ~AtEnd /\ ~LeavesAscii(Next1) /\ Next1 # Dot
  /\ text' = Append(text, IF IsUpper(Next1) THEN Next1 + 32 ELSE Next1)
  /\ labelErrors' = labelErrors
       \cup Flags(Next1 = Hyphen /\ asciiEnd = asciiStart, "LEADING_HYPHEN")
       \cup Flags(/\ Next1 = Hyphen
                  /\ asciiEnd + 1 < Len(call.src) => call.src[asciiEnd + 2] = Dot,
                  "TRAILING_HYPHEN")
  /\ asciiEnd' = asciiEnd + 1
  /\ UNCHANGED <<pc, call, asciiStart, prefix, behind, indexes, errors, isTransDiff, bidi,
                 errorCode>>

(* Mutant: the next label starts behind the character after the dot.       *)
AsciiDotSkips ==
  /\ pc = "ascii" /\ ~AtEnd /\ ~LeavesAscii(Next1) /\ Next1 = Dot
  /\ text' = Append(text, Dot)
  /\ errors' = errors \cup labelErrors
                  \cup Flags(asciiEnd = asciiStart, "EMPTY_LABEL")
                  \cup LabelIsTooLong(asciiEnd - asciiStart)
  /\ labelErrors' = {}
  /\ asciiEnd' = asciiEnd + 1 /\ asciiStart' = asciiEnd + 2
  /\ UNCHANGED <<pc, call, prefix, behind, indexes, isTransDiff, bidi, errorCode>>

AsciiDot ==
  /\ pc = "ascii" /\ ~AtEnd /\ ~LeavesAscii(Next1) /\ Next1 = Dot
  /\ text' = Append(text, Dot)
  /\ errors' = errors \cup labelErrors
                  \cup Flags(asciiEnd = asciiStart, "EMPTY_LABEL")
                  \cup LabelIsTooLong(asciiEnd - asciiStart)
  /\ labelErrors' = {}
  /\ asciiEnd' = asciiEnd + 1 /\ asciiStart' = asciiEnd + 1
  /\ UNCHANGED <<pc, call, prefix, behind, indexes, isTransDiff, bidi, errorCode>>

AsciiFinish ==
  /\ pc = "ascii" /\ AtEnd
  /\ errors' = errors \cup labelErrors
       \cup LabelIsTooLong(asciiEnd - asciiStart)
       \cup Flags(/\ call.toASCII /\ ~call.isLabel
                  /\ asciiEnd >= MaxNameLength
                  /\ asciiEnd > MaxNameLength \/ asciiStart < asciiEnd,
                  "DOMAIN_NAME_TOO_LONG")
  /\ pc' = "done"
  /\ UNCHANGED <<call, asciiEnd, asciiStart, prefix, buffer, indexes, labelErrors,
                 isTransDiff, bidi, errorCode>>

(* The normalizer gets the rest.  In UTF-8 the labels before the current   *)
(* one have been written, and the rest is a string of its own.             *)
LeaveAscii ==
  /\ pc = "ascii" /\ ~AtEnd /\ LeavesAscii(Next1)
  /\ errors' = errors \cup labelErrors
  /\ LET written == IF call.utf8 THEN asciiStart ELSE 0
     IN  /\ prefix' = SubSeq(text, 1, written)
         /\ text' = Normalize(Drop(text, written) \o Drop(call.src, asciiEnd))
         /\ labelStart' = asciiStart - written
         /\ labelLimit' = asciiStart - written
  /\ destLength' = Len(text')
  /\ pc' = "unicode"
  /\ UNCHANGED <<behind, call, asciiEnd, asciiStart, doMapDevChars, labelErrors,
                 isTransDiff, bidi, errorCode>>

-----------------------------------------------------------------------------
Forbidden(c) == c = Dot \/ (STD3 /\ IsASCII(c) /\ ~IsLDHDot(c))

(* Mutants: the unit that is added to a label is not counted, or the label *)
(* is left as it is.                                                       *)
NotMarked(label)               == label
MarkedLengthWithoutMark(label) == Len(label)

Marked(label)       == Append(label, Replacement)
MarkedLength(label) == Len(Marked(label))

(* A label on its own.  markBadACELabel() makes sure that an ACE label     *)
(* does not look valid: what is not LDH stays or becomes U+FFFD, and when  *)
(* everything is, U+FFFD is added.                                         *)
MarkBadACELabel(label, errs) ==
  LET body     == {label[x] : x \in 5 .. Len(label)}
      marked   == [x \in DOMAIN label |->
                     IF x > 4 /\ Forbidden(label[x]) THEN Replacement ELSE label[x]]
      hasDot   == Flags(Dot \in body, "LABEL_HAS_DOT")
      isASCII  == \A c \in body : IsASCII(c) /\ ~Forbidden(c)
      onlyLDH  == \A c \in body : IsASCII(c) /\ IsLDHDot(c) /\ c # Dot
  IN  IF onlyLDH
      THEN [label |-> Marked(label), length |-> MarkedLength(label), errors |-> errs]
      ELSE [label |-> marked, length |-> Len(label),
            errors |-> errs \cup hasDot
                         \cup IF isASCII THEN LabelIsTooLong(Len(label)) ELSE {}]

IsACE(label) == Len(label) >= 4 /\ SubSeq(label, 1, 4) = AcePrefix

(* "xn--" and "xn--ASCII-" are not the encoding of anything.               *)
IsEmptyACE(label) == Len(label) = 4 \/ (Len(label) > 5 /\ Last(label) = Hyphen)

(* The scan over a label replaces what is not allowed in it, and a leading *)
(* mark is replaced as a whole.                                            *)
Scanned(u) ==
  [x \in DOMAIN u |->
     IF Forbidden(u[x]) \/ (STD3 /\ IsNonASCIIDisallowedSTD3Valid(u[x]))
     THEN Replacement ELSE u[x]]

HasLeadingMark(u) == IsMark(CodePointAt(Scanned(u), 0))

Repaired(u) ==
  IF HasLeadingMark(u)
  THEN <<Replacement>> \o Drop(Scanned(u), U16_LENGTH(CodePointAt(u, 0)))
  ELSE Scanned(u)

ValidityErrors(u) ==
  Flags(Len(u) >= 4 /\ u[3] = Hyphen /\ u[4] = Hyphen, "HYPHEN_3_4")
    \cup Flags(u[1] = Hyphen, "LEADING_HYPHEN")
    \cup Flags(Last(u) = Hyphen, "TRAILING_HYPHEN")
    \cup Flags(\E x \in DOMAIN u : u[x] = Dot, "LABEL_HAS_DOT")
    \cup Flags(\E x \in DOMAIN u : u[x] # Dot /\ Scanned(u)[x] = Replacement,
               "DISALLOWED")
    \cup Flags(HasLeadingMark(u), "LEADING_COMBINING_MARK")

ContextErrors(c) ==
  Flags("CONTEXTJ" \in call.options /\ ~IsLabelOkContextJ(c), "CONTEXTJ")
    \cup Flags("CONTEXTO" \in call.options /\ ContextOPunctuation(c),
               "CONTEXTO_PUNCTUATION")
    \cup Flags("CONTEXTO" \in call.options /\ ContextODigits(c),
               "CONTEXTO_DIGITS")

RepairedLength(u) ==
  IF HasLeadingMark(u) THEN Len(u) + 1 - U16_LENGTH(CodePointAt(u, 0)) ELSE Len(u)

(* Mutant: the second call of the encoder finds no prefix in the buffer.   *)
AceFormLosesPrefix(u) ==
  IF Len(EncodeText(u)) + 4 > MaxLabelLength THEN EncodeText(u)
  ELSE AcePrefix \o EncodeText(u)

AceForm(u) == AcePrefix \o EncodeText(u)

(* As long as the name may still turn out to be a good BiDi domain name.   *)
ChecksBiDi == "BIDI" \in call.options /\ (~isBiDi \/ isOkBiDi)

(* What a label with the code points c becomes after its checks.           *)
Valid(label, c, errs, fails) ==
  [label    |-> label,
   length   |-> Len(label),
   errors   |-> errs \cup ContextErrors(c)
                  \cup IF fails THEN {} ELSE LabelIsTooLong(Len(label)),
   isBiDi   |-> isBiDi \/ (ChecksBiDi /\ HasRTL(c)),
   isOkBiDi |-> isOkBiDi /\ (ChecksBiDi => PassesBiDiRule(c)),
   code     |-> IF fails THEN U_INPUT_TOO_LONG_ERROR ELSE U_ZERO_ERROR]

(* A valid label, label being what stands for u in the text: the checks    *)
(* that look at the context, and the conversion to ASCII.  An ACE label    *)
(* stays as it is.                                                         *)
FinishLabel(label, u, errs) ==
  LET encodes == call.toASCII /\ ~IsACE(label) /\ \E x \in DOMAIN u : ~IsASCII(u[x])
      fails   == encodes /\ Len(u) > EncodeMaxCodeUnits
  IN  Valid(IF fails THEN u ELSE IF encodes THEN AceForm(u)
            ELSE IF call.toASCII THEN label ELSE u,
            CodePoints(u), errs, fails)

(* What a label that is not valid becomes.                                 *)
Invalid(label, length, errs) ==
  [label |-> label, length |-> length, errors |-> errs,
   isBiDi |-> isBiDi, isOkBiDi |-> isOkBiDi, code |-> U_ZERO_ERROR]

BadACE(label, errs) ==
  LET bad == MarkBadACELabel(label, errs)
  IN  Invalid(bad.label, bad.length, bad.errors)

CheckLabel(label, u, errs) ==
  IF errs \cap SevereErrors = {} THEN FinishLabel(label, Repaired(u), errs)
  ELSE IF IsACE(label) THEN BadACE(label, errs \cup {"INVALID_ACE_LABEL"})
  ELSE Invalid(Repaired(u), RepairedLength(u), errs)

(* A label that stands for u, which no decoder had to be asked for or      *)
(* which one has found.                                                    *)
ProcessText(label, u, errs) == CheckLabel(label, u, errs \cup ValidityErrors(u))

ProcessDecoded(label, decoded, errs) ==
  IF ~decoded.ok THEN BadACE(label, errs \cup {"PUNYCODE"})
  ELSE IF ~IsNormalized(decoded.text)
  THEN BadACE(label, errs \cup {"INVALID_ACE_LABEL"})
  ELSE ProcessText(label, decoded.text, errs)

ProcessLabel(label, errs) ==
  IF label = <<>> THEN Invalid(label, 0, errs \cup {"EMPTY_LABEL"})
  ELSE IF ~IsACE(label) THEN ProcessText(label, label, errs)
  ELSE IF IsEmptyACE(label) THEN BadACE(label, errs \cup {"INVALID_ACE_LABEL"})
  ELSE ProcessDecoded(label, Decoded(Drop(label, 4)), errs)

-----------------------------------------------------------------------------
(* The loop of processUnicode() over the normalized text, at unit c.       *)
Scanning == pc = "unicode" /\ labelLimit < destLength
Unit     == text[labelLimit + 1]

IsUnpaired(c) ==
  /\ IsSurrogate(c)
  /\ IsLead(c)  => (labelLimit + 1 < destLength => ~IsTrail(text[labelLimit + 2]))
  /\ IsTrail(c) => (labelStart < labelLimit => ~IsLead(text[labelLimit]))

(* Mutant: deviation characters that are not mapped are not noted.         *)
ScanPassForgets ==
  /\ Scanning
  /\ Unit = Dot => call.isLabel
  /\ IsDeviation(Unit) => ~doMapDevChars
  /\ ~IsUnpaired(Unit)
  /\ labelLimit' = labelLimit + 1
  /\ UNCHANGED <<pc, call, asciiEnd, asciiStart, prefix, buffer, destLength, labelStart,
                 doMapDevChars, errors, labelErrors, isTransDiff, bidi, errorCode>>

ScanPass ==
  /\ Scanning
  /\ Unit = Dot => call.isLabel
  /\ IsDeviation(Unit) => ~doMapDevChars
  /\ ~IsUnpaired(Unit)
  /\ isTransDiff' = (isTransDiff \/ IsDeviation(Unit))
  /\ labelLimit' = labelLimit + 1
  /\ UNCHANGED <<pc, call, asciiEnd, asciiStart, prefix, buffer, destLength, labelStart,
                 doMapDevChars, errors, labelErrors, bidi, errorCode>>

ScanUnpaired ==
  /\ Scanning /\ IsUnpaired(Unit)
  /\ text' = [text EXCEPT ![labelLimit + 1] = Replacement]
  /\ labelErrors' = labelErrors \cup {"DISALLOWED"}
  /\ labelLimit' = labelLimit + 1
  /\ UNCHANGED <<pc, call, asciiEnd, asciiStart, prefix, behind, destLength, labelStart,
                 doMapDevChars, errors, isTransDiff, bidi, errorCode>>

(* The deviation characters are mapped, or removed.                        *)
MappedDeviations(s) ==
  LET map(c) == IF c = 223 THEN <<115, 115>> ELSE IF c = 962 THEN <<963>>
                ELSE IF c \in {ZWNJ, ZWJ} THEN <<>> ELSE <<c>>
  IN  FlattenSeq([x \in DOMAIN s |-> map(s[x])])

(* Mutant: the text is not normalized once more.                           *)
NotNormalizedAgain(s) == s

NormalizedAgain(s) == Normalize(s)

(* Mutant: the scan starts over until it finds no deviation character, and *)
(* the mapping begins behind the one that was found.                       *)
MapDevCharsStartsOver ==
  LET mapped == SubSeq(text, labelStart + 1, labelLimit + 1)
                  \o MappedDeviations(Drop(text, labelLimit + 1))
  IN  /\ Scanning /\ IsDeviation(Unit) /\ doMapDevChars
      /\ isTransDiff' = TRUE
      /\ text' = SubSeq(text, 1, labelStart) \o Normalize(mapped)
      /\ behind' = SubSeq(text, Len(text') + 1, labelLimit)
      /\ destLength' = Len(text')
      /\ labelLimit' = labelStart
      /\ UNCHANGED <<pc, call, asciiEnd, asciiStart, prefix, labelStart, doMapDevChars,
                     errors, labelErrors, bidi, errorCode>>

(* mapDevChars(): all deviation characters from here on are mapped and the *)
(* text is normalized again from the start of the label; labelLimit stays. *)
MapDevChars ==
  LET mapped == SubSeq(text, labelStart + 1, labelLimit)
                  \o MappedDeviations(Drop(text, labelLimit))
  IN  /\ Scanning /\ IsDeviation(Unit) /\ doMapDevChars
      /\ isTransDiff' = TRUE
      /\ text' = SubSeq(text, 1, labelStart) \o NormalizedAgain(mapped)
      /\ behind' = SubSeq(text, Len(text') + 1, labelLimit)
      /\ destLength' = Len(text')
      /\ doMapDevChars' = FALSE
      /\ UNCHANGED <<pc, call, asciiEnd, asciiStart, prefix, labelStart, labelLimit,
                     errors, labelErrors, bidi, errorCode>>

LengthWith(newLength) == destLength + newLength - (labelLimit - labelStart)

(* The label that ends here, and the behaviour after it.                   *)
TakeResult(result) ==
  /\ errors' = errors \cup result.errors
  /\ labelErrors' = {}
  /\ isBiDi' = result.isBiDi /\ isOkBiDi' = result.isOkBiDi
  /\ errorCode' = result.code

EndLabel ==
  /\ Scanning /\ Unit = Dot /\ ~call.isLabel
  /\ \E result \in {ProcessLabel(SubSeq(text, labelStart + 1, labelLimit), labelErrors)} :
       /\ TakeResult(result)
       /\ text' = SubSeq(text, 1, labelStart) \o result.label \o Drop(text, labelLimit)
       /\ destLength' = LengthWith(result.length)
       /\ labelStart' = labelStart + result.length + 1
       /\ labelLimit' = labelStart + result.length + 1
       /\ pc' = IF U_FAILURE(result.code) THEN "verdict" ELSE pc
  /\ UNCHANGED <<call, asciiEnd, asciiStart, prefix, behind, doMapDevChars, isTransDiff>>

(* The last label may be empty behind a dot.  When the text has become     *)
(* shorter than labelLimit, the label goes on behind its end; what changes *)
(* the label in place leaves the length of the text alone.                 *)
LastLabel ==
  LET label  == Drop(text, labelStart) \o behind
  IN  /\ pc = "unicode" /\ labelLimit >= destLength
      /\ labelStart = 0 \/ labelStart < labelLimit
      /\ \E result \in {ProcessLabel(label, labelErrors)} :
           LET all == SubSeq(text, 1, labelStart) \o result.label
           IN  /\ TakeResult(result)
               /\ text' = IF /\ behind # <<>> /\ Len(all) > destLength
                             /\ IsACE(result.label) <=> IsACE(label)
                          THEN SubSeq(all, 1, destLength) ELSE all
      /\ pc' = "verdict"
      /\ UNCHANGED <<call, asciiEnd, asciiStart, prefix, behind, indexes, isTransDiff>>

NoLastLabel ==
  /\ pc = "unicode" /\ labelLimit >= destLength
  /\ labelStart > 0 /\ labelStart >= labelLimit
  /\ pc' = "verdict"
  /\ UNCHANGED <<call, asciiEnd, asciiStart, prefix, buffer, indexes, errors, labelErrors,
                 isTransDiff, bidi, errorCode>>

-----------------------------------------------------------------------------
(* The verdicts on the whole name.  The BiDi rule has not been applied to  *)
(* the labels of the ASCII prefix.                                         *)
Result == prefix \o text

FailsBiDi ==
  LET before == IF call.utf8 THEN call.src ELSE text
  IN  /\ isBiDi /\ U_SUCCESS(errorCode) /\ errors \cap SevereErrors = {}
      /\ \/ ~isOkBiDi
         \/ /\ asciiStart > 0
            /\ ~IsASCIIOkBiDi(SubSeq(before, 1, asciiStart), call.utf8)

NameIsTooLong ==
  /\ call.toASCII /\ ~call.isLabel
  /\ Len(Result) >= MaxNameLength
  /\ \A x \in DOMAIN text : IsASCII(text[x])
  /\ Len(Result) > MaxNameLength \/ Result[MaxNameLength] # Dot

Verdict ==
  /\ pc = "verdict"
  /\ errors' = errors \cup Flags(FailsBiDi, "BIDI")
                  \cup Flags(NameIsTooLong, "DOMAIN_NAME_TOO_LONG")
  /\ pc' = "done"
  /\ UNCHANGED <<call, asciiEnd, asciiStart, prefix, buffer, indexes, labelErrors,
                 isTransDiff, bidi, errorCode>>
Init ==
  /\ pc = "ready" /\ call = NoCall
  /\ asciiEnd = 0 /\ asciiStart = 0 /\ prefix = <<>> /\ text = <<>>
  /\ behind = <<>>
  /\ destLength = 0 /\ labelStart = 0 /\ labelLimit = 0 /\ doMapDevChars = FALSE
  /\ errors = {} /\ labelErrors = {} /\ isTransDiff = FALSE
  /\ isBiDi = FALSE /\ isOkBiDi = TRUE
  /\ errorCode = U_ZERO_ERROR

Step ==
  \/ AsciiCopy \/ AsciiDot \/ AsciiFinish \/ LeaveAscii
  \/ ScanPass \/ ScanUnpaired \/ MapDevChars \/ EndLabel
  \/ LastLabel \/ NoLastLabel \/ Verdict

-----------------------------------------------------------------------------
ErrorNames == SevereErrors \cup
  {"EMPTY_LABEL", "LABEL_TOO_LONG", "DOMAIN_NAME_TOO_LONG", "LEADING_HYPHEN",
   "TRAILING_HYPHEN", "HYPHEN_3_4", "BIDI", "CONTEXTJ", "CONTEXTO_PUNCTUATION",
   "CONTEXTO_DIGITS"}

(* Type invariant: the loop over the ASCII prefix stays inside the source, *)
(* and only errors that the header names are set.                          *)
NameTypeOK ==
  /\ pc \in {"ready", "ascii", "unicode", "verdict", "done"}
  /\ asciiEnd \in 0 .. Len(call.src) /\ asciiStart \in 0 .. asciiEnd
  /\ {prefix, text, behind} \subseteq Seq(Nat)
  /\ destLength \in Nat /\ labelStart \in Nat /\ labelLimit \in Nat
  /\ errors \subseteq ErrorNames /\ labelErrors \subseteq ErrorNames
  /\ {doMapDevChars, isTransDiff, isBiDi, isOkBiDi} \subseteq BOOLEAN
  /\ errorCode \in Int

(* processUnicode() keeps the length of the text and the limits of the     *)
(* label by arithmetic on what processLabel() returns, which each of its   *)
(* six ways out computes on its own.  They stay those of the text.         *)
LengthIsKept ==
  pc = "unicode" =>
    /\ destLength = Len(text)
    /\ labelStart <= labelLimit
    /\ labelStart > 0 => text[labelStart] = Dot
=============================================================================
