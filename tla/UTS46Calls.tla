----------------------------- MODULE UTS46Calls -----------------------------
(***************************************************************************)
(* What the conversions promise their callers: the result that UTS #46     *)
(* defines for the name as a whole, and results that a second conversion   *)
(* confirms.  A behaviour is a call and a second one on its result, in the *)
(* same direction or back to Unicode.                                      *)
(***************************************************************************)
EXTENDS UTS46

CONSTANT Inputs  (* the calls a behaviour begins with                      *)

VARIABLE first   (* the first call and its result                          *)

NoResult == [call |-> NoCall, text |-> <<>>, errors |-> {}]

CallsInit == Init /\ first = NoResult

FirstCall ==
  /\ pc = "ready"
  /\ \E c \in Inputs : Call(c)
  /\ UNCHANGED first

(* The result is well-formed, so that it may be given in UTF-8, too.       *)
SecondCall(toASCII) ==
  /\ pc = "done" /\ first = NoResult /\ U_SUCCESS(errorCode)
  /\ first' = [call |-> call, text |-> Result, errors |-> errors]
  /\ Call([call EXCEPT !.src = Result, !.toASCII = toASCII])

(* The same name in the other encoding.                                    *)
CallInUTF8 ==
  /\ pc = "done" /\ first = NoResult /\ ~call.utf8 /\ IsWellFormed(call.src)
  /\ first' = [call |-> call, text |-> Result, errors |-> errors]
  /\ Call([call EXCEPT !.utf8 = TRUE])

NameStep == Step /\ UNCHANGED first

(* Nothing else may stop: a call that cannot go on is a deadlock.          *)
Returned == pc = "done" /\ UNCHANGED <<vars, first>>

CallsNext ==
  \/ FirstCall
  \/ SecondCall(call.toASCII)
  \/ call.toASCII /\ SecondCall(FALSE)
  \/ CallInUTF8
  \/ NameStep
  \/ Returned

(* The conversion is a synchronous call: one that has begun is carried on. *)
(* This is weak fairness of NameStep, which is enabled during a call.      *)
InCall == pc \in {"ascii", "unicode", "verdict"}

Fairness == []<>~InCall \/ []<><<NameStep>>_<<vars, first>>

CallsSpec == CallsInit /\ [][CallsNext]_<<vars, first>> /\ Fairness

-----------------------------------------------------------------------------
(* UTS #46 on a whole name.  An unpaired surrogate is U+FFFD.              *)
WithoutUnpaired(s) ==
  [x \in DOMAIN s |->
     IF IsSurrogate(s[x]) /\ ~StartsPair(s, x - 1) /\ ~(x > 1 /\ StartsPair(s, x - 2))
     THEN Replacement ELSE s[x]]

Mapped(s, c) ==
  LET mapped == Normalize(s)
  IN  IF MapsDeviations(c) /\ \E x \in DOMAIN mapped : IsDeviation(mapped[x])
      THEN Normalize(MappedDeviations(mapped)) ELSE mapped

MappedName(c) == Mapped(WithoutUnpaired(c.src), c)

(* The labels of a text, which a dot separates.                            *)
Labels(s) ==
  LET at == SelectSeq([x \in 1 .. Len(s) |-> x], LAMBDA x : s[x] = Dot)
      start(m) == IF m = 1 THEN 1 ELSE at[m - 1] + 1
      end(m)   == IF m > Len(at) THEN Len(s) ELSE at[m] - 1
  IN  [m \in 1 .. Len(at) + 1 |-> SubSeq(s, start(m), end(m))]

Join(labels) ==
  Drop(FlattenSeq([m \in DOMAIN labels |-> <<Dot>> \o labels[m]]), 1)

(* What a label stands for when it is checked.                             *)
LabelText(label) ==
  LET decoded == Decoded(Drop(label, 4))
  IN  IF IsACE(label) /\ decoded.ok THEN decoded.text ELSE label

(* A name from its labels and what each of them becomes.                   *)
NameOf(labels, results) ==
  Join([m \in DOMAIN labels |->
          IF labels[m] = <<>> THEN <<>> ELSE results[m].label])

(* The last label is not looked at when it is empty behind a dot.          *)
ErrorsIn(labels, results) ==
  UNION {results[m].errors :
           m \in {x \in DOMAIN labels :
                    x = 1 \/ x < Len(labels) \/ labels[x] # <<>>}}

(* Every label obeys the BiDi rule when one of them has such a character.  *)
BreaksBiDiRule(texts) ==
  (\E t \in texts : HasRTL(t)) /\ (\E t \in texts : ~PassesBiDiRule(t))

TooLongName(name) ==
  /\ \A x \in DOMAIN name : IsASCII(name[x])
  /\ Len(name) >= MaxNameLength
  /\ Len(name) = MaxNameLength => Last(name) # Dot

Concluded(c, name, texts, errs) ==
  [text   |-> name,
   errors |-> errs
     \cup Flags(/\ "BIDI" \in c.options /\ errs \cap SevereErrors = {}
                /\ BreaksBiDiRule(texts),
                "BIDI")
     \cup Flags(c.toASCII /\ ~c.isLabel /\ TooLongName(name), "DOMAIN_NAME_TOO_LONG")]

ExpectedOf(c, labels, results) ==
  Concluded(c, NameOf(labels, results),
            {CodePoints(LabelText(labels[m])) :
               m \in {x \in DOMAIN labels : labels[x] # <<>>}},
            ErrorsIn(labels, results)
              \cup Flags(~IsWellFormed(c.src), "DISALLOWED"))

ExpectedLabels(c, labels) ==
  ExpectedOf(c, labels, [m \in DOMAIN labels |-> ProcessLabel(labels[m], {})])

Expected(c) ==
  ExpectedLabels(c, IF c.isLabel THEN <<MappedName(c)>> ELSE Labels(MappedName(c)))

-----------------------------------------------------------------------------
(* Where the code departs from the specification of the name as a whole.   *)

(* The label is normalized again when its deviation characters are mapped, *)
(* and labelLimit stays: what is composed across the first of them may     *)
(* leave a dot, or the end of the text, before labelLimit.                 *)
StepsOver(c) ==
  LET mapped == Normalize(c.src)
      at     == {x \in DOMAIN mapped : IsDeviation(mapped[x])}
      dots   == {x \in DOMAIN mapped :
                   mapped[x] = Dot /\ ~c.isLabel /\ \A y \in at : x < y}
      start  == CHOOSE x \in dots \cup {0} : \A y \in dots : y <= x
      limit  == (CHOOSE x \in at : \A y \in at : x <= y) - 1 - start
      again  == Normalize(MappedDeviations(Drop(mapped, start)))
  IN  /\ MapsDeviations(c) /\ at # {}
      /\ \/ Len(again) < limit
         \/ ~c.isLabel /\ \E x \in 1 .. limit : again[x] = Dot

(* The mapping removes what stands between two unpaired surrogates.        *)
JoinsSurrogates(c) ==
  MappedName(c) # WithoutUnpaired(Mapped(c.src, c))

(* In UTF-8 the last label is a string of its own, and an empty one is an  *)
(* error when it was not written as one.                                   *)
LastIsMappedAway == call.utf8 /\ prefix # <<>> /\ text = <<>>

(* The loop over the ASCII prefix takes the dot in a single label for the  *)
(* end of the label.                                                       *)
HyphenBeforeDot(c) ==
  c.isLabel /\ \E x \in 1 .. Len(c.src) - 1 :
                 c.src[x] = Hyphen /\ c.src[x + 1] = Dot

Done == pc = "done" /\ U_SUCCESS(errorCode) /\ ~StepsOver(call) /\ ~JoinsSurrogates(call)

Severe(errs) == errs \cap SevereErrors # {}

-----------------------------------------------------------------------------
(* The two loops, the label that is looked at in place, the length that is *)
(* kept by hand and the verdicts that are spread over the call have the    *)
(* result that UTS #46 defines for the name as a whole.                    *)
AsSpecified ==
  Done =>
    \E expected \in {Expected(call)} :
      LET extra == Flags(LastIsMappedAway, "EMPTY_LABEL")
                     \cup Flags(HyphenBeforeDot(call), "TRAILING_HYPHEN")
      IN  /\ Result = expected.text
          /\ errors \ extra = expected.errors \ extra

(* A label that the loop over the ASCII prefix takes, as it is or in front *)
(* of something else.                                                      *)
TakesLabel(l, c) ==
  /\ \A x \in DOMAIN l : IsASCII(l[x]) /\ l[x] # Dot /\ ("STD3" \in c.options => IsLDHDot(l[x]))
  /\ ~(Len(l) > 3 /\ l[3] = Hyphen /\ l[4] = Hyphen)

LowerText(l) == [x \in DOMAIN l |-> IF IsUpper(l[x]) THEN l[x] + 32 ELSE l[x]]

(* What the conversion makes of an ASCII label at the start of a name is   *)
(* the label in lower case when it is the whole name or a dot ends it, and *)
(* what follows the dot has the result that it has alone; what it makes of *)
(* a longer label is the same when the letters in front are in lower case. *)
(* The loop over the ASCII prefix relies on all three.                     *)
AsciiLabelsAreKept ==
  Done /\ first = NoResult =>
    \A n \in 0 .. Len(call.src) :
      LET l     == SubSeq(call.src, 1, n)
          rest  == Drop(call.src, n)
          of(s) == Expected([call EXCEPT !.src = s]).text
      IN  TakesLabel(l, call) =>
            /\ rest = <<>> => Result = LowerText(l)
            /\ rest # <<>> /\ rest[1] = Dot /\ ~call.isLabel
                 => Result = LowerText(l) \o <<Dot>> \o of(Drop(rest, 1))
            /\ Result = of(LowerText(l) \o rest)

(* The call with transitional processing on, or off.                       *)
Transitional(c, on) ==
  [c EXCEPT !.options =
     (@ \ {"NONTRANSITIONAL_TO_ASCII", "NONTRANSITIONAL_TO_UNICODE"})
       \cup IF on THEN {}
            ELSE {"NONTRANSITIONAL_TO_ASCII", "NONTRANSITIONAL_TO_UNICODE"}]

(* isTransDiff says whether transitional processing makes a difference,    *)
(* although the loop notes only what it meets before it maps.              *)
TransDiffIsTold ==
  Done => isTransDiff = (MappedName(Transitional(call, TRUE))
                           # MappedName(Transitional(call, FALSE)))

(* The second call of a behaviour takes the result of the first.            *)
Repeats == first # NoResult /\ call.src = first.text /\ call.utf8 = first.call.utf8

(* A second conversion of a result.  What was valid is not changed again,  *)
(* and has the same errors; transitional processing maps the deviation     *)
(* characters that an ACE label stands for when it meets them once more.   *)
GoodStaysAsItIs ==
  /\ Done /\ ~StepsOver(first.call) /\ ~JoinsSurrogates(first.call)
  /\ Repeats /\ call.toASCII = first.call.toASCII /\ ~Severe(first.errors)
  /\ MapsDeviations(call) => \A x \in DOMAIN call.src : ~IsDeviation(call.src[x])
  => Result = first.text /\ errors \ {"EMPTY_LABEL"} = first.errors \ {"EMPTY_LABEL"}

(* What was not valid does not look valid: a name with a severe error      *)
(* cannot be mistaken for one that a host may have.                        *)
BadLooksBad ==
  Done /\ Severe(errors) =>
    \E x \in DOMAIN Result : ~IsASCII(Result[x]) \/ ~IsLDHDot(Result[x])

(* Whether a name is valid does not depend on the direction, and back to   *)
(* Unicode, an ASCII name has the result that its source has.              *)
AsciiStandsForUnicode ==
  /\ Done /\ ~StepsOver(first.call) /\ ~JoinsSurrogates(first.call)
  /\ Repeats /\ first.call.toASCII /\ ~call.toASCII /\ ~Severe(first.errors)
  /\ MapsDeviations(call) = MapsDeviations(first.call)
  => \E direct \in {Expected([first.call EXCEPT !.toASCII = FALSE])} :
       /\ Result = direct.text
       /\ errors \ {"EMPTY_LABEL"} = direct.errors \ {"EMPTY_LABEL"}
       /\ first.errors \ {"EMPTY_LABEL", "LABEL_TOO_LONG", "DOMAIN_NAME_TOO_LONG"}
            = direct.errors \ {"EMPTY_LABEL"}

(* The conversion terminates: each of its loops comes to an end, the one   *)
(* that does not advance when it has mapped the deviation characters, too. *)
EveryNameIsProcessed == pc # "ready" ~> pc = "done"

-----------------------------------------------------------------------------
(* What comments, header and tests say, without exception.                 *)

(* uidna.h: a label with a dot comes from a single-label function.         *)
DotsSeparateLabels ==
  pc = "done" /\ ~call.isLabel => "LABEL_HAS_DOT" \notin errors

(* uts46test.cpp compares UTF-8 with UTF-16 processing.                    *)
SameInUTF8 ==
  pc = "done" /\ call.utf8 /\ first # NoResult /\ ~first.call.utf8 =>
    Result = first.text /\ errors = first.errors

(* u_uts46.cc: unpaired surrogates are mapped before they become a pair.   *)
UnpairedIsDisallowed ==
  pc = "done" /\ ~IsWellFormed(call.src) => "DISALLOWED" \in errors

-----------------------------------------------------------------------------
(* What the code takes for granted of the functions it calls: they return  *)
(* UTF-16 code units, a decoder that succeeds does not return nothing, and *)
(* the normalizer leaves labels in lower-case ASCII that a dot ends where  *)
(* they are, whatever follows them.                                        *)
CodeUnit == 0 .. FirstSupplementary - 1

ReturnsTexts(s) ==
  /\ {Normalize(s), MappedDeviations(s), EncodeText(s)} \subseteq Seq(CodeUnit)
  /\ Decoded(s).ok => /\ Decoded(s).text \in Seq(CodeUnit)
                      /\ s # <<>> => Decoded(s).text # <<>>

AreLabels(s) ==
  /\ s # <<>> /\ s[Len(s)] = Dot
  /\ \A x \in 1 .. Len(s) : IsASCII(s[x]) /\ ~IsUpper(s[x])

LeavesLabels(s, t) ==
  AreLabels(s) => /\ Len(Normalize(s \o t)) >= Len(s)
                  /\ Normalize(s \o t)[Len(s)] = Dot
=============================================================================
