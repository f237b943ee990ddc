------------------------------- MODULE Lookup -------------------------------
(***************************************************************************)
(* A call of a libidn2 function (u_idn2.cc) or of one of the sixteen C     *)
(* functions of u_uts46.cc, down to the bytes or units of the result: the  *)
(* loop over ASCII and the conversions of UTS46::processUTF8(), the byte   *)
(* sink, toUTF8() with its two attempts, the string that begins on the     *)
(* caller's array in UTF-16, the termination of the result and the buffer  *)
(* that is handed over.  Any allocation may fail.  The conversions are the *)
(* steps of UTF8Conversion.  processUnicode() is UTS46's: here it makes of *)
(* a text what Mapped() says and reports what it likes, or fails.          *)
(***************************************************************************)
EXTENDS UTF8Conversion

CONSTANTS
  Calls,            (* function, options and arguments, see CallOK()       *)
  Mapped(_, _),     (* Mapped(text, call): what processUnicode() makes of  *)
                    (* a text                                              *)
  MaxLabelLength,   (* 63 in processUTF8()                                 *)
  MaxNameLength,    (* 254 in processUTF8()                                *)
  StackSize,        (* US_STACKBUF_SIZE                                    *)
  AsciiLimit,       (* the size of stackArray in processUTF8()             *)
  ScratchSize,      (* the size of stackBuffer in toUTF8()                 *)
  LookupCapacity,   (* 512 in idn2_lookup_u8() and idn2_lookup_ul()        *)
  UnicodeCapacity,  (* 2048 in idn2_to_unicode_8z8z()                      *)
  None

ASSUME SizesAssumption ==
  /\ StackSize \in Nat /\ AsciiLimit \in Nat /\ ScratchSize \in Nat \ {0}
  /\ LookupCapacity \in Nat /\ UnicodeCapacity \in Nat
  /\ MaxLabelLength \in Nat /\ MaxNameLength \in Nat

(* The sixteen functions: those that take an instance, and those that take *)
(* options, make an instance and set the error code themselves.            *)
InstanceFunctions ==
  [isLabel : BOOLEAN, toASCII : BOOLEAN, utf8 : BOOLEAN, opens : {FALSE}]
OptionFunctions ==
  [isLabel : BOOLEAN, toASCII : BOOLEAN, utf8 : BOOLEAN, opens : {TRUE}]

(* length is -1 for a src with a NUL; dest is the array, NULL, or src      *)
(* itself; given says that lookupname is not NULL.                         *)
CallOK(c) ==
  /\ c.function \in InstanceFunctions \cup OptionFunctions
  /\ c.fn \in {"idn2_lookup", "idn2_to_unicode_8z8z", "uidna"}
  /\ c.fn # "uidna" => /\ c.function.utf8 /\ c.function.opens /\ ~c.function.isLabel
                       /\ c.function.toASCII <=> c.fn = "idn2_lookup"
                       /\ c.length = -1 /\ c.dest = "array" /\ c.error = U_ZERO_ERROR
  /\ c.dest \in {"array", "null", "src"}

ASSUME CallsAssumption == \A c \in Calls : CallOK(c)

VARIABLES
  call, pc,
  ascii,      (* destArray: the processed ASCII prefix                     *)
  labelStart, (* where its last label starts                               *)
  text,       (* destString in UTF-16, or None for a bogus one             *)
  sink,       (* [bytes, appended]; in UTF-16 what the array holds, and    *)
              (* the length of the result                                  *)
  inPlace,    (* destString still stands on the caller's array             *)
  error,
  errors,     (* info.errors with the errors of the label that has begun;  *)
              (* "other" is every UIDNA_ERROR_* but EMPTY_LABEL            *)
  lost,       (* toUTF8() kept a failure to itself                         *)
  out         (* [buf, lookupname, rc, freed]: the caller's side           *)

vars == <<conv, call, pc, ascii, labelStart, text, sink, inPlace, error, errors, lost, out>>

Hyphen == 45
Dot    == 46
IsAscii(b)  == b < 128
IsUpper(b)  == b \in 65 .. 90
IsLdhDot(b) == b \in {Hyphen, Dot} \cup (48 .. 57) \cup (65 .. 90) \cup (97 .. 122)
Lower(b)    == IF IsUpper(b) THEN b + 32 ELSE b

IsIdn2 == call.fn # "uidna"

Capacity ==
  CASE call.fn = "idn2_lookup"          -> LookupCapacity
    [] call.fn = "idn2_to_unicode_8z8z" -> UnicodeCapacity
    [] OTHER                            -> call.capacity

(* The text: up to its NUL, or of the given length, or none for NULL.      *)
Src ==
  LET s    == call.src
      nuls == {x \in DOMAIN s : s[x] = 0}
  IN  IF s = None THEN <<>>
      ELSE IF call.length >= 0 THEN SubSeq(s, 1, call.length)
      ELSE IF nuls = {} THEN s
      ELSE SubSeq(s, 1, Min(nuls) - 1)

(* idn2_to_unicode_8z8z() computes options from its flags and passes 0.    *)
UseStd3 == call.fn # "idn2_to_unicode_8z8z" /\ call.std3

Init ==
  /\ call \in Calls
  /\ pc = "called" /\ conv = Idle
  /\ ascii = <<>> /\ labelStart = 0 /\ text = <<>>
  /\ sink = [bytes |-> <<>>, appended |-> 0] /\ inPlace = FALSE
  /\ error = call.error /\ errors = {} /\ lost = FALSE
  /\ out = [buf |-> "none", lookupname |-> "unset", rc |-> None, freed |-> FALSE]

-----------------------------------------------------------------------------
(* The sink.                                                               *)
Available == Capacity - Len(sink.bytes)

(* Mutant: a piece that does not fit is not counted either.                *)
AppendWhatFits(s, bytes) ==
  LET n == Min({Capacity - Len(s.bytes), Len(bytes)})
  IN  [bytes |-> s.bytes \o SubSeq(bytes, 1, n), appended |-> s.appended + n]

Append8(s, bytes) ==
  [bytes    |-> s.bytes \o SubSeq(bytes, 1, Min({Capacity - Len(s.bytes), Len(bytes)})),
   appended |-> s.appended + Len(bytes)]

(* GetAppendBuffer(): room in the caller's array, or the scratch array.    *)
AppendCapacity(min) == IF Available >= min THEN Available ELSE ScratchSize

(* setToUTF8(): the array for n bytes is in the object, or is allocated    *)
(* with a NUL and a counter and rounded up to 16 bytes; if that fails the  *)
(* string is bogus and has no array.                                       *)
UTF16Capacities(n) ==
  IF n <= StackSize THEN {StackSize}
  ELSE {(16 * ((2 * (n + 2) + 19) \div 16) - 4) \div 2, 0}

FromUTF8(bytes) ==
  \E capacity \in UTF16Capacities(Len(bytes)) : conv' = Begins("from", bytes, capacity)

Result16 == IF U_FAILURE(conv.status) THEN None ELSE conv.dest

Rest == SubSeq(Src, labelStart + 1, Len(Src))

-----------------------------------------------------------------------------
(* A NULL name for idn2_lookup_*(); NULL of length 0 is the empty name for *)
(* the others.                                                             *)
CallWithNull ==
  /\ pc = "called" /\ IsIdn2 /\ call.src = None
  /\ out' = [out EXCEPT !.lookupname = IF call.given THEN "null" ELSE @, !.rc = U_ZERO_ERROR]
  /\ pc' = "answered"
  /\ UNCHANGED <<conv, call, ascii, labelStart, text, sink, inPlace, error, errors, lost>>

(* The functions that take options forget the error they are given.        *)
Enter ==
  /\ pc = "called" /\ ~(IsIdn2 /\ call.src = None)
  /\ error' = IF call.function.opens THEN U_ZERO_ERROR ELSE error
  /\ out' = [out EXCEPT !.buf = IF IsIdn2 THEN "live" ELSE @]
  /\ pc' = "entered"
  /\ UNCHANGED <<conv, call, ascii, labelStart, text, sink, inPlace, errors, lost>>

checkArgs ==
  /\ IF call.src = None THEN call.length = 0 ELSE call.length >= -1
  /\ IF call.dest = "null" THEN Capacity = 0 ELSE Capacity >= 0
  /\ call.dest # "src"

Refuse ==
  /\ pc = "entered" /\ (U_FAILURE(error) \/ ~checkArgs)
  /\ error' = IF U_FAILURE(error) THEN error ELSE U_ILLEGAL_ARGUMENT_ERROR
  /\ pc' = "returned"
  /\ UNCHANGED <<conv, call, ascii, labelStart, text, sink, inPlace, errors, lost, out>>

Accepted == pc = "entered" /\ U_SUCCESS(error) /\ checkArgs

CallProcess ==
  /\ Accepted /\ call.function.utf8
  /\ IF Src = <<>>
     THEN pc' = "terminate" /\ errors' = {"EMPTY_LABEL"} /\ conv' = conv
     ELSE /\ errors' = errors
          /\ IF Len(Src) <= AsciiLimit
             THEN pc' = "ascii" /\ conv' = conv
             ELSE pc' = "rest" /\ FromUTF8(Src)
  /\ UNCHANGED <<call, ascii, labelStart, text, sink, inPlace, error, lost, out>>

-----------------------------------------------------------------------------
(* The loop over ASCII, one byte a step.                                   *)
LeavesLoop(b) ==
  \/ ~IsAscii(b)
  \/ UseStd3 /\ ~IsLdhDot(b)
  \/ b = Hyphen /\ Len(ascii) = labelStart + 3 /\ Src[Len(ascii)] = Hyphen
  \/ b = Dot /\ call.function.isLabel

LabelLength == Len(ascii) - labelStart

If(holds, kind) == IF holds THEN {kind} ELSE {}

(* A hyphen at either end of its label, a label that is empty or too long. *)
HyphenErrors ==
  If(\/ LabelLength = 0
     \/ Len(ascii) + 1 = Len(Src)
     \/ Src[Len(ascii) + 2] = Dot, "other")

DotErrors ==
  If(LabelLength = 0, "EMPTY_LABEL")
    \cup If(call.function.toASCII /\ LabelLength > MaxLabelLength, "other")

AsciiByte ==
  /\ pc = "ascii" /\ Len(ascii) < Len(Src)
  /\ LET b == Src[Len(ascii) + 1]
     IN  /\ ~LeavesLoop(b)
         /\ ascii' = Append(ascii, Lower(b))
         /\ labelStart' = IF b = Dot THEN Len(ascii) + 1 ELSE labelStart
         /\ errors' = errors \cup CASE b = Hyphen -> HyphenErrors
                                    [] b = Dot    -> DotErrors
                                    [] OTHER      -> {}
  /\ UNCHANGED <<conv, call, pc, text, sink, inPlace, error, lost, out>>

(* A name of MaxNameLength bytes is not too long when a dot ends it.       *)
TooLong ==
  /\ call.function.toASCII
  /\ \/ LabelLength > MaxLabelLength
     \/ /\ ~call.function.isLabel
        /\ Len(ascii) >= MaxNameLength
        /\ Len(ascii) > MaxNameLength \/ LabelLength > 0

AsciiEnd ==
  /\ pc = "ascii" /\ Len(ascii) = Len(Src)
  /\ sink' = Append8(sink, ascii)
  /\ errors' = errors \cup If(TooLong, "other")
  /\ pc' = "terminate"
  /\ UNCHANGED <<conv, call, ascii, labelStart, inPlace, text, error, lost, out>>

AsciiBreak ==
  /\ pc = "ascii" /\ Len(ascii) < Len(Src)
  /\ LeavesLoop(Src[Len(ascii) + 1])
  /\ FromUTF8(SubSeq(ascii, labelStart + 1, Len(ascii)))
  /\ pc' = "prefix"
  /\ UNCHANGED <<call, ascii, labelStart, text, sink, inPlace, error, errors, lost, out>>

DoneLabels == SubSeq(ascii, 1, labelStart)

PrefixConverted ==
  /\ pc = "prefix" /\ conv.pc = "returned"
  /\ text' = Result16
  /\ sink' = Append8(sink, DoneLabels)
  /\ FromUTF8(Rest)
  /\ pc' = "rest"
  /\ UNCHANGED <<call, ascii, labelStart, inPlace, error, errors, lost, out>>

(* What processUnicode() makes of a text, and what it may report then.     *)
MappedText(s) == Mapped(s, call)

MayReport(before) == {before \cup more : more \in SUBSET {"EMPTY_LABEL", "other"}}

Fails(code, left) ==
  error' = code /\ text' = left /\ UNCHANGED errors

(* The prefix is in the result, and the source is mapped behind it.        *)
Process ==
  /\ pc = "rest" /\ conv.pc = "returned"
  /\ LET mappingStart == LabelLength
     IN  \/ Result16 = None
            /\ Fails(U_ILLEGAL_ARGUMENT_ERROR, IF mappingStart = 0 THEN None ELSE text)
         \/ Result16 # None /\ text = None
            /\ Fails(U_MEMORY_ALLOCATION_ERROR, None)
         \/ Result16 # None /\ text # None
            /\ \E left \in {None, text} : Fails(U_MEMORY_ALLOCATION_ERROR, left)
         \/ Result16 # None /\ text # None
            /\ \E rest \in {SubSeq(Result16, mappingStart + 1, Len(Result16))} :
                 text' = MappedText(text \o rest)
            /\ errors' \in MayReport(errors)
            /\ error' = error
  /\ pc' = "sink" /\ conv' = Idle
  /\ UNCHANGED <<call, ascii, labelStart, inPlace, sink, lost, out>>

-----------------------------------------------------------------------------
(* In UTF-16 the result is a string whose first array is the caller's; it  *)
(* has another one as soon as more is needed, if only for a while.         *)
Process16 ==
  /\ Accepted /\ ~call.function.utf8
  /\ \/ /\ text' = MappedText(Src)
        /\ inPlace' \in {FALSE, call.dest = "array" /\ Max({Len(Src), Len(text')}) <= Capacity}
        /\ errors' \in IF Src = <<>> THEN {{"EMPTY_LABEL"}} ELSE MayReport({})
        /\ error' = error
     \/ Src # <<>> /\ inPlace' = FALSE /\ Fails(U_MEMORY_ALLOCATION_ERROR, None)
  /\ sink' = IF inPlace' THEN [sink EXCEPT !.bytes = text'] ELSE sink
  /\ pc' = "extract"
  /\ UNCHANGED <<conv, call, ascii, labelStart, lost, out>>

(* extract(): what fits is copied unless it is there, what does not is not *)
(* even in part; a bogus string has length 0.                              *)
Extract ==
  /\ pc = "extract"
  /\ LET length == IF text = None THEN 0 ELSE Len(text)
         copied == U_SUCCESS(error) /\ text # None /\ length <= Capacity /\ ~inPlace
     IN  /\ sink' = [bytes |-> IF copied THEN text ELSE sink.bytes, appended |-> length]
         /\ error' = IF U_FAILURE(error) THEN error
                     ELSE IF text = None THEN U_ILLEGAL_ARGUMENT_ERROR
                     ELSE TerminateStatus(Capacity, length, error)
  /\ pc' = "returned"
  /\ UNCHANGED <<conv, call, ascii, labelStart, text, inPlace, errors, lost, out>>

-----------------------------------------------------------------------------
(* toUTF8()                                                                *)
NothingToAppend ==
  /\ pc = "sink" /\ text \in {None, <<>>}
  /\ pc' = "terminate"
  /\ UNCHANGED <<conv, call, ascii, labelStart, text, sink, inPlace, error, errors, lost, out>>

GetAppendBuffer ==
  /\ pc = "sink" /\ text \notin {None, <<>>}
  /\ conv' = Begins("to", text, AppendCapacity(Min({Len(text), ScratchSize})))
  /\ pc' = "first"
  /\ UNCHANGED <<call, ascii, labelStart, text, sink, inPlace, error, errors, lost, out>>

AppendConverted ==
  /\ pc \in {"first", "second"} /\ conv.pc = "returned" /\ U_SUCCESS(conv.status)
  /\ sink' = Append8(sink, conv.dest)
  /\ pc' = "terminate" /\ conv' = Idle
  /\ UNCHANGED <<call, ascii, labelStart, inPlace, text, error, errors, lost, out>>

(* Too small: an array of exactly the length, without room for a NUL.      *)
ConvertAgain ==
  /\ pc = "first" /\ conv.pc = "returned" /\ conv.status = U_BUFFER_OVERFLOW_ERROR
  /\ conv' = Begins("to", text, conv.reqLength) /\ pc' = "second"
  /\ UNCHANGED <<call, ascii, labelStart, text, sink, inPlace, error, errors, lost, out>>

(* The error of the failed malloc() is toUTF8()'s own; nobody sees it.     *)
LoseText ==
  /\ pc = "first" /\ conv.pc = "returned" /\ conv.status = U_BUFFER_OVERFLOW_ERROR
  /\ lost' = TRUE /\ pc' = "terminate" /\ conv' = Idle
  /\ UNCHANGED <<call, ascii, labelStart, inPlace, text, sink, error, errors, out>>

Terminate ==
  /\ pc = "terminate"
  /\ error' = TerminateStatus(Capacity, sink.appended, error)
  /\ pc' = "returned"
  /\ UNCHANGED <<conv, call, ascii, labelStart, inPlace, text, sink, errors, lost, out>>

-----------------------------------------------------------------------------
IsGood == error = U_ZERO_ERROR /\ errors \subseteq {"EMPTY_LABEL"}

ErrorToIdn2(code) == IF code >= 0 THEN U_ZERO_ERROR ELSE -code

HandOver ==
  /\ pc = "returned" /\ IsIdn2 /\ IsGood
  /\ out' = [out EXCEPT !.rc = U_ZERO_ERROR,
                        !.lookupname = IF call.given THEN "buf" ELSE @,
                        !.buf = IF call.given THEN @ ELSE "deleted"]
  /\ pc' = "answered"
  /\ UNCHANGED <<conv, call, ascii, labelStart, text, sink, inPlace, error, errors, lost>>

(* An error deletes the buffer, the name's errors do not.                  *)
GiveUp ==
  /\ pc = "returned" /\ IsIdn2 /\ ~IsGood
  /\ out' = IF error = U_ZERO_ERROR THEN [out EXCEPT !.rc = -1]
            ELSE [out EXCEPT !.rc = ErrorToIdn2(error), !.buf = "deleted"]
  /\ pc' = "answered"
  /\ UNCHANGED <<conv, call, ascii, labelStart, text, sink, inPlace, error, errors, lost>>

(* The caller: if (rc == IDN2_OK) idn2_free(out).                          *)
CallerFrees ==
  /\ pc = "answered" /\ pc' = "done"
  /\ out' = IF out.rc = U_ZERO_ERROR /\ call.given
            THEN [out EXCEPT !.freed = TRUE,
                             !.buf = IF out.lookupname = "buf" THEN "deleted" ELSE @]
            ELSE out
  /\ UNCHANGED <<conv, call, ascii, labelStart, text, sink, inPlace, error, errors, lost>>

Done ==
  /\ pc = "done" \/ (pc = "returned" /\ ~IsIdn2)
  /\ UNCHANGED vars

ConvertStep ==
  /\ conv.pc # "returned" /\ Convert
  /\ UNCHANGED <<call, pc, ascii, labelStart, text, sink, inPlace, error, errors, lost, out>>

Next ==
  \/ CallWithNull \/ Enter \/ Refuse \/ CallProcess \/ Process16 \/ Extract
  \/ AsciiByte \/ AsciiEnd \/ AsciiBreak \/ PrefixConverted \/ Process
  \/ NothingToAppend \/ GetAppendBuffer \/ AppendConverted \/ ConvertAgain \/ LoseText
  \/ Terminate \/ HandOver \/ GiveUp \/ CallerFrees \/ ConvertStep \/ Done

Spec == Init /\ [][Next]_vars /\ WF_vars(Next)

-----------------------------------------------------------------------------
(* The name that the call is about: in UTF-8 what the text is mapped to in *)
(* which every ill-formed sequence is U+FFFD.                              *)
WholeName ==
  IF call.function.utf8 THEN EncodedText(MappedText(DecodedText(Src)))
  ELSE MappedText(Src)

WasAccepted ==
  /\ out.lookupname # "null" /\ checkArgs
  /\ call.function.opens \/ U_SUCCESS(call.error)

IsOver == pc = "done" \/ (pc = "returned" /\ ~IsIdn2)

(* A call that was accepted and reports no failure but a result that is    *)
(* too long has put the whole name into the array, or in UTF-8 what fits   *)
(* of it, and returns the length that a second call needs, whether the     *)
(* loop over ASCII, the prefix, the scratch array or the second attempt of *)
(* toUTF8() took part, or the string in UTF-16 has left the array; what    *)
(* idn2_*() hand over is whole and has its NUL.  A failed malloc() in      *)
(* toUTF8() is the exception: nobody is told of it.                        *)
ResultIsWhole ==
  IsOver /\ WasAccepted /\ ~lost
    /\ error \in {U_ZERO_ERROR, U_STRING_NOT_TERMINATED_WARNING, U_BUFFER_OVERFLOW_ERROR} =>
    /\ sink.appended = Len(WholeName)
    /\ call.function.utf8 \/ Len(WholeName) <= Capacity =>
         sink.bytes = SubSeq(WholeName, 1, Min({Capacity, Len(WholeName)}))
    /\ error = TerminateStatus(Capacity, Len(WholeName), U_ZERO_ERROR)
    /\ out.lookupname = "buf" => Len(WholeName) < Capacity

(* Every call comes to its end: the conversion puts a character back and   *)
(* counts its rounds again only when it has moved on in between.           *)
EveryLookupReturns == <>IsOver

-----------------------------------------------------------------------------
(* What the loop over ASCII takes for granted of the mapping.  It takes a  *)
(* label l of ASCII characters, all of them letters, digits and hyphens if *)
(* STD3 is asked for, that has no hyphens in the third and fourth place.   *)
TakesLabel(l, c) ==
  /\ \A x \in DOMAIN l : /\ IsAscii(l[x]) /\ l[x] # Dot
                         /\ c.fn # "idn2_to_unicode_8z8z" /\ c.std3 => IsLdhDot(l[x])
  /\ ~(Len(l) > 3 /\ l[3] = Hyphen /\ l[4] = Hyphen)

LowerText(l) == [x \in DOMAIN l |-> Lower(l[x])]

(* Such a label becomes lower case and nothing else if it is the whole     *)
(* name, or if a dot ends it: then what follows is mapped as if it stood   *)
(* alone.  If more of the label follows, the loop may put it into lower    *)
(* case before the mapping does.                                           *)
KeepsLabels(l, s, c) ==
  TakesLabel(l, c) =>
    /\ Mapped(l, c) = LowerText(l)
    /\ c.function.isLabel \/
         Mapped(l \o (<<Dot>> \o s), c) = LowerText(l) \o (<<Dot>> \o Mapped(s, c))
    /\ Mapped(l \o s, c) = Mapped(LowerText(l) \o s, c)

-----------------------------------------------------------------------------
(* tests/idn2/test-lookup.c frees the result exactly when the code is      *)
(* IDN2_OK: then the function has stored a pointer for it to free.         *)
CallerFreesWhatItGot == out.freed => out.lookupname # "unset"

(* The caller of tests/idn2/test-lookup.c frees nothing when it gets       *)
(* another code, so no buffer is left behind when it has done its part.    *)
NoBufferIsLeft == pc = "done" => out.buf # "live"
=============================================================================
