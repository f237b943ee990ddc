-------------------------- MODULE PunycodeDecoder ---------------------------
(***************************************************************************)
(* u_strFromPunycode() as a state machine: one action per iteration of its *)
(* loops.  src is a string of ASCII codes; any larger number is a          *)
(* character that is not basic.  Callers pass the length of src and no     *)
(* case flags.                                                             *)
(***************************************************************************)
EXTENDS Punycode

VARIABLES
  pc,          (* "ready", "next" (head of the main loop), "digit",        *)
               (* "insert" or "done"                                       *)
  src, capacity,
  dest,        (* the UTF-16 units stored in the output buffer             *)
  destLength,  (* the UTF-16 length the output needs                       *)
  destCPCount, (* the code points of the output                            *)
  n, i, bias,
  in,          (* the index of the next character to read                  *)
  oldi, w, k,  (* the integer being read: start value, weight, position    *)
  firstSupplementaryIndex,
  status

vars == <<pc, src, capacity, dest, destLength, destCPCount, n, i, bias, in,
          oldi, w, k, firstSupplementaryIndex, status>>

(* The initial firstSupplementaryIndex: beyond every index.                *)
NoSupplementary == 1000000000

Init ==
  /\ pc = "ready"
  /\ src = <<>> /\ capacity = 0
  /\ dest = <<>> /\ destLength = 0 /\ destCPCount = 0
  /\ n = 0 /\ i = 0 /\ bias = 0 /\ in = 0 /\ oldi = 0 /\ w = 0 /\ k = 0
  /\ firstSupplementaryIndex = 0
  /\ status = U_ZERO_ERROR

Return(code, length) ==
  /\ pc' = "done"
  /\ status' = code
  /\ destLength' = length

Fail(code) == Return(code, 0)

(* Mutant: the first delimiter ends the basic characters.                  *)
FirstDelimiter(s) ==
  LET at == {x \in 0 .. Len(s) - 1 : s[x + 1] = Delimiter}
  IN  IF at = {} THEN 0 ELSE CHOOSE x \in at : \A y \in at : y >= x

(* The index of the last delimiter, or 0 if there is none.                 *)
LastDelimiter(s) ==
  LET at == {x \in 0 .. Len(s) - 1 : s[x + 1] = Delimiter}
  IN  IF at = {} THEN 0 ELSE CHOOSE x \in at : \A y \in at : y <= x

(* The call: checks the length, copies what precedes the last delimiter    *)
(* and starts behind it.                                                   *)
Call(s, c) ==
  LET basicLength == LastDelimiter(s)
      basic       == SubSeq(s, 1, basicLength)
  IN  /\ pc \in {"ready", "done"}
      /\ src' = s /\ capacity' = c
      /\ dest' = Store(<<>>, c, basic)
      /\ destCPCount' = basicLength
      /\ n' = InitialN /\ i' = 0 /\ bias' = InitialBias
      /\ firstSupplementaryIndex' = NoSupplementary
      /\ in' = IF basicLength > 0 THEN basicLength + 1 ELSE 0
      /\ IF Len(s) > DecodeMaxChars THEN Fail(U_INPUT_TOO_LONG_ERROR)
         ELSE IF \E x \in DOMAIN basic : ~IsBasic(basic[x])
              THEN Fail(U_INVALID_CHAR_FOUND)
         ELSE pc' = "next" /\ status' = U_ZERO_ERROR /\ destLength' = basicLength
      /\ UNCHANGED <<oldi, w, k>>

BeginInteger ==
  /\ pc = "next" /\ in < Len(src)
  /\ oldi' = i /\ w' = 1 /\ k' = Base
  /\ pc' = "digit"
  /\ UNCHANGED <<src, capacity, dest, destLength, destCPCount, n, i, bias, in,
                 firstSupplementaryIndex, status>>

(* The input ends inside an integer.                                       *)
RejectTruncated ==
  /\ pc = "digit" /\ in >= Len(src)
  /\ Fail(U_ILLEGAL_CHAR_FOUND)
  /\ UNCHANGED <<src, capacity, dest, destCPCount, n, i, bias, in, oldi, w, k,
                 firstSupplementaryIndex>>

(* Mutants: the two checks of a digit that a caller could miss.            *)
EverythingIsADigit(digit)  == FALSE
DigitNeverOverflows(digit) == FALSE

NotADigit(digit)          == digit < 0
DigitWouldOverflow(digit) == digit > (MaxInt - i) \div w
WeightWouldOverflow(t)    == w > MaxInt \div (Base - t)

(* One digit: what is wrong with it, or its share of i and then either the *)
(* end of the integer or the weight of the next digit.                     *)
ReadDigit ==
  LET digit == DecodeDigit(src[in + 1])
      t     == Threshold(k, bias)
  IN  /\ pc = "digit" /\ in < Len(src)
      /\ in' = in + 1
      /\ IF NotADigit(digit)
         THEN Fail(U_INVALID_CHAR_FOUND) /\ UNCHANGED <<i, w, k>>
         ELSE IF DigitWouldOverflow(digit)
         THEN Fail(U_ILLEGAL_CHAR_FOUND) /\ UNCHANGED <<i, w, k>>
         ELSE /\ i' = i + digit * w
              /\ IF digit < t
                 THEN pc' = "insert" /\ UNCHANGED <<w, k, destLength, status>>
                 ELSE IF WeightWouldOverflow(t)
                 THEN Fail(U_ILLEGAL_CHAR_FOUND) /\ UNCHANGED <<w, k>>
                 ELSE /\ w' = w * (Base - t)
                      /\ k' = k + Base
                      /\ UNCHANGED <<pc, destLength, status>>
      /\ UNCHANGED <<src, capacity, dest, destCPCount, n, bias, oldi,
                     firstSupplementaryIndex>>

(* Mutants: supplementary characters count as one unit, or the index moves *)
(* whatever is inserted before it.                                         *)
CodeUnitIndexIgnoresPairs(position) == position

NextFirstSupplementaryMoves(position, cpLength) ==
  IF position > firstSupplementaryIndex THEN firstSupplementaryIndex
  ELSE firstSupplementaryIndex + cpLength

(* Where code point c goes when it becomes the position-th of the output:  *)
(* a code point index equals a code unit index up to the first             *)
(* supplementary character.                                                *)
CodeUnitIndex(position) ==
  IF position <= firstSupplementaryIndex THEN position
  ELSE U16_FWD_N(dest, firstSupplementaryIndex,
                 position - firstSupplementaryIndex)

(* The index after c, of cpLength units, has been inserted there.          *)
NextFirstSupplementary(position, cpLength) ==
  IF position > firstSupplementaryIndex THEN firstSupplementaryIndex
  ELSE IF cpLength > 1 THEN position
  ELSE firstSupplementaryIndex + 1

(* The integer is complete: i wraps around the grown output, n goes up by  *)
(* the number of turns, and n is inserted at i if the buffer has room.     *)
Insert ==
  LET count     == destCPCount + 1
      turns     == i \div count
      c         == n + turns
      position  == i % count
      cpLength  == U16_LENGTH(c)
      unitIndex == CodeUnitIndex(position)
      fits      == destLength + cpLength <= capacity
  IN  /\ pc = "insert"
      /\ destCPCount' = count
      /\ bias' = AdaptBias(i - oldi, count, oldi = 0)
      /\ IF turns > MaxInt - n \/ c > MaxCodePoint \/ IsSurrogate(c)
         THEN /\ Fail(U_ILLEGAL_CHAR_FOUND)
              /\ UNCHANGED <<dest, firstSupplementaryIndex, n, i>>
         ELSE /\ n' = c
              /\ i' = position + 1
              /\ destLength' = destLength + cpLength
              /\ dest' = IF fits
                         THEN SubSeq(dest, 1, unitIndex) \o CodeUnits(c)
                                \o SubSeq(dest, unitIndex + 1, Len(dest))
                         ELSE dest
              /\ firstSupplementaryIndex' =
                   IF fits THEN NextFirstSupplementary(position, cpLength)
                           ELSE firstSupplementaryIndex
              /\ pc' = "next"
              /\ UNCHANGED status
      /\ UNCHANGED <<src, capacity, in, oldi, w, k>>

Finish ==
  /\ pc = "next" /\ in >= Len(src)
  /\ Return(TerminateStatus(capacity, destLength, status), destLength)
  /\ UNCHANGED <<src, capacity, dest, destCPCount, n, i, bias, in, oldi, w, k,
                 firstSupplementaryIndex>>

Step == BeginInteger \/ RejectTruncated \/ ReadDigit \/ Insert \/ Finish

(* On its own, the decoder is called with any string and any capacity.     *)
Next == Step \/ \E s \in Seq(Nat), c \in 0 .. MaxInt : Call(s, c)

Spec == Init /\ [][Next]_vars

-----------------------------------------------------------------------------
(* Type invariant: the counters of u_strFromPunycode() never become        *)
(* negative, and dest only holds numbers.                                  *)
DecoderTypeOK ==
  /\ pc \in {"ready", "next", "digit", "insert", "done"}
  /\ src \in Seq(Nat) /\ dest \in Seq(Nat)
  /\ capacity \in Nat /\ destLength \in Nat /\ destCPCount \in Nat
  /\ n \in Nat /\ i \in Nat /\ bias \in Nat /\ in \in Nat
  /\ oldi \in Nat /\ w \in Nat /\ k \in Nat
  /\ firstSupplementaryIndex \in Nat
  /\ status \in Int

(* i, w and n are only ever guarded by divisions made before the products  *)
(* and sums.  Whatever the digits, none of them leaves the range of an     *)
(* int32_t, and n stays a code point.                                      *)
DecodeInRange ==
  /\ i <= MaxInt /\ w <= MaxInt /\ k <= MaxInt
  /\ n <= MaxCodePoint

(* The shortcut for strings without supplementary characters: as long as   *)
(* everything has fitted, firstSupplementaryIndex is the code unit index   *)
(* of the first supplementary character, or beyond the string.             *)
FirstSupplementaryIsFirst ==
  pc \in {"next", "digit", "insert"} /\ destLength <= capacity =>
    LET pairs == {x \in 0 .. Len(dest) - 1 : StartsPair(dest, x)}
    IN  IF pairs = {} THEN firstSupplementaryIndex > Len(dest)
        ELSE /\ firstSupplementaryIndex \in pairs
             /\ \A x \in pairs : firstSupplementaryIndex <= x

(* An insertion puts one code point at code point index i and moves the    *)
(* others, whatever the code unit arithmetic: the output stays well-formed *)
(* and no pair is split.                                                   *)
InsertsCodePoint ==
  pc = "insert" /\ pc' = "next" /\ destLength' <= capacity =>
    LET before   == CodePoints(dest)
        position == i % (destCPCount + 1)
    IN  CodePoints(dest') = SubSeq(before, 1, position) \o <<n'>>
                              \o SubSeq(before, position + 1, Len(before))
(* Every insertion of the call does so, the last one included.             *)
InsertionsAreExact == [][InsertsCodePoint]_vars
=============================================================================
