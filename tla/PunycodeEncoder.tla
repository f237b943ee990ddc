-------------------------- MODULE PunycodeEncoder ---------------------------
(***************************************************************************)
(* u_strToPunycode() as a state machine: one action per iteration of its   *)
(* loops.  Callers pass the length of src and no case flags, so neither is *)
(* part of the state.  The result of a call is destLength with status; the *)
(* code returns 0 when it fails.                                           *)
(***************************************************************************)
EXTENDS Punycode

VARIABLES
  pc,          (* "ready", the loop the call is in, or "done"              *)
  src,         (* the UTF-16 input                                         *)
  capacity,    (* destCapacity                                             *)
  dest,        (* the units stored in the output buffer                    *)
  destLength,  (* the length the output needs                              *)
  cpBuffer,    (* 0 for a basic code point, the code point for another     *)
  basicLength,
  n, delta, bias,
  handledCPCount,
  j,           (* the index of the innermost loop over src or cpBuffer     *)
  q, k,        (* the rest and the position of the integer being written   *)
  status       (* *pErrorCode                                              *)

vars == <<pc, src, capacity, dest, destLength, cpBuffer, basicLength,
          n, delta, bias, handledCPCount, j, q, k, status>>

numbers == <<basicLength, n, delta, bias, handledCPCount, q, k>>

Init ==
  /\ pc = "ready"
  /\ src = <<>> /\ capacity = 0
  /\ dest = <<>> /\ destLength = 0 /\ cpBuffer = <<>> /\ basicLength = 0
  /\ n = 0 /\ delta = 0 /\ bias = 0 /\ handledCPCount = 0
  /\ j = 0 /\ q = 0 /\ k = 0
  /\ status = U_ZERO_ERROR

Return(code, length) ==
  /\ pc' = "done"
  /\ status' = code
  /\ destLength' = length

Fail(code) == Return(code, 0)

(* Write the units t of the output, each if it fits.                       *)
Write(t) ==
  /\ dest' = Store(dest, capacity, t)
  /\ destLength' = destLength + Len(t)

(* The call: checks the length and enters the loop over src.               *)
Call(s, c) ==
  /\ pc \in {"ready", "done"}
  /\ src' = s /\ capacity' = c
  /\ dest' = <<>> /\ cpBuffer' = <<>> /\ j' = 0
  /\ IF Len(s) > EncodeMaxCodeUnits
     THEN Fail(U_INPUT_TOO_LONG_ERROR)
     ELSE pc' = "copy" /\ status' = U_ZERO_ERROR /\ destLength' = 0
  /\ UNCHANGED numbers

CopyBasic ==
  /\ pc = "copy" /\ j < Len(src) /\ IsBasic(src[j + 1])
  /\ cpBuffer' = Append(cpBuffer, 0)
  /\ Write(<<src[j + 1]>>)
  /\ j' = j + 1
  /\ UNCHANGED <<pc, src, capacity, numbers, status>>

CopyExtended ==
  /\ pc = "copy" /\ j < Len(src) /\ ~IsBasic(src[j + 1])
  /\ IsSurrogate(src[j + 1]) => StartsPair(src, j)
  /\ cpBuffer' = Append(cpBuffer, CodePointAt(src, j))
  /\ j' = IF StartsPair(src, j) THEN j + 2 ELSE j + 1
  /\ UNCHANGED <<pc, src, capacity, dest, destLength, numbers, status>>

RejectSurrogate ==
  /\ pc = "copy" /\ j < Len(src)
  /\ IsSurrogate(src[j + 1]) /\ ~StartsPair(src, j)
  /\ Fail(U_INVALID_CHAR_FOUND)
  /\ UNCHANGED <<src, capacity, dest, cpBuffer, numbers, j>>

(* The basic string is finished with a delimiter unless it is empty, and   *)
(* the state of the main loop is initialized.                              *)
FinishBasic ==
  /\ pc = "copy" /\ j = Len(src)
  /\ basicLength' = destLength
  /\ handledCPCount' = destLength
  /\ Write(IF destLength > 0 THEN <<Delimiter>> ELSE <<>>)
  /\ n' = InitialN /\ delta' = 0 /\ bias' = InitialBias
  /\ pc' = "round"
  /\ UNCHANGED <<src, capacity, cpBuffer, j, q, k, status>>

(* Mutant: the search forgets "q >= n".                                    *)
NextCodePointOfAll ==
  LET all == {cpBuffer[x] : x \in DOMAIN cpBuffer}
  IN  CHOOSE m \in all : \A y \in all : m <= y

(* The smallest code point that is still to be handled, or MaxInt.         *)
NextCodePoint ==
  LET left == {cpBuffer[x] : x \in DOMAIN cpBuffer} \cap (n .. MaxInt - 1)
  IN  IF left = {} THEN MaxInt ELSE CHOOSE m \in left : \A y \in left : m <= y

(* Mutant: the check leaves no room for the round's own increments.        *)
DeltaWouldOverflowNow(m) ==
  m - n > (MaxInt - delta) \div (handledCPCount + 1)

(* The head of the main loop: the gap to the next code point is added to   *)
(* delta once per handled code point and one, unless that could overflow.  *)
DeltaWouldOverflow(m) ==
  m - n > (MaxInt - handledCPCount - delta) \div (handledCPCount + 1)

BeginRound ==
  /\ pc = "round" /\ handledCPCount < Len(cpBuffer)
  /\ ~DeltaWouldOverflow(NextCodePoint)
  /\ delta' = delta + (NextCodePoint - n) * (handledCPCount + 1)
  /\ n' = NextCodePoint
  /\ j' = 0
  /\ pc' = "scan"
  /\ UNCHANGED <<src, capacity, dest, destLength, cpBuffer, basicLength, bias,
                 handledCPCount, q, k, status>>

RejectOverflow ==
  /\ pc = "round" /\ handledCPCount < Len(cpBuffer)
  /\ DeltaWouldOverflow(NextCodePoint)
  /\ Fail(U_INTERNAL_PROGRAM_ERROR)
  /\ UNCHANGED <<src, capacity, dest, cpBuffer, numbers, j>>

(* The scan over the code points in text order: a smaller one is one more  *)
(* position for the decoder to pass, an equal one is written.              *)
ScanSmaller ==
  /\ pc = "scan" /\ j < Len(cpBuffer) /\ cpBuffer[j + 1] < n
  /\ delta' = delta + 1
  /\ j' = j + 1
  /\ UNCHANGED <<pc, src, capacity, dest, destLength, cpBuffer, basicLength, n,
                 bias, handledCPCount, q, k, status>>

(* Mutant: the scan does not get past a larger code point.                 *)
ScanLargerStays ==
  /\ pc = "scan" /\ j < Len(cpBuffer) /\ cpBuffer[j + 1] > n
  /\ UNCHANGED vars

ScanLarger ==
  /\ pc = "scan" /\ j < Len(cpBuffer) /\ cpBuffer[j + 1] > n
  /\ j' = j + 1
  /\ UNCHANGED <<pc, src, capacity, dest, destLength, cpBuffer, numbers, status>>

ScanEqual ==
  /\ pc = "scan" /\ j < Len(cpBuffer) /\ cpBuffer[j + 1] = n
  /\ q' = delta /\ k' = Base
  /\ pc' = "integer"
  /\ UNCHANGED <<src, capacity, dest, destLength, cpBuffer, basicLength, n,
                 delta, bias, handledCPCount, j, status>>

(* One digit of the variable-length integer.                               *)
WriteDigit ==
  LET t == Threshold(k, bias)
  IN  /\ pc = "integer" /\ q >= t
      /\ Write(<<DigitToBasic(t + ((q - t) % (Base - t)))>>)
      /\ q' = (q - t) \div (Base - t)
      /\ k' = k + Base
      /\ UNCHANGED <<pc, src, capacity, cpBuffer, basicLength, n, delta, bias,
                     handledCPCount, j, status>>

(* Its last digit, the new bias, and back to the scan.                     *)
WriteLastDigit ==
  /\ pc = "integer" /\ q < Threshold(k, bias)
  /\ Write(<<DigitToBasic(q)>>)
  /\ bias' = AdaptBias(delta, handledCPCount + 1, handledCPCount = basicLength)
  /\ delta' = 0
  /\ handledCPCount' = handledCPCount + 1
  /\ j' = j + 1
  /\ pc' = "scan"
  /\ UNCHANGED <<src, capacity, cpBuffer, basicLength, n, q, k, status>>

(* Mutant: delta does not count the step to the next code point.           *)
EndRoundForgetsDelta ==
  /\ pc = "scan" /\ j = Len(cpBuffer)
  /\ n' = n + 1
  /\ pc' = "round"
  /\ UNCHANGED <<src, capacity, dest, destLength, cpBuffer, basicLength, delta,
                 bias, handledCPCount, j, q, k, status>>

EndRound ==
  /\ pc = "scan" /\ j = Len(cpBuffer)
  /\ delta' = delta + 1
  /\ n' = n + 1
  /\ pc' = "round"
  /\ UNCHANGED <<src, capacity, dest, destLength, cpBuffer, basicLength, bias,
                 handledCPCount, j, q, k, status>>

Finish ==
  /\ pc = "round" /\ handledCPCount >= Len(cpBuffer)
  /\ Return(TerminateStatus(capacity, destLength, status), destLength)
  /\ UNCHANGED <<src, capacity, dest, cpBuffer, numbers, j>>

Step ==
  \/ CopyBasic \/ CopyExtended \/ RejectSurrogate \/ FinishBasic
  \/ BeginRound \/ RejectOverflow
  \/ ScanSmaller \/ ScanLarger \/ ScanEqual
  \/ WriteDigit \/ WriteLastDigit
  \/ EndRound \/ Finish

(* On its own, the encoder is called with any UTF-16 string, well-formed   *)
(* or not, and any capacity.                                               *)
CodeUnit == 0 .. FirstSupplementary - 1

Next == Step \/ \E s \in Seq(CodeUnit), c \in 0 .. MaxInt : Call(s, c)

Spec == Init /\ [][Next]_vars

-----------------------------------------------------------------------------
(* Type invariant: the counters of u_strToPunycode() never become          *)
(* negative, and what is written are numbers.                              *)
TypeOK ==
  /\ pc \in {"ready", "copy", "round", "scan", "integer", "done"}
  /\ src \in Seq(Nat) /\ dest \in Seq(Nat) /\ cpBuffer \in Seq(Nat)
  /\ capacity \in Nat /\ destLength \in Nat /\ basicLength \in Nat
  /\ n \in Nat /\ delta \in Nat /\ bias \in Nat /\ handledCPCount \in Nat
  /\ j \in Nat /\ q \in Nat /\ k \in Nat
  /\ status \in Int

(* Between the check at the head of a round and the next one, delta is     *)
(* incremented once per smaller code point and once at the end, with no    *)
(* check of its own.  No int32_t of the call may leave its range: the      *)
(* "- handledCPCount" in the check has to leave room for all of them.      *)
NoSignedOverflow ==
  pc \in {"round", "scan", "integer"} =>
    /\ delta <= MaxInt
    /\ n <= MaxInt
    /\ pc = "round" => handledCPCount + delta <= MaxInt

(* At the head of a round every code point below n, and no other, has been *)
(* written: handledCPCount is their number.  The decoder's insertion       *)
(* positions are right only if the encoder never skips or repeats one.     *)
HandledAreTheSmaller ==
  pc = "round" =>
    handledCPCount = Cardinality({x \in DOMAIN cpBuffer : cpBuffer[x] < n})

(* The buffer holds the longest prefix of the output that fits.            *)
BufferHoldsPrefix ==
  /\ Len(dest) <= capacity
  /\ pc \in {"copy", "round", "scan", "integer"} =>
       Len(dest) = (IF destLength < capacity THEN destLength ELSE capacity)
=============================================================================
