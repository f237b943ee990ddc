--------------------------- MODULE PunycodeCodec ----------------------------
(***************************************************************************)
(* The encoder and the decoder composed the way processLabel() uses them:  *)
(* each is called with a buffer that may be too small, and once more with  *)
(* the length it asked for; the result of one is then given to the other.  *)
(* A behaviour starts either from a Unicode label (flow "encode") or from  *)
(* the Punycode part of an ACE label (flow "decode").                      *)
(***************************************************************************)
EXTENDS PunycodeEncoder, PunycodeDefinition

CONSTANTS
  UnicodeLabels,   (* the inputs of the encoder: sequences of code units   *)
  PunycodeLabels,  (* the inputs of the decoder: sequences of characters   *)
  Capacities       (* the capacities of the first buffers                  *)

VARIABLES
  flow,            (* "none", "encode" or "decode"                         *)
  input,           (* what the behaviour started from                      *)
  asked,           (* the length the last overflowing call returned, or -1 *)
  dpc, dsrc, dcapacity, ddest, ddestLength, ddestCPCount, dn, di, dbias,
  din, doldi, dw, dk, dfirst, dstatus

Dec == INSTANCE PunycodeDecoder WITH
  pc <- dpc, src <- dsrc, capacity <- dcapacity, dest <- ddest,
  destLength <- ddestLength, destCPCount <- ddestCPCount, n <- dn, i <- di,
  bias <- dbias, in <- din, oldi <- doldi, w <- dw, k <- dk,
  firstSupplementaryIndex <- dfirst, status <- dstatus

decoder  == <<dpc, dsrc, dcapacity, ddest, ddestLength, ddestCPCount, dn, di,
              dbias, din, doldi, dw, dk, dfirst, dstatus>>
caller   == <<flow, input, asked>>
allVars  == <<vars, decoder, caller>>

CodecInit ==
  /\ Init /\ Dec!Init
  /\ flow = "none" /\ input = <<>> /\ asked = -1

StartEncode(s, c) ==
  /\ flow = "none"
  /\ flow' = "encode" /\ input' = s /\ asked' = -1
  /\ Call(s, c)
  /\ UNCHANGED decoder

StartDecode(s, c) ==
  /\ flow = "none"
  /\ flow' = "decode" /\ input' = s /\ asked' = -1
  /\ Dec!Call(s, c)
  /\ UNCHANGED vars

(* U_BUFFER_OVERFLOW_ERROR: the caller gets a buffer of the length it was  *)
(* told, or a larger one, and calls again.                                 *)
RetryEncode(c) ==
  /\ pc = "done" /\ status = U_BUFFER_OVERFLOW_ERROR
  /\ c >= destLength
  /\ Call(src, c)
  /\ asked' = destLength
  /\ UNCHANGED <<decoder, flow, input>>

RetryDecode(c) ==
  /\ dpc = "done" /\ dstatus = U_BUFFER_OVERFLOW_ERROR
  /\ c >= ddestLength
  /\ Dec!Call(dsrc, c)
  /\ asked' = ddestLength
  /\ UNCHANGED <<vars, flow, input>>

DecodeResult(c) ==
  /\ flow = "encode" /\ pc = "done" /\ U_SUCCESS(status) /\ dpc = "ready"
  /\ Dec!Call(dest, c)
  /\ asked' = -1
  /\ UNCHANGED <<vars, flow, input>>

EncodeResult(c) ==
  /\ flow = "decode" /\ dpc = "done" /\ U_SUCCESS(dstatus) /\ pc = "ready"
  /\ Call(ddest, c)
  /\ asked' = -1
  /\ UNCHANGED <<decoder, flow, input>>

EncoderStep == Step /\ UNCHANGED <<decoder, caller>>
DecoderStep == Dec!Step /\ UNCHANGED <<vars, caller>>

CodecNext ==
  \/ /\ flow = "none"
     /\ \E c \in Capacities :
          \/ \E s \in UnicodeLabels  : StartEncode(s, c)
          \/ \E s \in PunycodeLabels : StartDecode(s, c)
  \/ \E c \in {destLength, destLength + 1} : RetryEncode(c)
  \/ \E c \in {ddestLength, ddestLength + 1} : RetryDecode(c)
  \/ \E c \in Capacities : DecodeResult(c) \/ EncodeResult(c)
  \/ EncoderStep
  \/ DecoderStep

(* The calls are synchronous: a call that has begun is carried on.         *)
CodecSpec ==
  CodecInit /\ [][CodecNext]_allVars
            /\ WF_allVars(EncoderStep) /\ WF_allVars(DecoderStep)

-----------------------------------------------------------------------------
(* The decoder's properties, explained in PunycodeDecoder: its types,      *)
DecoderTypeOK             == Dec!DecoderTypeOK
(* no int32_t overflows and n stays a code point,                          *)
DecodeInRange             == Dec!DecodeInRange
(* firstSupplementaryIndex is that of the first supplementary character,   *)
FirstSupplementaryIsFirst == Dec!FirstSupplementaryIsFirst
(* and an insertion puts one code point at its place.                      *)
InsertionsAreExact        == Dec!InsertionsAreExact

(* decode(encode(s)) = s: what the encoder accepts, the decoder accepts    *)
(* and turns back into the same text, unless the digits are more than the  *)
(* decoder takes.                                                          *)
RoundTrip ==
  flow = "encode" /\ dpc = "done" /\ dstatus # U_BUFFER_OVERFLOW_ERROR
    /\ Len(dsrc) <= Dec!DecodeMaxChars =>
    U_SUCCESS(dstatus) /\ ddest = input

(* The encoder writes what RFC 3492 defines, however often delta was       *)
(* increased on the way.                                                   *)
EncodesTheDefinition ==
  pc = "done" /\ U_SUCCESS(status) => dest = EncodeText(src)

(* The decoder computes what RFC 3492 defines: which text, and, as it is   *)
(* the width of its integers that the definition refers to, whether any.   *)
DecodesTheDefinition ==
  dpc = "done" /\ dstatus # U_BUFFER_OVERFLOW_ERROR =>
    /\ U_SUCCESS(dstatus) = DecodedPoints(dsrc).ok
    /\ U_SUCCESS(dstatus) => CodePoints(ddest) = DecodedPoints(dsrc).text

(* encode(decode(p)) = p: no two strings of lower-case digits decode to    *)
(* the same text.                                                          *)
Canonical ==
  flow = "decode" /\ pc = "done" /\ U_SUCCESS(status) => dest = input

(* The length a call asks for does not depend on the buffer it was given:  *)
(* the second call returns the same length, and its result fits.           *)
RetrySucceeds ==
  asked >= 0 =>
    /\ flow = "encode" /\ dpc = "ready" /\ pc = "done" =>
         U_SUCCESS(status) /\ destLength = asked
    /\ flow = "decode" /\ pc = "ready" /\ dpc = "done" =>
         U_SUCCESS(dstatus) /\ ddestLength = asked
    /\ flow = "encode" /\ dpc = "done" =>
         U_SUCCESS(dstatus) /\ ddestLength = asked

(* Every call returns, though two of the loops have no step of their own.  *)
EveryCallReturns ==
  /\ pc # "ready" ~> pc = "done"
  /\ dpc # "ready" ~> dpc = "done"
=============================================================================
