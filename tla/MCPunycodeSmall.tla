-------------------------- MODULE MCPunycodeSmall ---------------------------
(***************************************************************************)
(* The codec with integers of about 17 bits, so that the overflow checks   *)
(* of both directions decide calls, and with every string of at most       *)
(* MaxPunycode characters as the decoder's input.                          *)
(***************************************************************************)
EXTENDS PunycodeCodec, SequencesExt

CONSTANT MaxPunycode

MCUnicodeLabels ==
  {FlattenSeq([x \in DOMAIN s |-> CodeUnits(s[x])]) :
     s \in BoundedSeq({97, 128, 129, 50128, MaxCodePoint}, 3)}

(* The delimiter, digits of value 0, 1, 7, 17 and 35, and a character that *)
(* is not basic: "hra" is the first supplementary code point, "ara" a      *)
(* surrogate and "999" more than a code point.                             *)
MCPunycodeLabels == BoundedSeq({45, 97, 98, 104, 114, 57, 128}, MaxPunycode)
MCCapacities     == {0, 2, 9}
=============================================================================
