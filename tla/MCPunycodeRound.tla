-------------------------- MODULE MCPunycodeRound ---------------------------
(***************************************************************************)
(* The codec with the library's own integers and surrogate layout, on all  *)
(* labels of at most MaxLabel characters from a repertoire that has a      *)
(* basic letter, the delimiter, both ends of the BMP around the surrogates *)
(* and both ends of the supplementary planes, and on malformed UTF-16.     *)
(***************************************************************************)
EXTENDS PunycodeCodec, SequencesExt

CONSTANT MaxLabel

Repertoire == {97, 45, 128, 223, 55295, 65535, 65536, 1114111}

Texts == {FlattenSeq([x \in DOMAIN s |-> CodeUnits(s[x])]) :
            s \in BoundedSeq(Repertoire, MaxLabel)}

Unpaired == {<<55296>>, <<97, 56320>>, <<223, 56320, 55296>>, <<55296, 97>>}

(* The first supplementary character, four times: it costs fewer digits    *)
(* each time than the two units it takes.                                  *)
FourOfPlane1 == FlattenSeq([x \in 1 .. 4 |-> CodeUnits(65536)])

MCUnicodeLabels  == Texts \cup Unpaired \cup {FourOfPlane1}
MCPunycodeLabels == {}
MCCapacities     == {0, 4, 60}
=============================================================================
