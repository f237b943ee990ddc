------------------------- MODULE MCReorderingBuffer -------------------------
(***************************************************************************)
(* The buffer on a repertoire with every kind of code point insert() can   *)
(* meet: a letter and a supplementary letter, the classes 1, 9 and 230,    *)
(* two marks of the same class, and a supplementary mark.  The array has   *)
(* no room to spare, and grows in small steps, so that every operation     *)
(* meets every value of remainingCapacity.                                 *)
(***************************************************************************)
EXTENDS ReorderingBuffer

MCCC(c) ==
  IF c = 101 THEN 1
  ELSE IF c \in {109, 741} THEN 9
  ELSE IF c \in {123, 124} THEN 230
  ELSE 0

MCCodePoint == {97, 101, 123, 124, 741}

(* The mappings of the data that begin with a mark are marks of the BMP;   *)
(* the others begin with a letter.  After the first of three marks there   *)
(* are two steps that may each fail.                                       *)
MCTexts ==
  {<<97>>, <<97, 123>>, <<109, 123>>, <<109, 123, 124>>, <<97, 101, 123>>,
   CodeUnits(740) \o <<109>>, CodeUnits(740) \o CodeUnits(741), <<123>>}
=============================================================================
