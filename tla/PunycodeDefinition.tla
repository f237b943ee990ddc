------------------------- MODULE PunycodeDefinition -------------------------
(***************************************************************************)
(* Punycode as RFC 3492 defines it, as functions of a text: what           *)
(* PunycodeEncoder and PunycodeDecoder compute in steps.  The encoding     *)
(* says for every code point that is not basic, in the order of insertion, *)
(* how many states the decoder has to skip before it inserts it.           *)
(***************************************************************************)
EXTENDS Punycode, SequencesExt

(* A code point is inserted when the smaller ones, and the equal ones that *)
(* precede it in the text, are there.                                      *)
InsertedBefore(c, x, y) == c[x] < c[y] \/ (c[x] = c[y] /\ x < y)

InsertionOrder(c) ==
  SortSeq(SelectSeq([x \in DOMAIN c |-> x], LAMBDA x : ~IsBasic(c[x])),
          LAMBDA x, y : InsertedBefore(c, x, y))

(* The decoder's states are pairs of a code point and a position, and each *)
(* code point has one more position than there are code points already.    *)
(* handled counts those, y and x are where the code point before this one  *)
(* and this one are in the text c.                                         *)
Position(c, x) == Cardinality({y \in 1 .. x - 1 : c[y] <= c[x]})

FirstDelta(c, x, handled) == (c[x] - InitialN) * (handled + 1) + Position(c, x)

NextDelta(c, y, x, handled) ==
  (c[x] - c[y]) * (handled + 1) + Position(c, x) - (Position(c, y) + 1)

Deltas(c, order, basics) ==
  [m \in DOMAIN order |->
     IF m = 1 THEN FirstDelta(c, order[m], basics)
     ELSE NextDelta(c, order[m - 1], order[m], basics + m - 1)]

Biases(delta, basics) ==
  [m \in DOMAIN delta |->
     IF m = 1 THEN InitialBias
     ELSE AdaptBias(delta[m - 1], basics + m - 1, m = 2)]

(* The variable-length integer of a delta.                                 *)
Digits(delta, bias) ==
  LET from[q \in Nat, k \in Nat] ==
        LET t == Threshold(k, bias)
        IN  IF q < t THEN <<DigitToBasic(q)>>
            ELSE <<DigitToBasic(t + ((q - t) % (Base - t)))>>
                   \o from[(q - t) \div (Base - t), k + Base]
  IN  from[delta, Base]

AllDigits(delta, bias) ==
  FlattenSeq([m \in DOMAIN delta |-> Digits(delta[m], bias[m])])

EncodeDeltas(basic, delta) ==
  basic \o (IF basic = <<>> THEN <<>> ELSE <<Delimiter>>)
        \o AllDigits(delta, Biases(delta, Len(basic)))

EncodeCodePoints(c, basic) ==
  EncodeDeltas(basic, Deltas(c, InsertionOrder(c), Len(basic)))

EncodeText(s) == EncodeCodePoints(CodePoints(s), SelectSeq(CodePoints(s), IsBasic))

-----------------------------------------------------------------------------
(* The decoding: a variable-length integer says how many states to skip,   *)
(* and then a code point is inserted.  An integer that is too large for    *)
(* the decoder's arithmetic, one that is cut off, and a code point that    *)
(* is a surrogate or none at all make the text malformed.                  *)

(* A digit to be read: it is p[x], w is its weight and k its position, and *)
(* i is what the digits before it make.                                    *)
IntegerStates(p) == [x : 1 .. Len(p) + 1, i : Nat, w : Nat, k : Nat]

Digit(p, s)             == DecodeDigit(p[s.x])
IsLastDigit(p, bias, s) == Digit(p, s) < Threshold(s.k, bias)
WithDigit(p, s)         == s.i + Digit(p, s) * s.w

NoDigit(p, bias, s) ==
  \/ s.x > Len(p)
  \/ Digit(p, s) < 0
  \/ Digit(p, s) > (MaxInt - s.i) \div s.w
  \/ ~IsLastDigit(p, bias, s) /\ s.w > MaxInt \div (Base - Threshold(s.k, bias))

NextDigit(p, bias, s) ==
  [x |-> s.x + 1, i |-> WithDigit(p, s),
   w |-> s.w * (Base - Threshold(s.k, bias)), k |-> s.k + Base]

Integer(p, bias) ==
  LET from[s \in IntegerStates(p)] ==
        IF NoDigit(p, bias, s) THEN [end |-> 0, value |-> 0]
        ELSE IF IsLastDigit(p, bias, s)
        THEN [end |-> s.x + 1, value |-> WithDigit(p, s)]
        ELSE from[NextDigit(p, bias, s)]
  IN  from

(* An integer to be read: it starts at p[x], from i, and changes the code  *)
(* point n and the code points c that there are.                           *)
DecoderStates(p) ==
  [x : 1 .. Len(p) + 1, n : Nat, i : Nat, bias : Nat, c : Seq(Nat)]

IntegerOf(p, s) ==
  Integer(p, s.bias)[[x |-> s.x, i |-> s.i, w |-> 1, k |-> Base]]

NextPoint(s, integer) == s.n + integer.value \div (Len(s.c) + 1)

NoInsertion(s, integer) ==
  \/ integer.end = 0
  \/ NextPoint(s, integer) > MaxCodePoint
  \/ IsSurrogate(NextPoint(s, integer))

Inserted(s, integer, basics) ==
  LET length == Len(s.c) + 1
      place  == integer.value % length
  IN  [x |-> integer.end, n |-> NextPoint(s, integer), i |-> place + 1,
       bias |-> AdaptBias(integer.value - s.i, length, Len(s.c) = basics),
       c |-> SubSeq(s.c, 1, place) \o <<NextPoint(s, integer)>>
               \o SubSeq(s.c, place + 1, Len(s.c))]

Malformed == [ok |-> FALSE, text |-> <<>>]

Decoding(p, basics) ==
  LET from[s \in DecoderStates(p)] ==
        IF s.x > Len(p) THEN [ok |-> TRUE, text |-> s.c]
        ELSE IF NoInsertion(s, IntegerOf(p, s)) THEN Malformed
        ELSE from[Inserted(s, IntegerOf(p, s), basics)]
  IN  from

(* The code points that p stands for.  The basic ones precede the last     *)
(* delimiter, and a text is not longer than the decoder accepts.           *)
DecodedPoints(p) ==
  LET delimiters == {x \in DOMAIN p : p[x] = Delimiter}
      last  == CHOOSE x \in delimiters \cup {1} : \A y \in delimiters : y <= x
      basic == SubSeq(p, 1, last - 1)
      start == [x |-> IF last = 1 THEN 1 ELSE last + 1,
                n |-> InitialN, i |-> 0, bias |-> InitialBias, c |-> basic]
  IN  IF Len(p) <= DecodeMaxChars /\ \A x \in DOMAIN basic : IsBasic(basic[x])
      THEN Decoding(p, last - 1)[start]
      ELSE Malformed

(* The same as UTF-16.                                                     *)
Decoded(p) ==
  LET points == DecodedPoints(p)
  IN  [ok   |-> points.ok,
       text |-> FlattenSeq([y \in DOMAIN points.text |-> CodeUnits(points.text[y])])]
=============================================================================
