------------------------------ MODULE Punycode ------------------------------
(***************************************************************************)
(* The parameters and the pure helpers of u_punycode.cc, shared by the     *)
(* encoder and the decoder.  The Bootstring parameters are the code's.     *)
(* The width of an integer and the repertoire are constants: the library   *)
(* is MaxInt = 0x7fffffff, and a small MaxInt makes every overflow check   *)
(* reachable with short strings.                                           *)
(***************************************************************************)
EXTENDS UTF16, UErrorCode

CONSTANT MaxInt       (* the largest int32_t                               *)

Base        == 36
TMin        == 1
TMax        == 26
Skew        == 38
Damp        == 700
InitialBias == 72
InitialN    == 128
Delimiter   == 45

EncodeMaxCodeUnits == 1000
DecodeMaxChars     == 2000

(* An int32_t holds every code point, and the counters that no check       *)
(* guards: twice the encoder's input, and k for the longest decoder input. *)
ASSUME IntWidth ==
  /\ MaxInt \in Nat /\ MaxInt <= 2147483647
  /\ MaxCodePoint < MaxInt
  /\ 2 * (EncodeMaxCodeUnits + 1) <= MaxInt
  /\ Base * (DecodeMaxChars + 1) <= MaxInt

IsBasic(c) == c < InitialN

(* Mutants: digit 26 is written behind 'z', and any character below '0' is *)
(* read as a digit.                                                        *)
DigitToBasicOffByOne(digit) ==
  IF digit <= 26 THEN 97 + digit ELSE 48 - 26 + digit

DecodeDigitWithoutLowerBound(c) ==
  IF c <= 57 THEN c - 48 + 26
  ELSE IF c <= 90 THEN c - 65
  ELSE IF c <= 122 THEN c - 97
  ELSE -1

(* Digit values 0..25 are the letters a-z (A-Z too when read), 26..35 the  *)
(* decimal digits.  Any negative value stands for "not a digit".           *)
DigitToBasic(digit) == IF digit < 26 THEN 97 + digit ELSE 48 - 26 + digit

DecodeDigit(c) ==
  IF c <= 57 THEN IF c < 48 THEN -1 ELSE c - 48 + 26
  ELSE IF c <= 90 THEN c - 65
  ELSE IF c <= 122 THEN c - 97
  ELSE -1

Threshold(k, bias) ==
  IF k - bias < TMin THEN TMin
  ELSE IF k >= bias + TMax THEN TMax
  ELSE k - bias

(* The loop of adaptBias divides by Base - TMin = 35 while the value is    *)
(* above 455, at most five times for a 32-bit value: PowersOf35[r + 1] is  *)
(* the divisor after r rounds, and the rounds taken are those whose value  *)
(* is still too large.                                                     *)
PowersOf35 == <<1, 35, 1225, 42875, 1500625, 52521875>>

AdaptBias(delta, length, firstTime) ==
  LET damped == IF firstTime THEN delta \div Damp ELSE delta \div 2
      start  == damped + damped \div length
      rounds == Cardinality({r \in 1 .. 5 :
                  start \div PowersOf35[r] > ((Base - TMin) * TMax) \div 2})
      last   == start \div PowersOf35[rounds + 1]
  IN  Base * rounds + ((Base - TMin + 1) * last) \div (last + Skew)

(* Mutant: "<= destCapacity" where one more unit must fit.                 *)
StoreOneTooMany(dest, capacity, t) ==
  LET length == Len(dest) + Len(t)
  IN  SubSeq(dest \o t, 1, IF length <= capacity THEN length ELSE capacity + 1)

(* What a buffer of this capacity holds after the units of t have been     *)
(* written behind dest, each only if it still fits.                        *)
Store(dest, capacity, t) ==
  LET length == Len(dest) + Len(t)
  IN  SubSeq(dest \o t, 1, IF length < capacity THEN length ELSE capacity)
=============================================================================
