--------------------------- MODULE PunycodeProofs ---------------------------
(***************************************************************************)
(* Lemmas about the helpers of u_punycode.cc that the proofs about the     *)
(* encoder and the decoder rest on.                                        *)
(***************************************************************************)
EXTENDS PunycodeDefinition, UTF16Proofs

(* A quotient that bounds a number bounds its product with the divisor:    *)
(* the form of every overflow check in u_punycode.cc.                      *)
LEMMA QuotientBoundsProduct ==
  ASSUME NEW a \in Nat, NEW b \in Nat, NEW c \in Nat, c > 0, a <= b \div c
  PROVE  a * c <= b
OBVIOUS

(* The threshold of a digit is between TMin and TMax, so that the base of  *)
(* the next digit, Base - t, is positive.                                  *)
LEMMA ThresholdRange ==
  ASSUME NEW k \in Nat, NEW bias \in Nat
  PROVE  Threshold(k, bias) \in TMin .. TMax
BY DEF Threshold, TMin, TMax

(* adaptBias() returns a natural number.                                   *)
LEMMA AdaptBiasIsNat ==
  ASSUME NEW delta \in Nat, NEW length \in Nat, length > 0,
         NEW firstTime \in BOOLEAN
  PROVE  AdaptBias(delta, length, firstTime) \in Nat
<1> DEFINE damped == IF firstTime THEN delta \div Damp ELSE delta \div 2
           start  == damped + damped \div length
           large  == {r \in 1 .. 5 :
                       start \div PowersOf35[r] > ((Base - TMin) * TMax) \div 2}
           rounds == Cardinality(large)
           last   == start \div PowersOf35[rounds + 1]
<1>1. damped \in Nat
  BY QuotientIsNat DEF Damp
<1>2. start \in Nat
  <2> HIDE DEF damped
  <2>1. damped \div length \in Nat
    BY <1>1, QuotientIsNat
  <2> QED BY <1>1, <2>1
<1>3. rounds \in 0 .. 5
  <2>1. IsFiniteSet(1 .. 5) /\ Cardinality(1 .. 5) = 5
    <3>1. 1 \in Int /\ 5 \in Int
      OBVIOUS
    <3>2. /\ IsFiniteSet(1 .. 5)
          /\ Cardinality(1 .. 5) = IF 1 > 5 THEN 0 ELSE 5 - 1 + 1
      BY <3>1, FS_Interval, Zenon
    <3> QED BY <3>2
  <2>2. large \in SUBSET (1 .. 5)
    OBVIOUS
  <2> HIDE DEF large
  <2>3. IsFiniteSet(large) /\ Cardinality(large) <= 5
    <3>1. IsFiniteSet(large) /\ Cardinality(large) <= Cardinality(1 .. 5)
      BY <2>1, <2>2, FS_Subset, ZenonT(30)
    <3> QED BY <2>1, <3>1
  <2> QED BY <2>3, FS_CardinalityType
<1>4. last \in Nat
  <2> HIDE DEF start, rounds
  <2>1. PowersOf35[rounds + 1] \in Nat /\ PowersOf35[rounds + 1] > 0
    BY <1>3 DEF PowersOf35
  <2> QED BY <1>2, <2>1, QuotientIsNat
<1>5. Base * rounds + ((Base - TMin + 1) * last) \div (last + Skew) \in Nat
  <2> HIDE DEF last, rounds
  <2>1. ((Base - TMin + 1) * last) \div (last + Skew) \in Nat
    BY <1>4, QuotientIsNat DEF Base, TMin, Skew
  <2> QED BY <1>3, <2>1 DEF Base
<1> QED BY <1>5 DEF AdaptBias

(* What a buffer holds is a sequence of what was written to it.            *)
LEMMA StoreType ==
  ASSUME NEW S, NEW d \in Seq(S), NEW t \in Seq(S), NEW c \in Nat,
         Len(d) <= c
  PROVE  Store(d, c, t) \in Seq(S) /\ Len(Store(d, c, t)) <= c
BY DEF Store

(* A buffer that holds as much as fits of what has been written does so    *)
(* after the next write: what is stored never lies behind a gap.           *)
LEMMA StoreHoldsPrefix ==
  ASSUME NEW S, NEW d \in Seq(S), NEW t \in Seq(S), NEW c \in Nat,
         NEW length \in Nat, Len(d) = IF length < c THEN length ELSE c
  PROVE  Len(Store(d, c, t)) =
           IF length + Len(t) < c THEN length + Len(t) ELSE c
<1>1. Len(d) \in Nat /\ Len(t) \in Nat /\ d \o t \in Seq(S)
      /\ Len(d \o t) = Len(d) + Len(t)
  OBVIOUS
<1> DEFINE n == IF Len(d) + Len(t) < c THEN Len(d) + Len(t) ELSE c
<1>2. n \in 0 .. Len(d \o t)
  BY <1>1
<1>3. Len(SubSeq(d \o t, 1, n)) = n
  <2> HIDE DEF n
  <2> QED BY <1>1, <1>2
<1> QED BY <1>1, <1>3 DEF Store

-----------------------------------------------------------------------------
(* A function that is applied to a start again and again, as long as it is *)
(* defined: the orbit of the start are the values it goes through.  A call *)
(* of the encoder or the decoder is such an orbit, and where it ends does  *)
(* not depend on who looks.                                                *)
ClosedUnder(next, V, C) ==
  \A x \in C \cap DOMAIN next : next[x] \in V => next[x] \in C

Orbit(next, V, a) ==
  {p \in V : \A C \in SUBSET V : a \in C /\ ClosedUnder(next, V, C) => p \in C}

(* The start belongs to its orbit.                                         *)
LEMMA OrbitBegins ==
  ASSUME NEW next, NEW V, NEW a \in V
  PROVE  a \in Orbit(next, V, a)
BY DEF Orbit

(* The next value belongs to the orbit.                                    *)
LEMMA OrbitGoesOn ==
  ASSUME NEW next, NEW V, NEW a, NEW p \in Orbit(next, V, a),
         p \in DOMAIN next, next[p] \in V
  PROVE  next[p] \in Orbit(next, V, a)
BY DEF Orbit, ClosedUnder

(* An orbit has no more than one end.                                      *)
LEMMA OrbitEndsOnce ==
  ASSUME NEW next, NEW V, NEW a \in V,
         NEW p \in Orbit(next, V, a), p \notin DOMAIN next,
         NEW t \in Orbit(next, V, a), t \notin DOMAIN next
  PROVE  p = t
<1> DEFINE C == {x \in V : t \in Orbit(next, V, x)}
<1>1. p \in V /\ t \in V
  BY DEF Orbit
<1>2. ASSUME NEW x \in C, x \in DOMAIN next, next[x] \in V
      PROVE  next[x] \in C
  <2> DEFINE y == next[x]
             D == {x} \cup Orbit(next, V, y)
  <2>1. y \in Orbit(next, V, y)
    BY <1>2, OrbitBegins
  <2>2. D \in SUBSET V /\ x \in D
    BY DEF Orbit
  <2>3. ASSUME NEW z \in D, z \in DOMAIN next, next[z] \in V
        PROVE  next[z] \in D
    <3>1. CASE z = x
      BY <3>1, <2>1
    <3>2. CASE z \in Orbit(next, V, y)
      BY <3>2, <2>3, OrbitGoesOn
    <3> QED BY <3>1, <3>2
  <2>4. ClosedUnder(next, V, D)
    <3> HIDE DEF D
    <3> QED BY <2>3 DEF ClosedUnder
  <2>5. t \in D
    <3> HIDE DEF D
    <3> QED BY <2>2, <2>4 DEF Orbit
  <2>6. t # x
    BY <1>2
  <2> QED BY <1>2, <2>5, <2>6
<1>3. C \in SUBSET V /\ a \in C
  OBVIOUS
<1>4. ClosedUnder(next, V, C)
  <2> HIDE DEF C
  <2> QED BY <1>2 DEF ClosedUnder
<1>5. p \in C
  <2> HIDE DEF C
  <2> QED BY <1>3, <1>4 DEF Orbit
<1>6. {p} \in SUBSET V /\ ClosedUnder(next, V, {p})
  BY <1>1 DEF ClosedUnder
<1>7. t \in {p}
  BY <1>5, <1>6 DEF Orbit
<1> QED BY <1>7

(* The status of a length that has room says success.                      *)
LEMMA RoomIsSuccess ==
  ASSUME NEW c \in Nat, NEW length \in Nat, c >= length
  PROVE  U_SUCCESS(TerminateStatus(c, length, U_ZERO_ERROR))
BY DEF U_SUCCESS, TerminateStatus, U_FAILURE, U_ZERO_ERROR,
       U_STRING_NOT_TERMINATED_WARNING

-----------------------------------------------------------------------------
(* A function that gives an end its result, and any other value what it    *)
(* gives the next one.                                                     *)
IsTailRecursive(f, S, ends, result, next) ==
  f = [s \in S |-> IF s \in ends THEN result[s] ELSE f[next[s]]]

(* There is one if a bounded measure goes down with every step.            *)
LEMMA TailRecursionExists ==
  ASSUME NEW S, NEW ends, NEW result, NEW next, NEW measure, NEW N \in Nat,
         \A s \in S : measure[s] \in 0 .. N,
         \A s \in S \ ends : next[s] \in S /\ measure[next[s]] < measure[s]
  PROVE  \E f : IsTailRecursive(f, S, ends, result, next)
<1> DEFINE Below(j) == {s \in S : measure[s] < j}
           bad == {j \in Nat : ~\E f : IsTailRecursive(f, Below(j), ends, result, next)}
<1>1. SUFFICES bad = {}
  <2>1. N + 1 \in Nat /\ N + 1 \notin bad
    <3> HIDE DEF bad
    <3> QED BY <1>1
  <2>2. Below(N + 1) = S
    OBVIOUS
  <2> QED BY <2>1, <2>2
<1>2. SUFFICES ASSUME bad # {} PROVE FALSE
  OBVIOUS
<1>3. PICK j \in bad : \A y \in bad : j <= y
  <2>1. bad \in SUBSET Nat
    OBVIOUS
  <2> HIDE DEF bad
  <2> QED BY <1>2, <2>1, NatHasLeast
<1>4. j \in Nat /\ ~\E f : IsTailRecursive(f, Below(j), ends, result, next)
  BY <1>3
<1>5. j # 0
  <2> SUFFICES ASSUME j = 0 PROVE FALSE
    OBVIOUS
  <2>1. Below(j) = {}
    OBVIOUS
  <2>2. IsTailRecursive([s \in {} |-> s], {}, ends, result, next)
    BY DEF IsTailRecursive
  <2> QED BY <1>4, <2>1, <2>2
<1>6. PICK f : IsTailRecursive(f, Below(j - 1), ends, result, next)
  <2>1. j - 1 \in Nat /\ ~(j <= j - 1)
    BY <1>4, <1>5
  <2>2. j - 1 \notin bad
    <3> HIDE DEF bad
    <3> QED BY <1>3, <2>1
  <2> QED BY <2>1, <2>2
<1> DEFINE g == [s \in Below(j) |-> IF s \in ends THEN result[s] ELSE f[next[s]]]
<1>7. ASSUME NEW s \in Below(j), s \notin ends
      PROVE  next[s] \in Below(j - 1) /\ next[s] \in Below(j)
  <2>1. s \in S \ ends /\ measure[s] < j /\ measure[s] \in 0 .. N
    BY <1>7
  <2>2. next[s] \in S /\ measure[next[s]] < measure[s] /\ measure[next[s]] \in 0 .. N
    BY <2>1
  <2> QED BY <1>4, <2>1, <2>2
<1> HIDE DEF Below
<1>8. ASSUME NEW s \in Below(j), s \notin ends
      PROVE  g[next[s]] = f[next[s]]
  <2> DEFINE t == next[s]
  <2>1. t \in Below(j - 1) /\ t \in Below(j)
    BY <1>7, <1>8
  <2> HIDE DEF t
  <2>2. f[t] = IF t \in ends THEN result[t] ELSE f[next[t]]
    BY <1>6, <2>1, Zenon DEF IsTailRecursive
  <2>3. g[t] = f[t]
    BY <2>1, <2>2
  <2> QED BY <2>3 DEF t
<1>9. g = [s \in Below(j) |-> IF s \in ends THEN result[s] ELSE g[next[s]]]
  <2>1. \A s \in Below(j) : (IF s \in ends THEN result[s] ELSE f[next[s]])
                              = IF s \in ends THEN result[s] ELSE g[next[s]]
    BY <1>8
  <2> DEFINE h == g
  <2>2. g = [s \in Below(j) |-> IF s \in ends THEN result[s] ELSE h[next[s]]]
    <3> HIDE DEF h
    <3>1. h = g
      BY DEF h
    <3> QED BY <2>1, <3>1
  <2> QED BY <2>2
<1> QED BY <1>4, <1>9 DEF IsTailRecursive

-----------------------------------------------------------------------------
(* The definition's decoding is recursive twice: over the digits of an     *)
(* integer and over the integers of a text.  Either recursion moves ahead  *)
(* in the text and stops at its end, so it is well-founded.                *)

(* What a state of an integer leads to.                                    *)
LEMMA NextDigitType ==
  ASSUME NEW p \in Seq(Nat), NEW bias \in Nat, NEW s \in IntegerStates(p),
         ~NoDigit(p, bias, s)
  PROVE  /\ s.x \in 1 .. Len(p) /\ Len(p) \in Nat /\ s.i \in Nat
         /\ WithDigit(p, s) \in Nat /\ WithDigit(p, s) >= s.i
         /\ NextDigit(p, bias, s) \in IntegerStates(p)
         /\ NextDigit(p, bias, s).x = s.x + 1
         /\ NextDigit(p, bias, s).i = WithDigit(p, s)
<1>1. /\ s.x \in 1 .. Len(p) + 1 /\ s.i \in Nat /\ s.w \in Nat /\ s.k \in Nat
      /\ Len(p) \in Nat
  BY DEF IntegerStates
<1>2. s.x \in 1 .. Len(p)
  BY <1>1 DEF NoDigit
<1>3. Digit(p, s) \in Nat
  <2>1. p[s.x] \in Nat
    BY <1>2
  <2>2. \A c \in Nat : DecodeDigit(c) \in Int
    BY DEF DecodeDigit
  <2> QED BY <2>1, <2>2 DEF Digit, NoDigit
<1>4. WithDigit(p, s) \in Nat /\ WithDigit(p, s) >= s.i
  <2>1. Digit(p, s) * s.w \in Nat
    BY <1>1, <1>3
  <2> QED BY <1>1, <2>1 DEF WithDigit
<1>5. s.w * (Base - Threshold(s.k, bias)) \in Nat
  <2>1. Base - Threshold(s.k, bias) \in Nat
    <3>1. \A t \in TMin .. TMax : Base - t \in Nat
      BY DEF Base, TMin, TMax
    <3> QED BY <1>1, <3>1, ThresholdRange
  <2> QED BY <1>1, <2>1
<1>6. s.x + 1 \in 1 .. Len(p) + 1 /\ s.k + Base \in Nat
  <2>1. s.x + 1 \in 1 .. Len(p) + 1
    BY <1>1, <1>2
  <2>2. \A k \in Nat : k + Base \in Nat
    BY DEF Base
  <2> QED BY <1>1, <2>1, <2>2
<1> QED BY <1>1, <1>2, <1>4, <1>5, <1>6 DEF NextDigit, IntegerStates

(* The recursion of Integer is well-founded.                               *)
LEMMA IntegerUnfolds ==
  ASSUME NEW p \in Seq(Nat), NEW bias \in Nat
  PROVE  Integer(p, bias) =
           [s \in IntegerStates(p) |->
              IF NoDigit(p, bias, s) THEN [end |-> 0, value |-> 0]
              ELSE IF IsLastDigit(p, bias, s)
              THEN [end |-> s.x + 1, value |-> WithDigit(p, s)]
              ELSE Integer(p, bias)[NextDigit(p, bias, s)]]
<1> DEFINE S       == IntegerStates(p)
           ends    == {s \in S : NoDigit(p, bias, s) \/ IsLastDigit(p, bias, s)}
           result  == [s \in S |->
                         IF NoDigit(p, bias, s) THEN [end |-> 0, value |-> 0]
                         ELSE [end |-> s.x + 1, value |-> WithDigit(p, s)]]
           next    == [s \in S |-> NextDigit(p, bias, s)]
           measure == [s \in S |-> Len(p) + 1 - s.x]
           From(f) == [s \in S |->
                         IF NoDigit(p, bias, s) THEN [end |-> 0, value |-> 0]
                         ELSE IF IsLastDigit(p, bias, s)
                         THEN [end |-> s.x + 1, value |-> WithDigit(p, s)]
                         ELSE f[NextDigit(p, bias, s)]]
<1>1. \A s \in S : measure[s] \in 0 .. Len(p) + 1
  BY DEF IntegerStates
<1>2. \A s \in S \ ends : next[s] \in S /\ measure[next[s]] < measure[s]
  <2> SUFFICES ASSUME NEW s \in S \ ends
               PROVE  next[s] \in S /\ measure[next[s]] < measure[s]
    OBVIOUS
  <2>1. /\ s.x \in 1 .. Len(p) /\ Len(p) \in Nat
        /\ NextDigit(p, bias, s) \in S /\ NextDigit(p, bias, s).x = s.x + 1
    BY NextDigitType
  <2> QED BY <2>1
<1>3. \E f : IsTailRecursive(f, S, ends, result, next)
  <2> HIDE DEF S, ends, result, next, measure
  <2>1. Len(p) + 1 \in Nat
    OBVIOUS
  <2> QED BY <1>1, <1>2, <2>1, TailRecursionExists
<1>4. ASSUME NEW f, IsTailRecursive(f, S, ends, result, next)
      PROVE  f = From(f)
  <2>1. \A s \in S : (IF s \in ends THEN result[s] ELSE f[next[s]]) = From(f)[s]
    OBVIOUS
  <2> HIDE DEF S, ends, result, next
  <2>2. f = [s \in S |-> IF s \in ends THEN result[s] ELSE f[next[s]]]
    BY <1>4 DEF IsTailRecursive
  <2>3. From(f) = [s \in S |-> From(f)[s]]
    OBVIOUS
  <2> HIDE DEF From
  <2> QED BY <2>1, <2>2, <2>3
<1>5. Integer(p, bias) = CHOOSE f : f = From(f)
  BY Zenon DEF Integer
<1> HIDE DEF From
<1>6. Integer(p, bias) = From(Integer(p, bias))
  BY <1>3, <1>4, <1>5
<1> QED BY <1>6 DEF From

(* An integer ends behind its first digit or later, and it only grows.     *)
LEMMA IntegerType ==
  ASSUME NEW p \in Seq(Nat), NEW bias \in Nat, NEW s \in IntegerStates(p)
  PROVE  \/ Integer(p, bias)[s].end = 0
         \/ /\ Integer(p, bias)[s].end \in s.x + 1 .. Len(p) + 1
            /\ Integer(p, bias)[s].value \in Nat
            /\ Integer(p, bias)[s].value >= s.i
<1> DEFINE I == Integer(p, bias)
           Right(t) == \/ I[t].end = 0
                       \/ /\ I[t].end \in t.x + 1 .. Len(p) + 1
                          /\ I[t].value \in Nat /\ I[t].value >= t.i
           S     == IntegerStates(p)
           wrong == {t \in S : ~Right(t)}
           at    == {t.x : t \in wrong}
<1>1. SUFFICES ASSUME wrong # {} PROVE FALSE
  OBVIOUS
<1>2. PICK t \in wrong : \A y \in wrong : y.x <= t.x
  <2>1. at \in SUBSET (0 .. Len(p) + 1) /\ at # {} /\ Len(p) + 1 \in Int
    BY <1>1 DEF IntegerStates
  <2>2. \E m \in at : \A y \in at : y <= m
    <3> HIDE DEF at
    <3> QED BY <2>1, RangeHasGreatest
  <2> QED BY <2>2
<1>3. t \in S /\ ~Right(t)
  BY <1>2
<1>4. I[t] = IF NoDigit(p, bias, t) THEN [end |-> 0, value |-> 0]
             ELSE IF IsLastDigit(p, bias, t)
             THEN [end |-> t.x + 1, value |-> WithDigit(p, t)]
             ELSE I[NextDigit(p, bias, t)]
  <2> HIDE DEF I
  <2>1. I = [s_1 \in S |->
              IF NoDigit(p, bias, s_1) THEN [end |-> 0, value |-> 0]
              ELSE IF IsLastDigit(p, bias, s_1)
              THEN [end |-> s_1.x + 1, value |-> WithDigit(p, s_1)]
              ELSE I[NextDigit(p, bias, s_1)]]
    BY IntegerUnfolds DEF I
  <2> QED BY <1>3, <2>1, Zenon
<1>5. CASE NoDigit(p, bias, t)
  BY <1>3, <1>4, <1>5
<1>6. CASE ~NoDigit(p, bias, t)
  <2> DEFINE u == NextDigit(p, bias, t)
  <2>1. /\ t.x \in 1 .. Len(p) /\ Len(p) \in Nat /\ t.i \in Nat
        /\ WithDigit(p, t) \in Nat /\ WithDigit(p, t) >= t.i
        /\ u \in S /\ u.x = t.x + 1 /\ u.i = WithDigit(p, t)
    BY <1>3, <1>6, NextDigitType
  <2>2. CASE IsLastDigit(p, bias, t)
    <3>1. I[t] = [end |-> t.x + 1, value |-> WithDigit(p, t)]
      BY <1>4, <1>6, <2>2
    <3>2. I[t].end \in t.x + 1 .. Len(p) + 1
      <4> HIDE DEF I
      <4> QED BY <2>1, <3>1
    <3>3. I[t].value \in Nat /\ I[t].value >= t.i
      <4> HIDE DEF I
      <4> QED BY <2>1, <3>1
    <3> QED BY <1>3, <3>2, <3>3
  <2>3. CASE ~IsLastDigit(p, bias, t)
    <3>1. I[t] = I[u]
      BY <1>4, <1>6, <2>3
    <3>2. u \notin wrong
      <4> HIDE DEF wrong, u
      <4> QED BY <1>2, <2>1
    <3>3. Right(u)
      BY <2>1, <3>2
    <3>4. I[u].end \in u.x + 1 .. Len(p) + 1 => I[u].end \in t.x + 1 .. Len(p) + 1
      <4> HIDE DEF I, u
      <4> QED BY <2>1
    <3>5. I[u].value >= u.i /\ I[u].value \in Nat => I[u].value >= t.i
      <4> HIDE DEF I, u
      <4> QED BY <2>1
    <3> HIDE DEF I, u
    <3> QED BY <1>3, <3>1, <3>3, <3>4, <3>5
  <2> QED BY <2>2, <2>3
<1> QED BY <1>5, <1>6

(* The integer of a state.                                                 *)
LEMMA IntegerOfType ==
  ASSUME NEW p \in Seq(Nat), NEW s \in DecoderStates(p)
  PROVE  \/ IntegerOf(p, s).end = 0
         \/ /\ IntegerOf(p, s).end \in s.x + 1 .. Len(p) + 1
            /\ IntegerOf(p, s).value \in Nat
            /\ IntegerOf(p, s).value >= s.i
<1> DEFINE t == [x |-> s.x, i |-> s.i, w |-> 1, k |-> Base]
<1>1. s.bias \in Nat /\ t \in IntegerStates(p)
  BY DEF DecoderStates, IntegerStates, Base
<1>2. t.x = s.x /\ t.i = s.i /\ IntegerOf(p, s) = Integer(p, s.bias)[t]
  BY DEF IntegerOf
<1> HIDE DEF t
<1> QED BY <1>1, <1>2, IntegerType

(* A text with one code point more.                                        *)
LEMMA InsertionType ==
  ASSUME NEW c \in Seq(Nat), NEW place \in 0 .. Len(c), NEW point \in Nat
  PROVE  LET e == SubSeq(c, 1, place) \o <<point>> \o SubSeq(c, place + 1, Len(c))
         IN  e \in Seq(Nat) /\ Len(e) = Len(c) + 1
<1> DEFINE a == SubSeq(c, 1, place)
           b == SubSeq(c, place + 1, Len(c))
<1>1. Len(c) \in Nat
  OBVIOUS
<1>2. a \in Seq(Nat) /\ Len(a) = place
  BY <1>1
<1>3. b \in Seq(Nat) /\ Len(b) = Len(c) - place
  BY <1>1
<1> HIDE DEF a, b
<1>4. a \o <<point>> \o b \in Seq(Nat) /\ Len(a \o <<point>> \o b) = Len(c) + 1
  <2>1. a \o <<point>> \in Seq(Nat) /\ Len(a \o <<point>>) = place + 1
    BY <1>2
  <2> QED BY <1>1, <1>3, <2>1
<1> QED BY <1>4 DEF a, b

(* What an insertion leads to.                                             *)
LEMMA InsertedType ==
  ASSUME NEW p \in Seq(Nat), NEW s \in DecoderStates(p), NEW basics \in Nat,
         NEW integer, integer.end \in s.x + 1 .. Len(p) + 1,
         integer.value \in Nat, integer.value >= s.i
  PROVE  /\ Inserted(s, integer, basics) \in DecoderStates(p)
         /\ Inserted(s, integer, basics).x = integer.end
<1> DEFINE length == Len(s.c) + 1
           place  == integer.value % length
           point  == NextPoint(s, integer)
<1>1. /\ s.x \in 1 .. Len(p) + 1 /\ s.n \in Nat /\ s.i \in Nat /\ s.bias \in Nat
      /\ s.c \in Seq(Nat) /\ Len(p) \in Nat
  BY DEF DecoderStates
<1>2. length \in Nat /\ length > 0 /\ Len(s.c) \in Nat
  <2>1. Len(s.c) \in Nat
    BY <1>1
  <2> QED BY <2>1
<1>3. place \in 0 .. Len(s.c) /\ integer.value \div length \in Nat
  <2> HIDE DEF length
  <2>1. place \in 0 .. length - 1 /\ integer.value \div length \in Nat
    BY <1>2, QuotientIsNat
  <2> QED BY <1>2, <2>1 DEF length
<1>4. point \in Nat
  <2>1. \A turns \in Nat : s.n + turns \in Nat
    BY <1>1
  <2> QED BY <1>3, <2>1, Zenon DEF NextPoint
<1>5. AdaptBias(integer.value - s.i, length, Len(s.c) = basics) \in Nat
  <2>1. integer.value - s.i \in Nat /\ (Len(s.c) = basics) \in BOOLEAN
    BY <1>1
  <2> HIDE DEF length
  <2> QED BY <1>2, <2>1, AdaptBiasIsNat
<1>6. SubSeq(s.c, 1, place) \o <<point>> \o SubSeq(s.c, place + 1, Len(s.c))
        \in Seq(Nat)
  <2> HIDE DEF place, point
  <2> QED BY <1>1, <1>3, <1>4, InsertionType
<1>7. integer.end \in 1 .. Len(p) + 1 /\ place + 1 \in Nat
  <2> HIDE DEF place
  <2> QED BY <1>1, <1>2, <1>3
<1>8. Inserted(s, integer, basics) =
        [x |-> integer.end, n |-> point, i |-> place + 1,
         bias |-> AdaptBias(integer.value - s.i, length, Len(s.c) = basics),
         c |-> SubSeq(s.c, 1, place) \o <<point>>
                 \o SubSeq(s.c, place + 1, Len(s.c))]
  BY DEF Inserted
<1> DEFINE bias == AdaptBias(integer.value - s.i, length, Len(s.c) = basics)
           text == SubSeq(s.c, 1, place) \o <<point>>
                     \o SubSeq(s.c, place + 1, Len(s.c))
<1>9. bias \in Nat /\ text \in Seq(Nat)
  BY <1>5, <1>6
<1>10. Inserted(s, integer, basics) =
         [x |-> integer.end, n |-> point, i |-> place + 1, bias |-> bias, c |-> text]
  BY <1>8
<1> HIDE DEF length, place, point, bias, text
<1> QED BY <1>4, <1>7, <1>9, <1>10 DEF DecoderStates

(* The recursion of Decoding is well-founded, too.                         *)
LEMMA DecodingUnfolds ==
  ASSUME NEW p \in Seq(Nat), NEW basics \in Nat
  PROVE  Decoding(p, basics) =
           [s \in DecoderStates(p) |->
              IF s.x > Len(p) THEN [ok |-> TRUE, text |-> s.c]
              ELSE IF NoInsertion(s, IntegerOf(p, s)) THEN Malformed
              ELSE Decoding(p, basics)[Inserted(s, IntegerOf(p, s), basics)]]
<1> DEFINE S       == DecoderStates(p)
           ends    == {s \in S : s.x > Len(p) \/ NoInsertion(s, IntegerOf(p, s))}
           result  == [s \in S |-> IF s.x > Len(p) THEN [ok |-> TRUE, text |-> s.c]
                                   ELSE Malformed]
           next    == [s \in S |-> Inserted(s, IntegerOf(p, s), basics)]
           measure == [s \in S |-> Len(p) + 1 - s.x]
           From(f) == [s \in S |->
                         IF s.x > Len(p) THEN [ok |-> TRUE, text |-> s.c]
                         ELSE IF NoInsertion(s, IntegerOf(p, s)) THEN Malformed
                         ELSE f[Inserted(s, IntegerOf(p, s), basics)]]
<1>1. \A s \in S : measure[s] \in 0 .. Len(p) + 1
  BY DEF DecoderStates
<1>2. \A s \in S \ ends : next[s] \in S /\ measure[next[s]] < measure[s]
  <2> SUFFICES ASSUME NEW s \in S \ ends
               PROVE  next[s] \in S /\ measure[next[s]] < measure[s]
    OBVIOUS
  <2>1. s \in S /\ ~NoInsertion(s, IntegerOf(p, s))
    OBVIOUS
  <2>2. IntegerOf(p, s).end # 0
    BY <2>1 DEF NoInsertion
  <2>3. /\ IntegerOf(p, s).end \in s.x + 1 .. Len(p) + 1
        /\ IntegerOf(p, s).value \in Nat /\ IntegerOf(p, s).value >= s.i
    BY <2>1, <2>2, IntegerOfType
  <2> DEFINE u == Inserted(s, IntegerOf(p, s), basics)
  <2>4. u \in S /\ u.x = IntegerOf(p, s).end
    BY <2>1, <2>3, InsertedType
  <2>5. s.x \in 1 .. Len(p) + 1 /\ Len(p) \in Nat
    BY <2>1 DEF DecoderStates
  <2>6. next[s] = u
    BY <2>1
  <2> HIDE DEF u, S, next
  <2> QED BY <2>1, <2>3, <2>4, <2>5, <2>6
<1>3. \E f : IsTailRecursive(f, S, ends, result, next)
  <2> HIDE DEF S, ends, result, next, measure
  <2>1. Len(p) + 1 \in Nat
    OBVIOUS
  <2> QED BY <1>1, <1>2, <2>1, TailRecursionExists
<1>4. ASSUME NEW f, IsTailRecursive(f, S, ends, result, next)
      PROVE  f = From(f)
  <2>1. \A s \in S : (IF s \in ends THEN result[s] ELSE f[next[s]]) = From(f)[s]
    OBVIOUS
  <2> HIDE DEF S, ends, result, next
  <2>2. f = [s \in S |-> IF s \in ends THEN result[s] ELSE f[next[s]]]
    BY <1>4 DEF IsTailRecursive
  <2>3. From(f) = [s \in S |-> From(f)[s]]
    OBVIOUS
  <2> HIDE DEF From
  <2> QED BY <2>1, <2>2, <2>3
<1>5. Decoding(p, basics) = CHOOSE f : f = From(f)
  BY Zenon DEF Decoding
<1> HIDE DEF From
<1>6. Decoding(p, basics) = From(Decoding(p, basics))
  BY <1>3, <1>4, <1>5
<1> QED BY <1>6 DEF From

-----------------------------------------------------------------------------
(* Reading back what is being written: what the decoding of d makes of     *)
(* whatever may still be written behind it.                                *)

(* Where the decoding starts when the first b characters are basic ones.   *)
StartOf(d, b) ==
  [x |-> IF b > 0 THEN b + 2 ELSE 1, n |-> InitialN, i |-> 0,
   bias |-> InitialBias, c |-> SubSeq(d, 1, b)]

(* It gets to state s,                                                     *)
Reaches(d, b, s) ==
  \A r \in Seq(Nat) : Decoding(d \o r, b)[StartOf(d, b)] = Decoding(d \o r, b)[s]

(* the integer of which goes on behind d from here,                        *)
ReadsOn(d, s, i, w, k) ==
  \A r \in Seq(Nat) :
    IntegerOf(d \o r, s)
      = Integer(d \o r, s.bias)[[x |-> Len(d) + 1, i |-> i, w |-> w, k |-> k]]

(* or is complete.                                                         *)
Reads(d, s, value) ==
  \A r \in Seq(Nat) : IntegerOf(d \o r, s) = [end |-> Len(d) + 1, value |-> value]

(* The first b characters of d are basic ones, those behind the delimiter  *)
(* are digits.                                                             *)
IsEncoded(d, b) ==
  /\ b \in 0 .. Len(d) /\ \A x \in 1 .. b : IsBasic(d[x])
  /\ b > 0 => b + 1 <= Len(d) /\ d[b + 1] = Delimiter
  /\ \A x \in 1 .. Len(d) : (b > 0 => x > b + 1) => d[x] # Delimiter

(* Whatever may be written behind a longer text is part of what may be     *)
(* written behind d.                                                       *)
LEMMA ConcatIsAssociative ==
  ASSUME NEW d \in Seq(Nat), NEW t \in Seq(Nat), NEW r \in Seq(Nat)
  PROVE  /\ (d \o t) \o r = d \o (t \o r) /\ t \o r \in Seq(Nat)
         /\ (d \o t) \o r \in Seq(Nat)
OBVIOUS

(* The beginning of a text stays the same.                                 *)
LEMMA BeginningStays ==
  ASSUME NEW d \in Seq(Nat), NEW t \in Seq(Nat), NEW b \in 0 .. Len(d)
  PROVE  SubSeq(d \o t, 1, b) = SubSeq(d, 1, b)
<1>1. /\ Len(d) \in Nat /\ Len(d \o t) = Len(d) + Len(t) /\ Len(t) \in Nat
      /\ d \o t \in Seq(Nat)
      /\ \A x \in 1 .. Len(d) : (d \o t)[x] = d[x]
  BY ConcatUnits
<1> DEFINE e == d \o t
<1> HIDE DEF e
<1>2. /\ e \in Seq(Nat) /\ b \in 0 .. Len(e) /\ Len(e) \in Nat
      /\ \A x \in 1 .. b : e[x] = d[x]
  BY <1>1 DEF e
<1>3. SubSeq(e, 1, b) \in Seq(Nat) /\ Len(SubSeq(e, 1, b)) = b
      /\ \A x \in 1 .. b : SubSeq(e, 1, b)[x] = e[x]
  BY <1>2
<1>4. SubSeq(d, 1, b) \in Seq(Nat) /\ Len(SubSeq(d, 1, b)) = b
      /\ \A x \in 1 .. b : SubSeq(d, 1, b)[x] = d[x]
  BY <1>1
<1>5. SubSeq(e, 1, b) = SubSeq(d, 1, b)
  BY <1>2, <1>3, <1>4
<1> QED BY <1>5 DEF e

(* So what has been reached stays reached.                                 *)
LEMMA ReachedStays ==
  ASSUME NEW d \in Seq(Nat), NEW t \in Seq(Nat), NEW b \in 0 .. Len(d), NEW s,
         Reaches(d, b, s)
  PROVE  Reaches(d \o t, b, s)
<1>1. StartOf(d \o t, b) = StartOf(d, b)
  BY BeginningStays DEF StartOf
<1>2. ASSUME NEW r \in Seq(Nat)
      PROVE  Decoding((d \o t) \o r, b)[StartOf(d, b)] = Decoding((d \o t) \o r, b)[s]
  <2>1. (d \o t) \o r = d \o (t \o r) /\ t \o r \in Seq(Nat)
    BY ConcatIsAssociative
  <2> QED BY <2>1 DEF Reaches
<1> QED BY <1>1, <1>2, Zenon DEF Reaches

(* The digits are read as the numbers that they were written for, and      *)
(* none of them is a delimiter.                                            *)
LEMMA DigitsAreRead ==
  ASSUME NEW digit \in 0 .. Base - 1
  PROVE  /\ DigitToBasic(digit) \in Nat /\ DigitToBasic(digit) # Delimiter
         /\ DecodeDigit(DigitToBasic(digit)) = digit
BY DEF Base, DigitToBasic, DecodeDigit, Delimiter

(* What the largest integer is divided by.                                 *)
LEMMA MaxIntIsDivided == \A z \in Nat : z > 0 => MaxInt \div z \in Nat
BY IntWidth, QuotientIsNat

(* One more digit of an integer, as long as the arithmetic has room.       *)
LEMMA DigitIsRead ==
  ASSUME NEW d \in Seq(Nat), NEW s, s.bias \in Nat,
         NEW i \in Nat, NEW w \in Nat, NEW k \in Nat, w > 0,
         NEW digit \in 0 .. Base - 1,
         ReadsOn(d, s, i, w, k), digit <= (MaxInt - i) \div w,
         digit >= Threshold(k, s.bias) =>
           w <= MaxInt \div (Base - Threshold(k, s.bias))
  PROVE  LET t == Threshold(k, s.bias)
             e == d \o <<DigitToBasic(digit)>>
         IN  IF digit < t THEN Reads(e, s, i + digit * w)
             ELSE ReadsOn(e, s, i + digit * w, w * (Base - t), k + Base)
<1> DEFINE t == Threshold(k, s.bias)
           c == DigitToBasic(digit)
           e == d \o <<c>>
           a == [x |-> Len(d) + 1, i |-> i, w |-> w, k |-> k]
<1>0. digit >= t => w <= MaxInt \div (Base - t)
  OBVIOUS
<1>1. c \in Nat /\ DecodeDigit(c) = digit /\ digit \in Nat /\ t \in TMin .. TMax
  <2>1. t \in TMin .. TMax
    BY ThresholdRange
  <2>2. c \in Nat /\ DecodeDigit(c) = digit
    BY DigitsAreRead
  <2>3. digit \in Nat
    BY DEF Base
  <2> QED BY <2>1, <2>2, <2>3
<1> HIDE DEF t, c
<1>2. Len(d) \in Nat /\ Len(e) = Len(d) + 1 /\ e \in Seq(Nat)
  BY <1>1
<1>3. ASSUME NEW r \in Seq(Nat)
      PROVE  IntegerOf(e \o r, s) =
               IF digit < t THEN [end |-> Len(d) + 2, value |-> i + digit * w]
               ELSE Integer(e \o r, s.bias)
                      [[x |-> Len(d) + 2, i |-> i + digit * w,
                        w |-> w * (Base - t), k |-> k + Base]]
  <2> DEFINE p == e \o r
  <2>1. p = d \o (<<c>> \o r) /\ <<c>> \o r \in Seq(Nat) /\ p \in Seq(Nat)
    BY <1>1, ConcatIsAssociative, SMTT(30)
  <2>2. Len(p) = Len(d) + 1 + Len(r) /\ Len(r) \in Nat /\ p[Len(d) + 1] = c
    BY <1>1, <1>2
  <2> HIDE DEF p
  <2>3. IntegerOf(p, s) = Integer(p, s.bias)[a]
    BY <2>1, Zenon DEF ReadsOn
  <2>4. a \in IntegerStates(p) /\ a.x = Len(d) + 1 /\ a.i = i /\ a.w = w /\ a.k = k
    BY <1>2, <2>2 DEF IntegerStates
  <2> HIDE DEF a
  <2>5. Integer(p, s.bias)[a] =
          IF NoDigit(p, s.bias, a) THEN [end |-> 0, value |-> 0]
          ELSE IF IsLastDigit(p, s.bias, a)
          THEN [end |-> a.x + 1, value |-> WithDigit(p, a)]
          ELSE Integer(p, s.bias)[NextDigit(p, s.bias, a)]
    <3> DEFINE I == Integer(p, s.bias)
    <3> HIDE DEF I
    <3>1. I = [z \in IntegerStates(p) |->
                 IF NoDigit(p, s.bias, z) THEN [end |-> 0, value |-> 0]
                 ELSE IF IsLastDigit(p, s.bias, z)
                 THEN [end |-> z.x + 1, value |-> WithDigit(p, z)]
                 ELSE I[NextDigit(p, s.bias, z)]]
      BY <2>1, IntegerUnfolds DEF I
    <3>2. I[a] = IF NoDigit(p, s.bias, a) THEN [end |-> 0, value |-> 0]
                 ELSE IF IsLastDigit(p, s.bias, a)
                 THEN [end |-> a.x + 1, value |-> WithDigit(p, a)]
                 ELSE I[NextDigit(p, s.bias, a)]
      BY <2>4, <3>1, Zenon
    <3> QED BY <3>2 DEF I
  <2>6. Digit(p, a) = digit
    BY <1>1, <2>2, <2>4 DEF Digit
  <2>7. WithDigit(p, a) = i + digit * w /\ (IsLastDigit(p, s.bias, a) <=> digit < t)
    BY <2>4, <2>6 DEF WithDigit, IsLastDigit, t
  <2>8. ~NoDigit(p, s.bias, a)
    <3>1. ~(a.x > Len(p)) /\ ~(digit < 0)
      BY <1>1, <1>2, <2>2, <2>4
    <3>2. (MaxInt - i) \div w \in Int /\ ~(digit > (MaxInt - i) \div w)
      BY <1>1, IntWidth
    <3>3. ~(digit < t) => ~(w > MaxInt \div (Base - t))
      <4>1. Base - t \in Nat /\ Base - t > 0
        BY <1>1 DEF Base, TMin, TMax
      <4>2. \A z \in Nat : z > 0 => MaxInt \div z \in Nat
        BY MaxIntIsDivided
      <4> DEFINE bound == MaxInt \div (Base - t)
      <4>3. bound \in Nat
        BY <4>1, <4>2
      <4>4. digit >= t => w <= bound
        BY <1>0
      <4>5. t \in Int
        BY <1>1 DEF TMin, TMax
      <4> HIDE DEF bound
      <4>6. ~(digit < t) => ~(w > bound)
        BY <1>1, <4>3, <4>4, <4>5
      <4> QED BY <4>6 DEF bound
    <3> QED BY <2>4, <2>6, <2>7, <3>1, <3>2, <3>3 DEF NoDigit, t
  <2>9. a.x + 1 = Len(d) + 2
    BY <1>2, <2>4
  <2>10. NextDigit(p, s.bias, a) =
           [x |-> Len(d) + 2, i |-> i + digit * w, w |-> w * (Base - t),
            k |-> k + Base]
    BY <2>4, <2>7, <2>9, Zenon DEF NextDigit, t
  <2>11. IntegerOf(p, s) =
               IF digit < t THEN [end |-> Len(d) + 2, value |-> i + digit * w]
               ELSE Integer(p, s.bias)
                      [[x |-> Len(d) + 2, i |-> i + digit * w,
                        w |-> w * (Base - t), k |-> k + Base]]
    BY <2>3, <2>5, <2>7, <2>8, <2>9, <2>10, Zenon
  <2> QED BY <2>11 DEF p
<1>4. Len(e) + 1 = Len(d) + 2
  BY <1>2
<1> HIDE DEF e
<1>5. CASE digit < t
  BY <1>3, <1>4, <1>5, Zenon DEF Reads, e, t, c
<1>6. CASE ~(digit < t)
  BY <1>3, <1>4, <1>6, Zenon DEF ReadsOn, e, t, c
<1> QED BY <1>5, <1>6 DEF e, t, c

(* A complete integer inserts a code point.                                *)
LEMMA InsertionIsRead ==
  ASSUME NEW d \in Seq(Nat), NEW b \in Nat, NEW s \in DecoderStates(d),
         s.x <= Len(d), NEW value, Reads(d, s, value), Reaches(d, b, s),
         ~NoInsertion(s, [end |-> Len(d) + 1, value |-> value])
  PROVE  Reaches(d, b, Inserted(s, [end |-> Len(d) + 1, value |-> value], b))
<1> DEFINE integer == [end |-> Len(d) + 1, value |-> value]
<1>1. ASSUME NEW r \in Seq(Nat)
      PROVE  Decoding(d \o r, b)[s] = Decoding(d \o r, b)[Inserted(s, integer, b)]
  <2> DEFINE p == d \o r
  <2>1. p \in Seq(Nat) /\ Len(p) = Len(d) + Len(r) /\ Len(r) \in Nat /\ Len(d) \in Nat
    BY ConcatUnits
  <2>2. IntegerOf(p, s) = integer
    BY DEF Reads
  <2> HIDE DEF p, integer
  <2>3. s \in DecoderStates(p) /\ ~(s.x > Len(p))
    <3>1. \A x \in 1 .. Len(d) + 1 : x <= Len(d) => x \in 1 .. Len(p) + 1 /\ ~(x > Len(p))
      BY <2>1
    <3> QED BY <3>1 DEF DecoderStates
  <2> DEFINE D == Decoding(p, b)
  <2> HIDE DEF D
  <2>4. D = [z \in DecoderStates(p) |->
               IF z.x > Len(p) THEN [ok |-> TRUE, text |-> z.c]
               ELSE IF NoInsertion(z, IntegerOf(p, z)) THEN Malformed
               ELSE D[Inserted(z, IntegerOf(p, z), b)]]
    BY <2>1, DecodingUnfolds DEF D
  <2>5. D[s] = IF s.x > Len(p) THEN [ok |-> TRUE, text |-> s.c]
               ELSE IF NoInsertion(s, IntegerOf(p, s)) THEN Malformed
               ELSE D[Inserted(s, IntegerOf(p, s), b)]
    BY <2>3, <2>4, Zenon
  <2>6. D[s] = D[Inserted(s, integer, b)]
    BY <2>2, <2>3, <2>5, Zenon DEF integer
  <2> QED BY <2>6 DEF D, p
<1> HIDE DEF integer
<1>2. Reaches(d, b, Inserted(s, integer, b))
  BY <1>1, Zenon DEF Reaches
<1> QED BY <1>2 DEF integer

(* What has been reached at the end is what the text stands for.           *)
LEMMA TextIsRead ==
  ASSUME NEW d \in Seq(Nat), NEW b, IsEncoded(d, b), Len(d) <= DecodeMaxChars,
         NEW s \in DecoderStates(d), s.x = Len(d) + 1, Reaches(d, b, s)
  PROVE  DecodedPoints(d) = [ok |-> TRUE, text |-> s.c]
<1> DEFINE delimiters == {x \in DOMAIN d : d[x] = Delimiter}
           IsLast(x) == \A y \in delimiters : y <= x
           last    == CHOOSE x \in delimiters \cup {1} : IsLast(x)
           basic   == SubSeq(d, 1, b)
<1>1. Len(d) \in Nat /\ b \in 0 .. Len(d) /\ b \in Nat /\ DOMAIN d = 1 .. Len(d)
  BY DEF IsEncoded
<1>2. last = b + 1
  <2>1. b + 1 \in delimiters \cup {1} /\ IsLast(b + 1)
    BY <1>1 DEF IsEncoded
  <2>2. \A x \in delimiters \cup {1} : IsLast(x) => x = b + 1
    <3>1. CASE b > 0
      BY <1>1, <3>1 DEF IsEncoded
    <3>2. CASE b = 0
      BY <1>1, <3>2 DEF IsEncoded
    <3> QED BY <1>1, <3>1, <3>2
  <2> HIDE DEF delimiters, IsLast
  <2> QED BY <2>1, <2>2
<1>3. \A x \in DOMAIN basic : IsBasic(basic[x])
  <2>1. Len(basic) = b /\ DOMAIN basic = 1 .. b /\ \A x \in 1 .. b : basic[x] = d[x]
    BY <1>1
  <2> QED BY <2>1 DEF IsEncoded
<1>4. (b + 1) - 1 = b /\ (b + 1) + 1 = b + 2
      /\ (IF b + 1 = 1 THEN 1 ELSE b + 2) = IF b > 0 THEN b + 2 ELSE 1
  BY <1>1
<1>5. DecodedPoints(d) = Decoding(d, b)[StartOf(d, b)]
  <2> HIDE DEF last
  <2>1. DecodedPoints(d) =
          LET start == [x |-> IF last = 1 THEN 1 ELSE last + 1,
                        n |-> InitialN, i |-> 0, bias |-> InitialBias,
                        c |-> SubSeq(d, 1, last - 1)]
          IN  IF /\ Len(d) <= DecodeMaxChars
                 /\ \A x \in DOMAIN SubSeq(d, 1, last - 1) :
                      IsBasic(SubSeq(d, 1, last - 1)[x])
              THEN Decoding(d, last - 1)[start] ELSE Malformed
    BY Zenon DEF DecodedPoints, last
  <2>2. DecodedPoints(d) =
          LET start == [x |-> IF b > 0 THEN b + 2 ELSE 1,
                        n |-> InitialN, i |-> 0, bias |-> InitialBias,
                        c |-> basic]
          IN  IF /\ Len(d) <= DecodeMaxChars
                 /\ \A x \in DOMAIN basic : IsBasic(basic[x])
              THEN Decoding(d, b)[start] ELSE Malformed
    BY <1>2, <1>4, <2>1, Zenon
  <2> HIDE DEF basic
  <2> QED BY <1>3, <2>2, Zenon DEF StartOf, basic
<1>6. d \o <<>> = d
  OBVIOUS
<1>7. Decoding(d, b)[StartOf(d, b)] = Decoding(d, b)[s]
  <2>1. <<>> \in Seq(Nat)
    OBVIOUS
  <2>2. Decoding(d \o <<>>, b)[StartOf(d, b)] = Decoding(d \o <<>>, b)[s]
    BY <2>1 DEF Reaches
  <2> QED BY <1>6, <2>2, Zenon
<1>8. Decoding(d, b)[s] = [ok |-> TRUE, text |-> s.c]
  <2> DEFINE D == Decoding(d, b)
  <2> HIDE DEF D
  <2>1. D = [z \in DecoderStates(d) |->
               IF z.x > Len(d) THEN [ok |-> TRUE, text |-> z.c]
               ELSE IF NoInsertion(z, IntegerOf(d, z)) THEN Malformed
               ELSE D[Inserted(z, IntegerOf(d, z), b)]]
    BY <1>1, DecodingUnfolds DEF D
  <2>2. D[s] = IF s.x > Len(d) THEN [ok |-> TRUE, text |-> s.c]
               ELSE IF NoInsertion(s, IntegerOf(d, s)) THEN Malformed
               ELSE D[Inserted(s, IntegerOf(d, s), b)]
    BY <2>1, Zenon
  <2>3. s.x > Len(d)
    BY <1>1
  <2>4. D[s] = [ok |-> TRUE, text |-> s.c]
    BY <2>2, <2>3, Zenon
  <2> QED BY <2>4 DEF D
<1> QED BY <1>5, <1>7, <1>8

(* The digits of a number have weights.  As long as the threshold is 1     *)
(* they are powers of 35; behind that it is 26 at once, or after one more. *)
IsWeight(w, k, bias) ==
  /\ w \in Nat /\ w > 0
  /\ k <= bias + Base =>
       w \in {1, 35, 1225, 42875, 1500625, 52521875, 1838265625}

(* Integers wide enough for all that an encoder may write: 35^6 is more    *)
(* than any delta, and no more than the largest integer.                   *)
WideIntegers ==
  /\ (MaxCodePoint + 1) * EncodeMaxCodeUnits <= 1838265625
  /\ 1838265625 <= MaxInt

(* A number and the rest of it.                                            *)
LEMMA DivisionIsExact ==
  ASSUME NEW a \in Nat, NEW b \in Nat, b > 0
  PROVE  /\ a \div b \in Nat /\ a % b \in 0 .. b - 1
         /\ a = b * (a \div b) + (a % b)
OBVIOUS

(* A digit that is not the last: what is written of it and what is left    *)
(* make the number, and neither the digit nor the next weight overflows.   *)
LEMMA DigitFits ==
  ASSUME WideIntegers, NEW i \in Nat, NEW q \in Nat, NEW k \in Nat,
         NEW bias \in Nat, NEW w, IsWeight(w, k, bias),
         i + q * w < 1838265625, q >= Threshold(k, bias)
  PROVE  LET t     == Threshold(k, bias)
             digit == t + ((q - t) % (Base - t))
             rest  == (q - t) \div (Base - t)
         IN  /\ digit \in t .. Base - 1 /\ rest \in Nat
             /\ digit <= (MaxInt - i) \div w /\ w <= MaxInt \div (Base - t)
             /\ i + digit * w \in Nat
             /\ (i + digit * w) + rest * (w * (Base - t)) = i + q * w
             /\ IsWeight(w * (Base - t), k + Base, bias)
<1> DEFINE t     == Threshold(k, bias)
           base  == Base - t
           digit == t + ((q - t) % base)
           rest  == (q - t) \div base
<1>1. t \in 1 .. 26 /\ w \in Nat /\ w > 0 /\ MaxInt \in Nat
  BY ThresholdRange, IntWidth DEF TMin, TMax, IsWeight
<1>2. k + Base <= bias + Base => t = 1
  BY DEF Threshold, Base, TMin, TMax
<1>3. k > bias + Base => t = 26
  BY DEF Threshold, Base, TMin, TMax
<1>4. q >= t
  OBVIOUS
<1> HIDE DEF t
<1>5. base \in 10 .. 35 /\ base = 36 - t
  BY <1>1 DEF Base
<1> HIDE DEF base
<1>6. q - t \in Nat
  BY <1>1, <1>4
<1>7. /\ rest \in Nat /\ (q - t) % base \in 0 .. base - 1
      /\ q - t = base * rest + ((q - t) % base)
  <2>1. base \in Nat /\ base > 0
    BY <1>5
  <2> DEFINE m == q - t
  <2>2. m \in Nat
    BY <1>6
  <2> HIDE DEF m
  <2>3. m \div base \in Nat /\ m % base \in 0 .. base - 1
        /\ m = base * (m \div base) + (m % base)
    BY <2>1, <2>2, DivisionIsExact
  <2> QED BY <2>3 DEF m
<1> HIDE DEF rest
<1>8. digit \in t .. 35 /\ digit \in Nat /\ q = digit + base * rest
  <2> DEFINE m == (q - t) % base
  <2>1. m \in 0 .. base - 1 /\ q - t = base * rest + m /\ digit = t + m
    BY <1>7
  <2>2. base * rest \in Nat
    BY <1>5, <1>7
  <2> HIDE DEF m, digit
  <2> DEFINE product == base * rest
  <2>3. product \in Nat /\ q - t = product + m /\ q = digit + product
    <3>1. product \in Nat /\ q - t = product + m
      BY <2>1, <2>2
    <3> HIDE DEF product
    <3> QED BY <1>1, <1>5, <1>6, <2>1, <3>1
  <2> QED BY <1>1, <1>5, <2>1, <2>3
<1> HIDE DEF digit
<1>9. /\ digit * w \in Nat /\ base * w \in Nat /\ rest * (base * w) \in Nat
      /\ q * w = digit * w + rest * (base * w)
  <2>1. digit * w \in Nat /\ base * w \in Nat
    BY <1>1, <1>5, <1>8
  <2>2. rest * (base * w) \in Nat
    BY <1>7, <2>1
  <2>3. (digit + base * rest) * w = digit * w + rest * (base * w)
    BY <1>1, <1>5, <1>7, <1>8
  <2> QED BY <1>8, <2>1, <2>2, <2>3
<1>10. digit * w <= 1838265624 - i /\ digit * w <= MaxInt - i /\ MaxInt - i \in Nat
  <2> DEFINE a == digit * w
             e == rest * (base * w)
             s == q * w
  <2>1. a \in Nat /\ e \in Nat /\ s = a + e /\ i + s < 1838265625
    BY <1>9
  <2> HIDE DEF a, e, s
  <2>2. a <= 1838265624 - i /\ a <= MaxInt - i /\ MaxInt - i \in Nat
    BY <1>1, <2>1 DEF WideIntegers
  <2> QED BY <2>2 DEF a
<1>11. digit <= (MaxInt - i) \div w
  <2> DEFINE m == MaxInt - i
             z == m \div w
             x == m % w
  <2>1. m \in Nat /\ digit * w <= m
    BY <1>10
  <2> HIDE DEF m
  <2>2. z \in Nat /\ x \in 0 .. w - 1 /\ m = w * z + x
    BY <1>1, <2>1, DivisionIsExact
  <2> HIDE DEF x, z
  <2>3. digit <= z
    <3> SUFFICES ASSUME digit >= z + 1 PROVE FALSE
      BY <1>8, <2>2
    <3>1. digit * w >= (z + 1) * w
      BY <1>1, <1>8, <2>2
    <3>2. (z + 1) * w = w * z + w /\ w * z \in Nat
      BY <1>1, <2>2
    <3> DEFINE a == digit * w
               e == w * z
    <3>3. a \in Nat /\ e \in Nat /\ a >= e + w /\ m = e + x /\ a <= m
      BY <1>9, <2>1, <2>2, <3>1, <3>2
    <3> HIDE DEF a, e
    <3> QED BY <1>1, <2>2, <3>3
  <2> QED BY <2>3 DEF z, m
<1>12. w * base <= 1838265625 /\ (k + Base <= bias + Base => base = 35 /\ w # 1838265625)
  <2>1. w * t <= 1838265624
    <3>1. w * t <= digit * w
      BY <1>1, <1>8
    <3> DEFINE a == digit * w
               e == w * t
    <3>2. a \in Nat /\ e \in Nat /\ a <= 1838265624 - i /\ e <= a
      BY <1>1, <1>9, <1>10, <3>1
    <3> HIDE DEF a, e
    <3>3. e <= 1838265624
      BY <3>2
    <3> QED BY <3>3 DEF e
  <2>2. CASE k <= bias + Base
    <3>1. w \in {1, 35, 1225, 42875, 1500625, 52521875, 1838265625}
      BY <2>2 DEF IsWeight
    <3>2. w # 1838265625
      BY <1>1, <2>1
    <3>3. w <= 52521875
      BY <3>1, <3>2
    <3>4. w * base <= 52521875 * 35
      BY <1>1, <1>5, <3>3
    <3> QED BY <1>2, <1>5, <3>2, <3>4
  <2>3. CASE ~(k <= bias + Base)
    <3>1. k > bias + Base /\ ~(k + Base <= bias + Base)
      BY <2>3 DEF Base
    <3>2. t = 26 /\ base = 10
      BY <1>3, <1>5, <3>1
    <3>3. w <= 70702524
      BY <1>1, <2>1, <3>2
    <3> QED BY <1>1, <3>1, <3>2, <3>3
  <2> QED BY <2>2, <2>3
<1>13. w <= MaxInt \div base
  <2> DEFINE z == MaxInt \div base
             x == MaxInt % base
  <2>1. base \in Nat /\ base > 0
    BY <1>5
  <2>2. z \in Nat /\ x \in 0 .. base - 1 /\ MaxInt = base * z + x
    BY <1>1, <2>1, DivisionIsExact
  <2> HIDE DEF x, z
  <2>3. w <= z
    <3> SUFFICES ASSUME w >= z + 1 PROVE FALSE
      BY <1>1, <2>2
    <3>1. w * base >= (z + 1) * base
      BY <1>1, <2>1, <2>2
    <3>2. (z + 1) * base = base * z + base /\ base * z \in Nat
      BY <2>1, <2>2
    <3> DEFINE a == w * base
               e == base * z
    <3>3. a \in Nat /\ e \in Nat /\ a >= e + base /\ MaxInt = e + x /\ a <= MaxInt
      BY <1>1, <1>12, <2>1, <2>2, <3>1, <3>2 DEF WideIntegers
    <3> HIDE DEF a, e
    <3> QED BY <2>1, <2>2, <3>3
  <2> QED BY <2>3 DEF z
<1>14. IsWeight(w * base, k + Base, bias)
  <2>1. w * base \in Nat /\ w * base > 0
    BY <1>1, <1>5
  <2>2. ASSUME k + Base <= bias + Base
        PROVE  w * base \in {1, 35, 1225, 42875, 1500625, 52521875, 1838265625}
    <3>1. k <= bias + Base
      BY <2>2 DEF Base
    <3>2. w \in {1, 35, 1225, 42875, 1500625, 52521875} /\ base = 35
      BY <1>12, <2>2, <3>1 DEF IsWeight
    <3> QED BY <3>2
  <2> QED BY <2>1, <2>2 DEF IsWeight
<1>15. (i + digit * w) + rest * (w * base) = i + q * w
  <2>1. w * base = base * w
    BY <1>1, <1>5
  <2> DEFINE a == digit * w
             e == rest * (base * w)
             s == q * w
  <2>2. a \in Nat /\ e \in Nat /\ s = a + e
    BY <1>9
  <2>3. (i + a) + e = i + s
    <3> HIDE DEF a, e, s
    <3> QED BY <2>2
  <2> QED BY <2>1, <2>3
<1>16. i + digit * w \in Nat
  <2> DEFINE a == digit * w
  <2>1. a \in Nat
    BY <1>9
  <2> HIDE DEF a
  <2>2. i + a \in Nat
    BY <2>1
  <2> QED BY <2>2 DEF a
<1>17. digit \in t .. Base - 1
  BY <1>8 DEF Base
<1> QED BY <1>7, <1>11, <1>13, <1>14, <1>15, <1>16, <1>17 DEF t, base, digit, rest

(* The last digit.                                                         *)
LEMMA LastDigitFits ==
  ASSUME WideIntegers, NEW i \in Nat, NEW q \in Nat, NEW k \in Nat,
         NEW bias \in Nat, NEW w, IsWeight(w, k, bias),
         i + q * w < 1838265625, q < Threshold(k, bias)
  PROVE  q \in 0 .. Base - 1 /\ q <= (MaxInt - i) \div w
<1>1. q \in 0 .. Base - 1
  <2>1. Threshold(k, bias) \in 1 .. 26
    BY ThresholdRange DEF TMin, TMax
  <2> QED BY <2>1 DEF Base
<1>2. w \in Nat /\ w > 0 /\ MaxInt \in Nat
  BY IntWidth DEF IsWeight
<1> DEFINE m == MaxInt - i
           z == m \div w
           x == m % w
           a == q * w
<1>3. a \in Nat /\ i + a < 1838265625
  BY <1>2
<1>4. m \in Nat /\ a <= m
  <2> HIDE DEF a
  <2> QED BY <1>2, <1>3 DEF WideIntegers
<1> HIDE DEF m
<1>5. z \in Nat /\ x \in 0 .. w - 1 /\ m = w * z + x
  BY <1>2, <1>4, DivisionIsExact
<1> HIDE DEF x, z
<1>6. q <= z
  <2> SUFFICES ASSUME q >= z + 1 PROVE FALSE
    BY <1>5
  <2>1. q * w >= (z + 1) * w
    BY <1>2, <1>5
  <2>2. (z + 1) * w = w * z + w /\ w * z \in Nat
    BY <1>2, <1>5
  <2> DEFINE e == w * z
  <2>3. e \in Nat /\ a >= e + w /\ m = e + x
    BY <1>5, <2>1, <2>2
  <2> HIDE DEF a, e
  <2> QED BY <1>2, <1>3, <1>4, <1>5, <2>3
<1> QED BY <1>1, <1>6 DEF z, m

-----------------------------------------------------------------------------
(* A part of a text: c holds the code points of t at the positions of S,   *)
(* in the order of t.                                                      *)
UpTo(S, x) == Cardinality({y \in S : y <= x})

IsTextOf(c, t, S) ==
  /\ c \in Seq(Nat) /\ Len(c) = Cardinality(S)
  /\ \A x \in S : c[UpTo(S, x)] = t[x]

(* How many positions precede one.                                         *)
LEMMA UpToType ==
  ASSUME NEW m \in Nat, NEW S \in SUBSET (1 .. m)
  PROVE  /\ IsFiniteSet(S) /\ Cardinality(S) \in 0 .. m
         /\ \A x \in Int : UpTo(S, x) \in 0 .. Cardinality(S)
         /\ \A x \in S : UpTo(S, x) >= 1
         /\ \A x \in Int, y \in Int : x <= y => UpTo(S, x) <= UpTo(S, y)
<1>1. IsFiniteSet(1 .. m) /\ Cardinality(1 .. m) = m
  <2>1. 1 \in Int /\ m \in Int
    OBVIOUS
  <2>2. /\ IsFiniteSet(1 .. m)
        /\ Cardinality(1 .. m) = IF 1 > m THEN 0 ELSE m - 1 + 1
    BY <2>1, FS_Interval, Zenon
  <2> QED BY <2>2
<1>2. \A T \in SUBSET (1 .. m) :
        IsFiniteSet(T) /\ Cardinality(T) \in Nat /\ Cardinality(T) <= m
  BY <1>1, FS_Subset, FS_CardinalityType
<1>3. \A T \in SUBSET (1 .. m) : \A U \in SUBSET T : Cardinality(U) <= Cardinality(T)
  BY <1>2, FS_Subset
<1>4. ASSUME NEW x \in Int PROVE UpTo(S, x) \in 0 .. Cardinality(S)
  <2>1. {y \in S : y <= x} \in SUBSET (1 .. m) /\ {y \in S : y <= x} \in SUBSET S
    OBVIOUS
  <2>2. UpTo(S, x) \in Nat /\ UpTo(S, x) <= Cardinality(S) /\ Cardinality(S) \in Nat
    BY <1>2, <1>3, <2>1 DEF UpTo
  <2> QED BY <2>2
<1>5. ASSUME NEW x \in S PROVE UpTo(S, x) >= 1
  <2>0. x \in Int /\ x <= x
    OBVIOUS
  <2>1. {x} \in SUBSET {y \in S : y <= x} /\ {y \in S : y <= x} \in SUBSET (1 .. m)
    BY <2>0, Zenon
  <2>2. Cardinality({x}) = 1
    BY FS_Singleton
  <2>3. Cardinality({x}) <= UpTo(S, x)
    BY <1>3, <2>1 DEF UpTo
  <2>4. x \in Int
    OBVIOUS
  <2> QED BY <1>4, <2>2, <2>3, <2>4
<1>6. ASSUME NEW x \in Int, NEW y \in Int, x <= y PROVE UpTo(S, x) <= UpTo(S, y)
  <2>0. \A z \in S : z <= x => z <= y
    BY <1>6
  <2>1. {z \in S : z <= x} \in SUBSET {z \in S : z <= y}
        /\ {z \in S : z <= y} \in SUBSET (1 .. m)
    BY <2>0, Zenon
  <2> QED BY <1>3, <2>1 DEF UpTo
<1>7. IsFiniteSet(S) /\ Cardinality(S) \in 0 .. m
  BY <1>2
<1> QED BY <1>4, <1>5, <1>6, <1>7

(* One position more.                                                      *)
LEMMA UpToGrows ==
  ASSUME NEW m \in Nat, NEW S \in SUBSET (1 .. m), NEW z \in 1 .. m, z \notin S
  PROVE  /\ Cardinality(S \cup {z}) = Cardinality(S) + 1
         /\ \A x \in Int : x < z => UpTo(S \cup {z}, x) = UpTo(S, x)
         /\ \A x \in Int : x >= z => UpTo(S \cup {z}, x) = UpTo(S, x) + 1
<1>1. Cardinality(S \cup {z}) = Cardinality(S) + 1
  BY UpToType, FS_AddElement
<1>2. ASSUME NEW x \in Int, x < z PROVE UpTo(S \cup {z}, x) = UpTo(S, x)
  <2>1. {y \in S \cup {z} : y <= x} = {y \in S : y <= x}
    BY <1>2
  <2> QED BY <2>1 DEF UpTo
<1>3. ASSUME NEW x \in Int, x >= z PROVE UpTo(S \cup {z}, x) = UpTo(S, x) + 1
  <2> DEFINE T == {y \in S : y <= x}
  <2>1. {y \in S \cup {z} : y <= x} = T \cup {z}
    BY <1>3
  <2>2. z \notin T /\ T \in SUBSET (1 .. m)
    OBVIOUS
  <2> HIDE DEF T
  <2>3. IsFiniteSet(T)
    BY <2>2, UpToType
  <2>4. Cardinality(T \cup {z}) = Cardinality(T) + 1
    BY <2>2, <2>3, FS_AddElement
  <2> QED BY <2>1, <2>4 DEF UpTo, T
<1> QED BY <1>1, <1>2, <1>3

(* The position itself does not count before it is there.                  *)
LEMMA UpToNext ==
  ASSUME NEW S, NEW x \in Nat, S \subseteq Nat, x + 1 \notin S
  PROVE  UpTo(S, x + 1) = UpTo(S, x)
<1>1. \A y \in S : y <= x + 1 <=> y <= x
  <2> SUFFICES ASSUME NEW y \in S PROVE y <= x + 1 <=> y <= x
    OBVIOUS
  <2>1. y \in Nat /\ y # x + 1
    OBVIOUS
  <2> QED BY <2>1
<1>2. {y \in S : y <= x + 1} = {y \in S : y <= x}
  BY <1>1, Zenon
<1> QED BY <1>2 DEF UpTo

(* One unit put into a string.                                             *)
LEMMA InsertedUnits ==
  ASSUME NEW c \in Seq(Nat), NEW u \in 0 .. Len(c), NEW p \in Nat
  PROVE  /\ Spliced(c, u, <<p>>) \in Seq(Nat)
         /\ Len(Spliced(c, u, <<p>>)) = Len(c) + 1
         /\ \A y \in 1 .. u : Spliced(c, u, <<p>>)[y] = c[y]
         /\ Spliced(c, u, <<p>>)[u + 1] = p
         /\ \A y \in u + 1 .. Len(c) : Spliced(c, u, <<p>>)[y + 1] = c[y]
<1> DEFINE t == <<p>>
           e == Spliced(c, u, t)
<1>1. t \in Seq(Nat) /\ Len(t) = 1 /\ t[1] = p /\ 1 \in 1 .. Len(t)
  OBVIOUS
<1> HIDE DEF t
<1>2. /\ e \in Seq(Nat)
      /\ Len(e) = Len(c) + Len(t)
      /\ \A y \in 1 .. u : e[y] = c[y]
      /\ \A y \in 1 .. Len(t) : e[u + y] = t[y]
      /\ \A y \in u + 1 .. Len(c) : e[y + Len(t)] = c[y]
  BY <1>1, SplicedUnits, ZenonT(60)
<1> HIDE DEF e
<1>3. /\ e \in Seq(Nat) /\ Len(e) = Len(c) + 1
      /\ \A y \in 1 .. u : e[y] = c[y]
      /\ e[u + 1] = p
      /\ \A y \in u + 1 .. Len(c) : e[y + 1] = c[y]
  BY <1>1, <1>2
<1> QED BY <1>3 DEF e, t

(* The code point at the position is put behind those that precede it.     *)
LEMMA TextGrows ==
  ASSUME NEW t \in Seq(Nat), NEW S \in SUBSET (1 .. Len(t)), NEW c, IsTextOf(c, t, S),
         NEW z \in 1 .. Len(t), z \notin S
  PROVE  /\ UpTo(S, z) \in 0 .. Len(c)
         /\ IsTextOf(Spliced(c, UpTo(S, z), <<t[z]>>), t, S \cup {z})
<1> DEFINE u == UpTo(S, z)
           e == Spliced(c, u, <<t[z]>>)
           T == S \cup {z}
<1>1. /\ Len(t) \in Nat /\ z \in Int /\ t[z] \in Nat /\ <<t[z]>> \in Seq(Nat)
      /\ Len(<<t[z]>>) = 1 /\ <<t[z]>>[1] = t[z] /\ \A x \in S : x \in Int
      /\ T \in SUBSET (1 .. Len(t))
  OBVIOUS
<1>8. /\ Cardinality(T) = Cardinality(S) + 1
      /\ \A x \in Int : x < z => UpTo(T, x) = UpTo(S, x)
      /\ \A x \in Int : x >= z => UpTo(T, x) = UpTo(S, x) + 1
  BY <1>1, UpToGrows
<1>9. \A R \in SUBSET (1 .. Len(t)) :
        /\ Cardinality(R) \in 0 .. Len(t)
        /\ \A x \in Int : UpTo(R, x) \in 0 .. Cardinality(R)
        /\ \A x \in R : UpTo(R, x) >= 1
        /\ \A x \in Int, y \in Int : x <= y => UpTo(R, x) <= UpTo(R, y)
  BY <1>1, UpToType
<1> HIDE DEF T
<1>2. c \in Seq(Nat) /\ Len(c) = Cardinality(S) /\ Len(c) \in Nat
  BY DEF IsTextOf
<1>3. u \in 0 .. Len(c)
  BY <1>1, <1>2, <1>9
<1> HIDE DEF u
<1>4. /\ e \in Seq(Nat) /\ Len(e) = Len(c) + 1
      /\ \A y \in 1 .. u : e[y] = c[y]
      /\ e[u + 1] = t[z]
      /\ \A y \in u + 1 .. Len(c) : e[y + 1] = c[y]
  <2> DEFINE p == t[z]
  <2>1. p \in Nat /\ c \in Seq(Nat) /\ u \in 0 .. Len(c)
    BY <1>1, <1>2, <1>3
  <2> HIDE DEF p
  <2>2. /\ Spliced(c, u, <<p>>) \in Seq(Nat)
        /\ Len(Spliced(c, u, <<p>>)) = Len(c) + 1
        /\ \A y \in 1 .. u : Spliced(c, u, <<p>>)[y] = c[y]
        /\ Spliced(c, u, <<p>>)[u + 1] = p
        /\ \A y \in u + 1 .. Len(c) : Spliced(c, u, <<p>>)[y + 1] = c[y]
    BY <2>1, InsertedUnits, Zenon
  <2> QED BY <2>2, Zenon DEF p
<1> HIDE DEF e
<1>5. Len(e) = Cardinality(T)
  BY <1>2, <1>4, <1>8
<1>6. ASSUME NEW x \in S PROVE e[UpTo(T, x)] = t[x]
  <2> DEFINE v == UpTo(S, x)
  <2>1. c[v] = t[x] /\ v \in 1 .. Len(c) /\ x \in Int /\ x # z
    <3>1. v >= 1 /\ v \in 0 .. Cardinality(S)
      BY <1>1, <1>9
    <3> QED BY <1>1, <1>2, <3>1 DEF IsTextOf
  <2>2. CASE x < z
    <3>1. UpTo(T, x) = v
      BY <1>8, <2>1, <2>2
    <3>2. v <= u
      <4>1. \A a \in Int, y \in Int : a <= y => UpTo(S, a) <= UpTo(S, y)
        BY <1>9
      <4>2. z \in Int /\ x <= z
        BY <1>1, <2>1, <2>2
      <4>3. UpTo(S, x) <= UpTo(S, z)
        BY <2>1, <4>1, <4>2, Zenon
      <4> QED BY <4>3 DEF u
    <3> HIDE DEF v
    <3> QED BY <1>3, <1>4, <2>1, <3>1, <3>2
  <2>3. CASE x > z
    <3>1. UpTo(T, x) = v + 1
      BY <1>1, <1>8, <2>1, <2>3
    <3>2. u + 1 <= v
      <4>1. z + 1 <= x /\ z + 1 \in Int
        BY <1>1, <2>1, <2>3
      <4>2. UpTo(T, z) = u + 1 /\ UpTo(T, z) <= UpTo(T, x - 1)
        <5>1. T \in SUBSET (1 .. Len(t)) /\ x - 1 \in Int /\ z <= x - 1
          BY <1>1, <2>1, <2>3
        <5>2. UpTo(T, z) <= UpTo(T, x - 1)
          BY <1>1, <1>9, <5>1
        <5>3. UpTo(T, z) = UpTo(S, z) + 1
          BY <1>1, <1>8
        <5> QED BY <5>2, <5>3 DEF u
      <4>3. UpTo(T, x - 1) = UpTo(S, x - 1) + 1
        <5>1. x - 1 \in Int /\ x - 1 >= z
          BY <1>1, <2>1, <4>1
        <5> QED BY <1>8, <5>1
      <4>4. UpTo(S, x - 1) + 1 <= v
        <5> DEFINE R == S \ {x}
        <5>1. R \in SUBSET (1 .. Len(t)) /\ x \notin R /\ R \cup {x} = S
              /\ x \in 1 .. Len(t) /\ x - 1 \in Int /\ x - 1 < x
          BY <2>1
        <5> HIDE DEF R
        <5>2. UpTo(S, x) = UpTo(R, x) + 1 /\ UpTo(S, x - 1) = UpTo(R, x - 1)
          <6>1. /\ Cardinality(R \cup {x}) = Cardinality(R) + 1
                /\ \A y \in Int : y < x => UpTo(R \cup {x}, y) = UpTo(R, y)
                /\ \A y \in Int : y >= x => UpTo(R \cup {x}, y) = UpTo(R, y) + 1
            BY <1>1, <5>1, UpToGrows, Zenon
          <6>2. x >= x /\ x \in Int
            BY <2>1
          <6> QED BY <5>1, <6>1, <6>2, Zenon
        <5>3. UpTo(R, x - 1) <= UpTo(R, x) /\ UpTo(R, x) \in 0 .. Cardinality(R)
              /\ UpTo(R, x - 1) \in 0 .. Cardinality(R)
          <6>1. x - 1 <= x
            BY <2>1
          <6> QED BY <1>9, <2>1, <5>1, <6>1
        <5> QED BY <5>2, <5>3
      <4>5. UpTo(S, x - 1) \in Int
        <5>1. x - 1 \in Int
          BY <2>1
        <5>2. UpTo(S, x - 1) \in 0 .. Cardinality(S)
          BY <1>9, <5>1
        <5> QED BY <5>2
      <4> HIDE DEF v
      <4> QED BY <1>3, <2>1, <4>2, <4>3, <4>4, <4>5
    <3> HIDE DEF v
    <3> QED BY <1>3, <1>4, <2>1, <3>1, <3>2
  <2> QED BY <1>1, <2>1, <2>2, <2>3
<1>7. e[UpTo(T, z)] = t[z]
  <2>1. UpTo(T, z) = u + 1
    BY <1>1, <1>8 DEF u
  <2> QED BY <1>4, <2>1
<1> QED BY <1>3, <1>4, <1>5, <1>6, <1>7 DEF IsTextOf, e, u, T

(* With every position the text is there.                                  *)
LEMMA TextIsComplete ==
  ASSUME NEW t \in Seq(Nat), NEW c, IsTextOf(c, t, 1 .. Len(t))
  PROVE  c = t
<1>1. Len(t) \in Nat /\ c \in Seq(Nat) /\ Len(c) = Len(t)
  <2>1. Len(t) \in Nat /\ 1 \in Int /\ Len(t) \in Int
    OBVIOUS
  <2>2. Cardinality(1 .. Len(t)) = IF 1 > Len(t) THEN 0 ELSE Len(t) - 1 + 1
    BY <2>1, FS_Interval, Zenon
  <2> QED BY <2>1, <2>2 DEF IsTextOf
<1>2. ASSUME NEW x \in 1 .. Len(t) PROVE c[x] = t[x]
  <2>1. {y \in 1 .. Len(t) : y <= x} = 1 .. x /\ 1 \in Int /\ x \in Int /\ x >= 1
    BY <1>1
  <2>2. Cardinality(1 .. x) = IF 1 > x THEN 0 ELSE x - 1 + 1
    BY <2>1, FS_Interval, Zenon
  <2>3. UpTo(1 .. Len(t), x) = x
    <3>1. UpTo(1 .. Len(t), x) = Cardinality(1 .. x)
      BY <2>1 DEF UpTo
    <3> QED BY <2>1, <2>2, <3>1
  <2> QED BY <2>3 DEF IsTextOf
<1>3. c = [x \in 1 .. Len(c) |-> c[x]] /\ t = [x \in 1 .. Len(t) |-> t[x]]
  BY <1>1
<1>4. [x \in 1 .. Len(c) |-> c[x]] = [x \in 1 .. Len(t) |-> t[x]]
  BY <1>1, <1>2, Zenon
<1> QED BY <1>3, <1>4, Zenon

(* The last position: its code point goes to the end.                      *)
LEMMA TextGoesOn ==
  ASSUME NEW t \in Seq(Nat), NEW S \in SUBSET (1 .. Len(t)), NEW c, IsTextOf(c, t, S),
         NEW z \in 1 .. Len(t), \A x \in S : x < z
  PROVE  IsTextOf(c \o <<t[z]>>, t, S \cup {z})
<1>1. z \notin S /\ Len(t) \in Nat /\ t[z] \in Nat
  OBVIOUS
<1>2. c \in Seq(Nat) /\ Len(c) = Cardinality(S) /\ Len(c) \in Nat
  BY DEF IsTextOf
<1>3. UpTo(S, z) = Len(c)
  <2>1. \A y \in S : y <= z
    OBVIOUS
  <2>2. {y \in S : y <= z} = S
    BY <2>1, Zenon
  <2> QED BY <1>2, <2>2 DEF UpTo
<1>4. Spliced(c, Len(c), <<t[z]>>) = c \o <<t[z]>>
  <2>1. SubSeq(c, 1, Len(c)) = c /\ SubSeq(c, Len(c) + 1, Len(c)) = <<>>
    BY <1>2
  <2> DEFINE e == c \o <<t[z]>>
  <2>2. e \in Seq(Nat)
    BY <1>1, <1>2
  <2>3. e \o <<>> = e
    <3> HIDE DEF e
    <3> QED BY <2>2
  <2> QED BY <2>1, <2>3 DEF Spliced
<1>5. IsTextOf(Spliced(c, UpTo(S, z), <<t[z]>>), t, S \cup {z})
  BY <1>1, TextGrows
<1> QED BY <1>3, <1>4, <1>5

(* A number of whole turns and a place.                                    *)
LEMMA TurnsAndPlace ==
  \A turns, m \in Nat : m > 0 =>
    \A place \in 0 .. m - 1 :
      (turns * m + place) \div m = turns /\ (turns * m + place) % m = place
<1> SUFFICES ASSUME NEW turns \in Nat, NEW m \in Nat, m > 0, NEW place \in 0 .. m - 1
             PROVE  /\ (turns * m + place) \div m = turns
                    /\ (turns * m + place) % m = place
  OBVIOUS
<1>0. PICK value : value = turns * m + place
  OBVIOUS
<1>1. turns * m \in Nat /\ value \in Nat /\ place \in Nat
  BY <1>0
<1>2. /\ value \div m \in Nat /\ value % m \in 0 .. m - 1
      /\ value = m * (value \div m) + (value % m)
  BY <1>1, DivisionIsExact
<1> DEFINE v == value \div m
           r == value % m
<1>3. v \in Nat /\ r \in 0 .. m - 1 /\ v * m + r = turns * m + place
  BY <1>0, <1>2
<1> HIDE DEF v, r
<1>4. \A a, z \in Nat : a < z => a * m + m <= z * m
  <2> SUFFICES ASSUME NEW a \in Nat, NEW z \in Nat, a < z PROVE a * m + m <= z * m
    OBVIOUS
  <2>1. a + 1 <= z
    OBVIOUS
  <2>2. (a + 1) * m <= z * m
    BY <2>1
  <2>3. (a + 1) * m = a * m + m
    OBVIOUS
  <2> QED BY <2>2, <2>3
<1>5. v = turns
  <2> DEFINE e == v * m
             f == turns * m
  <2>1. /\ e \in Nat /\ f \in Nat /\ e + r = f + place
        /\ v < turns => e + m <= f
        /\ turns < v => f + m <= e
    BY <1>3, <1>4
  <2> HIDE DEF e, f
  <2> QED BY <1>3, <2>1
<1>6. r = place
  <2> DEFINE f == turns * m
  <2>1. f \in Nat /\ f + r = f + place
    BY <1>1, <1>3, <1>5
  <2> HIDE DEF f
  <2> QED BY <1>3, <2>1
<1>7. value \div m = turns /\ value % m = place
  BY <1>5, <1>6 DEF v, r
<1> QED BY <1>0, <1>7, Zenon

(* The decoder reads the number of turns and the place of the code point   *)
(* that has been written.                                                  *)
LEMMA CodePointIsRead ==
  ASSUME NEW d \in Seq(Nat), NEW b \in Nat, NEW s \in DecoderStates(d),
         s.x <= Len(d), NEW turns \in Nat, NEW place \in 0 .. Len(s.c),
         NEW value, value = turns * (Len(s.c) + 1) + place,
         Reads(d, s, value), Reaches(d, b, s),
         s.n + turns <= MaxCodePoint, ~IsSurrogate(s.n + turns)
  PROVE  Reaches(d, b,
           [x |-> Len(d) + 1, n |-> s.n + turns, i |-> place + 1,
            bias |-> AdaptBias(value - s.i, Len(s.c) + 1, Len(s.c) = b),
            c |-> Spliced(s.c, place, <<s.n + turns>>)])
<1> DEFINE integer == [end |-> Len(d) + 1, value |-> value]
           length  == Len(s.c) + 1
<1>1. /\ s.c \in Seq(Nat) /\ s.n \in Nat /\ Len(s.c) \in Nat /\ Len(d) \in Nat
      /\ length \in Nat /\ length > 0 /\ place \in 0 .. length - 1
  BY DEF DecoderStates
<1>2. value \div length = turns /\ value % length = place
  <2> HIDE DEF length
  <2>1. value = turns * length + place
    BY DEF length
  <2>2. \A m \in Nat : m > 0 /\ place \in 0 .. m - 1 =>
          (turns * m + place) \div m = turns /\ (turns * m + place) % m = place
    BY TurnsAndPlace, Zenon
  <2> QED BY <1>1, <2>1, <2>2, Zenon
<1>3. integer.end = Len(d) + 1 /\ integer.value = value /\ integer.end # 0
  BY <1>1
<1> HIDE DEF integer
<1>4. NextPoint(s, integer) = s.n + turns
  BY <1>2, <1>3 DEF NextPoint
<1>5. ~NoInsertion(s, integer)
  BY <1>1, <1>3, <1>4, MaxCodePointIsNat DEF NoInsertion
<1>6. Inserted(s, integer, b) =
        [x |-> Len(d) + 1, n |-> s.n + turns, i |-> place + 1,
         bias |-> AdaptBias(value - s.i, length, Len(s.c) = b),
         c |-> Spliced(s.c, place, <<s.n + turns>>)]
  BY <1>2, <1>3, <1>4, Zenon DEF Inserted, Spliced
<1>7. Reaches(d, b, Inserted(s, integer, b))
  BY <1>5, InsertionIsRead DEF integer
<1> QED BY <1>6, <1>7, Zenon

(* What delta counts at the head of a round, and from one to the next.     *)
LEMMA RoundCounts ==
  ASSUME NEW delta \in Nat, NEW i \in Nat, NEW n \in Nat, NEW start \in Nat,
         NEW h \in Nat, NEW m \in Nat, start <= n, n <= m
  PROVE  /\ delta + i = (n - start) * (h + 1) + 0 =>
              (delta + (m - n) * (h + 1)) + i = (m - start) * (h + 1) + 0
         /\ delta + i = (n - start) * (h + 1) + h =>
              (delta + 1) + i = ((n + 1) - start) * (h + 1) + 0
<1> DEFINE a == n - start
           z == m - n
           l == h + 1
<1>1. /\ a \in Nat /\ z \in Nat /\ l \in Nat /\ m - start = a + z
      /\ (n + 1) - start = a + 1 /\ l = h + 1
  OBVIOUS
<1>2. (a + z) * l = a * l + z * l /\ (a + 1) * l = a * l + l
  <2> HIDE DEF a, z, l
  <2> QED BY <1>1
<1> DEFINE f == a * l
           g == z * l
<1>3. f \in Nat /\ g \in Nat
  <2> HIDE DEF a, z, l
  <2> QED BY <1>1
<1>4. (m - start) * l = f + g /\ ((n + 1) - start) * l = f + l
  <2>1. (m - start) * l = (a + z) * l /\ ((n + 1) - start) * l = (a + 1) * l
    BY <1>1
  <2> HIDE DEF a, z, l
  <2> QED BY <1>2, <2>1
<1>5. delta + i = f + 0 => (delta + g) + i = (f + g) + 0
  <2> HIDE DEF f, g
  <2> QED BY <1>3
<1>6. delta + i = f + h => (delta + 1) + i = (f + l) + 0
  <2> HIDE DEF f
  <2> QED BY <1>1, <1>3
<1> QED BY <1>4, <1>5, <1>6

(* What delta counts is less than what the wide integers have room for.    *)
LEMMA CountFits ==
  ASSUME WideIntegers, NEW turns \in Nat, turns <= MaxCodePoint, NEW h \in Nat,
         h + 1 <= EncodeMaxCodeUnits, NEW place \in 0 .. h
  PROVE  turns * (h + 1) + place < 1838265625
<1>1. MaxCodePoint \in Nat
  BY MaxCodePointIsNat
<1>2. turns * (h + 1) <= MaxCodePoint * 1000
  <2>1. turns * (h + 1) <= MaxCodePoint * (h + 1)
    BY <1>1
  <2>2. MaxCodePoint * (h + 1) <= MaxCodePoint * 1000
    BY <1>1 DEF EncodeMaxCodeUnits
  <2>3. turns * (h + 1) \in Nat /\ MaxCodePoint * (h + 1) \in Nat
    BY <1>1
  <2> QED BY <1>1, <2>1, <2>2, <2>3
<1>3. MaxCodePoint * 1000 + 1000 <= 1838265625
  BY <1>1 DEF WideIntegers, EncodeMaxCodeUnits
<1>4. place <= 999
  BY DEF EncodeMaxCodeUnits
<1> DEFINE f == turns * (h + 1)
<1>5. f \in Nat
  OBVIOUS
<1> HIDE DEF f
<1> QED BY <1>1, <1>2, <1>3, <1>4, <1>5 DEF f
=============================================================================
