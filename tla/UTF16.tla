------------------------------- MODULE UTF16 --------------------------------
(***************************************************************************)
(* UTF-16 code units as u_macro.h handles them.  A code unit is a number;  *)
(* the layout of the surrogate blocks is a parameter, so that a small      *)
(* repertoire with every kind of code point can be explored.  The library  *)
(* is the instance FirstLead = 0xD800, FirstTrail = 0xDC00,                *)
(* TrailCount = 0x400, FirstSupplementary = 0x10000.                       *)
(*                                                                         *)
(* Indexes into strings count from 0, as in the code: unit i of s is       *)
(* s[i + 1].                                                               *)
(***************************************************************************)
EXTENDS Integers, Sequences, FiniteSets

CONSTANTS
  FirstLead,          (* the first lead surrogate                          *)
  FirstTrail,         (* the first trail surrogate, after all lead ones    *)
  TrailCount,         (* how many trail surrogates there are               *)
  FirstSupplementary  (* the first code point that takes two code units    *)

ASSUME SurrogateLayout ==
  /\ FirstLead \in Nat /\ FirstTrail \in Nat /\ TrailCount \in Nat
  /\ FirstSupplementary \in Nat
  /\ 128 < FirstLead /\ FirstLead < FirstTrail /\ 0 < TrailCount
  /\ FirstTrail + TrailCount <= FirstSupplementary

IsLead(c)      == FirstLead <= c /\ c < FirstTrail
IsTrail(c)     == FirstTrail <= c /\ c < FirstTrail + TrailCount
IsSurrogate(c) == FirstLead <= c /\ c < FirstTrail + TrailCount

MaxCodePoint ==
  FirstSupplementary + (FirstTrail - FirstLead) * TrailCount - 1

U16_LENGTH(c) == IF c < FirstSupplementary THEN 1 ELSE 2
U16_LEAD(c)   == FirstLead + (c - FirstSupplementary) \div TrailCount
U16_TRAIL(c)  == FirstTrail + ((c - FirstSupplementary) % TrailCount)
U16_GET_SUPPLEMENTARY(lead, trail) ==
  FirstSupplementary + (lead - FirstLead) * TrailCount + (trail - FirstTrail)

CodeUnits(c) ==
  IF U16_LENGTH(c) = 1 THEN <<c>> ELSE <<U16_LEAD(c), U16_TRAIL(c)>>

(* A lead surrogate at index i that starts a pair.                         *)
StartsPair(s, i) ==
  /\ i + 2 <= Len(s)
  /\ IsLead(s[i + 1])
  /\ IsTrail(s[i + 2])

(* Index i is not inside a surrogate pair.                                 *)
IsBoundary(s, i) == ~(i > 0 /\ StartsPair(s, i - 1))

CodePointAt(s, i) ==
  IF StartsPair(s, i) THEN U16_GET_SUPPLEMENTARY(s[i + 1], s[i + 2])
                      ELSE s[i + 1]

(* The number of code points that start in [i, limit).                     *)
CountCodePoints(s, i, limit) ==
  Cardinality({x \in i .. limit - 1 : IsBoundary(s, x)})

(* Where U16_FWD_N stops: n code points after index i, or at the end.      *)
U16_FWD_N(s, i, n) ==
  IF CountCodePoints(s, i, Len(s)) <= n THEN Len(s)
  ELSE CHOOSE x \in i .. Len(s) :
         IsBoundary(s, x) /\ CountCodePoints(s, i, x) = n

(* The code points of s, in order.                                         *)
CodePoints(s) ==
  LET from[i \in 0 .. Len(s)] ==
        IF i = Len(s) THEN <<>>
        ELSE <<CodePointAt(s, i)>>
               \o from[IF StartsPair(s, i) THEN i + 2 ELSE i + 1]
  IN  from[0]

IsWellFormed(s) ==
  \A x \in 0 .. Len(s) - 1 :
    IsSurrogate(s[x + 1]) =>
      StartsPair(s, x) \/ (x > 0 /\ StartsPair(s, x - 1))
=============================================================================
