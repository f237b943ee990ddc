------------------------- MODULE CanonicalOrdering --------------------------
(***************************************************************************)
(* The canonical order of a text, as Unicode defines it: between two       *)
(* characters of combining class 0 the others stand in the order of their  *)
(* classes, equal classes in the order in which they came.                 *)
(***************************************************************************)
EXTENDS Integers, Sequences, FiniteSets

CONSTANT CC(_)   (* the canonical combining class of a code point          *)

(* The position in s of a character decides with its class where it goes:  *)
(* first by how many characters of class 0 precede it or are it.           *)
Block(s, x) == Cardinality({y \in 1 .. x : CC(s[y]) = 0})

Precedes(s, x, y) ==
  \/ Block(s, x) < Block(s, y)
  \/ /\ Block(s, x) = Block(s, y)
     /\ \/ CC(s[x]) < CC(s[y])
        \/ CC(s[x]) = CC(s[y]) /\ x < y

IsCanonical(s) ==
  \A x \in 1 .. Len(s) - 1 : CC(s[x + 1]) = 0 \/ CC(s[x]) <= CC(s[x + 1])

(* How many characters of s go before the one at position x.               *)
Rank(s, x) == Cardinality({y \in DOMAIN s : Precedes(s, y, x)})

CanonicalOrder(s) ==
  IF IsCanonical(s) THEN s
  ELSE [p \in DOMAIN s |-> s[CHOOSE x \in DOMAIN s : Rank(s, x) = p - 1]]
=============================================================================
