--------------------------- MODULE Normalization ----------------------------
(***************************************************************************)
(* What the normalizer of u_norm2.cc computes with the UTS #46 data: every *)
(* code point is replaced by its mapping, which may be empty or U+FFFD and *)
(* is already decomposed, the result is brought into canonical order and   *)
(* composed again.  Unpaired surrogates pass through.                      *)
(***************************************************************************)
EXTENDS UTF16, CanonicalOrdering, SequencesExt

CONSTANTS
  Mapping(_),      (* the code points that stand for a code point          *)
  Composite(_, _)  (* the composition of two code points, or None          *)

None == -1

(* One character of a text in canonical order: it is composed with the     *)
(* last character of class 0 unless there is none, there is no composite,  *)
(* or a character that is not less than it stands between them.            *)
ComposeNext(done, c) ==
  LET starters == {x \in DOMAIN done : CC(done[x]) = 0}
      starter  == IF starters = {} THEN 0
                  ELSE CHOOSE x \in starters : \A y \in starters : y <= x
      blocked  == starter < Len(done) /\ CC(Last(done)) >= CC(c)
  IN  IF starter > 0 /\ ~blocked /\ Composite(done[starter], c) # None
      THEN [done EXCEPT ![starter] = Composite(done[starter], c)]
      ELSE Append(done, c)

Compose(s) == FoldLeft(ComposeNext, <<>>, s)

ToCodeUnits(s) == FlattenSeq([x \in DOMAIN s |-> CodeUnits(s[x])])

NormalizeCodePoints(s) ==
  Compose(CanonicalOrder(FlattenSeq([x \in DOMAIN s |-> Mapping(s[x])])))

(* Mutant: a text is not compared with what the normalizer makes of it.    *)
AnyIsNormalized(s) == TRUE

Normalize(s)    == ToCodeUnits(NormalizeCodePoints(CodePoints(s)))
IsNormalized(s) == Normalize(s) = s
=============================================================================
