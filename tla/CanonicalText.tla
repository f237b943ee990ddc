--------------------------- MODULE CanonicalText ----------------------------
(***************************************************************************)
(* What the reordering buffer promises its users: a text that is always in *)
(* canonical order, whatever is appended to it.  Appending may run out of  *)
(* memory, which ends the text.                                            *)
(***************************************************************************)
EXTENDS CanonicalOrdering

CONSTANTS
  CodePoint,   (* the code points a text is made of                        *)
  Texts        (* what it may begin with                                   *)

VARIABLES text, failed

Init ==
  /\ text \in {t \in Texts : IsCanonical(t)}
  /\ failed = FALSE

(* A code point, or a text that is in order itself.                        *)
AppendText(t) ==
  /\ ~failed
  /\ Len(text') = Len(text) + Len(t)
  /\ text' = CanonicalOrder(text \o t)
  /\ UNCHANGED failed

Cut(length) ==
  /\ ~failed
  /\ text' = SubSeq(text, 1, length)
  /\ UNCHANGED failed

Fail == ~failed /\ failed' = TRUE /\ UNCHANGED text

Next ==
  \/ \E length \in 0 .. Len(text) : Cut(length)
  \/ \E c \in CodePoint : AppendText(<<c>>)
  \/ \E t \in Texts : IsCanonical(t) /\ AppendText(t)
  \/ Fail

Spec == Init /\ [][Next]_<<text, failed>>
=============================================================================
