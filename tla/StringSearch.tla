---------------------------- MODULE StringSearch ----------------------------
(***************************************************************************)
(* The search for a part of a text: u_strFindFirst() of u_punycode.cc, and *)
(* u_strchr() and u_memchr() of u_types.h, which call each other.  A match *)
(* must not begin or end inside a surrogate pair.  A text either has a     *)
(* length, or ends with a NUL that is not among its units here; the result *)
(* is an index that counts from 0, or NotFound for a null pointer.         *)
(***************************************************************************)
EXTENDS UTF16

NotFound == -1

LeastOf(indexes) ==
  IF indexes = {} THEN NotFound
  ELSE CHOOSE i \in indexes : \A j \in indexes : i <= j

(* [match, matchLimit) of s cuts no pair, neither at its front nor at its  *)
(* back.  Behind a terminated text stands a NUL, which is no surrogate.    *)
isMatchAtCPBoundary(s, match, matchLimit) ==
  /\ match = 0 \/ ~(IsLead(s[match]) /\ IsTrail(s[match + 1]))
  /\ matchLimit = Len(s) \/ ~(IsLead(s[matchLimit]) /\ IsTrail(s[matchLimit + 1]))

IsMatch(s, sub, i) ==
  /\ i + Len(sub) <= Len(s)
  /\ \A k \in 1 .. Len(sub) : s[i + k] = sub[k]
  /\ isMatchAtCPBoundary(s, i, i + Len(sub))

(* All units from i to the NUL agree with sub, which is longer: the search *)
(* gives up.                                                               *)
RunsOut(s, sub, i) ==
  /\ i + Len(sub) > Len(s)
  /\ \A k \in 1 .. Len(s) - i : s[i + k] = sub[k]

(* The loop compares sub at one index after the other, and returns at the  *)
(* first where it matches or, in a terminated text, runs out.              *)
FoundBy(s, sub, isTerminated) ==
  LET stop == LeastOf({i \in 0 .. Len(s) - 1 :
                         IsMatch(s, sub, i) \/ (isTerminated /\ RunsOut(s, sub, i))})
  IN  IF stop # NotFound /\ IsMatch(s, sub, stop) THEN stop ELSE NotFound

(* Terminated: the NUL itself is found, too.                               *)
u_strchr(s, c) ==
  IF IsSurrogate(c) THEN FoundBy(s, <<c>>, TRUE)
  ELSE LeastOf({i \in 0 .. Len(s) : IF i = Len(s) THEN c = 0 ELSE s[i + 1] = c})

u_memchr(s, c) ==
  IF IsSurrogate(c) THEN FoundBy(s, <<c>>, FALSE)
  ELSE LeastOf({i \in 0 .. Len(s) - 1 : s[i + 1] = c})

(* For pointers that are not null, and lengths from -1 on.                 *)
u_strFindFirst(s, sub, isTerminated) ==
  IF sub = <<>> THEN 0
  ELSE IF Len(sub) > 1 \/ IsSurrogate(sub[1]) THEN FoundBy(s, sub, isTerminated)
  ELSE IF isTerminated THEN u_strchr(s, sub[1])
  ELSE u_memchr(s, sub[1])

-----------------------------------------------------------------------------
(* What a search is for: sub in s, from one code point boundary of s to    *)
(* another.  Just a NUL is only at the end of a terminated text.           *)
JustNul == <<0>>

Occurrences(s, sub) ==
  {i \in 0 .. Len(s) - Len(sub) :
     /\ SubSeq(s, i + 1, i + Len(sub)) = sub
     /\ IsBoundary(s, i) /\ IsBoundary(s, i + Len(sub))}
=============================================================================
