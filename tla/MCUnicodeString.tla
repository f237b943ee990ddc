--------------------------- MODULE MCUnicodeString ---------------------------
(* Two strings, whose own buffers hold one unit, and texts that outgrow an *)
(* array on the heap.                                                      *)
EXTENDS UnicodeString, TLC

Strings   == Permutations(String)
Literally == <<1, 2>>
Outsides  == <<2, 1>>

(* States that differ only in what no string has as its text, or in which  *)
(* array is which, are one.                                                *)
Extent(p) ==
  Max({0} \cup {str[s].start + IF str[s].open THEN Len(value[s]) ELSE str[s].length :
                  s \in {t \in String : str[t].array = p}})

SeenOf(s) ==
  IF IsBogus(now, s) THEN <<>>
  ELSE LET p == str[s].array
       IN  <<{t \in String : str[t].array = p}, mem[p].refs,
             SubSeq(mem[p].units, 1, Extent(p))>>

Seen ==
  <<[s \in String |-> [str[s] EXCEPT !.array = SeenOf(s)]], value,
    mem[Literal], Cardinality({a \in Array : mem[a] # Free})>>
=============================================================================
