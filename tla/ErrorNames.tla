----------------------------- MODULE ErrorNames -----------------------------
(***************************************************************************)
(* What an error code is called: u_errorName() of u_types.cc, the          *)
(* enumeration of uidna.h it goes by, and idn2_strerror() and              *)
(* idn2_strerror_name(), which ask it for the negated result of a lookup.  *)
(* A name is the table that holds it and its index there; a table is the   *)
(* number of its strings, which differ from each other.                    *)
(***************************************************************************)
EXTENDS Integers

Families ==
  {"standard", "warning", "parse", "format", "break", "regex", "idna", "plugin"}

(* The first code of each family, and the code after its last one.         *)
Start ==
  [standard |-> 0,     warning |-> -128,  parse |-> 65536, format |-> 65792,
   break    |-> 66048, regex   |-> 66304, idna  |-> 66560, plugin |-> 66816]

Limit ==
  [standard |-> 32,    warning |-> -119,  parse |-> 65571, format |-> 65812,
   break    |-> 66062, regex   |-> 66326, idna  |-> 66569, plugin |-> 66818]

(* How many names the initializer of each table lists: an array of         *)
(* Limit - Start pointers is null beyond them.                             *)
NamesListed ==
  [standard |-> 32, warning |-> 9,  parse |-> 35, format |-> 20,
   break    |-> 14, regex   |-> 22, idna  |-> 9,  plugin |-> 2]

IsOf(code, family) == Start[family] <= code /\ code < Limit[family]

Bogus == [table |-> "bogus", index |-> 0]

(* The families do not overlap (FamiliesAreDisjoint), so that the order of *)
(* the tests in the code makes no difference.                              *)
u_errorName(code) ==
  IF \E f \in Families : IsOf(code, f)
  THEN LET f == CHOOSE g \in Families : IsOf(code, g)
       IN  [table |-> f, index |-> code - Start[f]]
  ELSE Bogus

(* rc is what a lookup function returned, and not the least int, whose     *)
(* negation does not exist.                                                *)
idn2_strerror(rc) ==
  IF rc = 0 THEN [table |-> "success", index |-> 0] ELSE u_errorName(-rc)

idn2_strerror_name(rc) ==
  IF rc = 0 THEN [table |-> "IDN2_OK", index |-> 0] ELSE u_errorName(-rc)

(* The sum of all UIDNA_ERROR_* bits: no lookup returns less than its      *)
(* negation.                                                               *)
AllErrorBits == 32767
=============================================================================
