--------------------------- MODULE CharacterEnums ---------------------------
(***************************************************************************)
(* The enums of u_char.h: the values of the properties of characters.  An  *)
(* enum is the sequence of its names from 0 on, under the short names of   *)
(* the Unicode standard; scripts are numbers, with names for those that    *)
(* the label checks know.                                                  *)
(***************************************************************************)
EXTENDS Integers

UCharCategory ==
  <<"Cn", "Lu", "Ll", "Lt", "Lm", "Lo", "Mn", "Me", "Mc", "Nd", "Nl", "No",
    "Zs", "Zl", "Zp", "Cc", "Cf", "Co", "Cs", "Pd", "Ps", "Pe", "Pc", "Po",
    "Sm", "Sc", "Sk", "So", "Pi", "Pf">>

UCharDirection ==
  <<"L", "R", "EN", "ES", "ET", "AN", "CS", "B", "S", "WS", "ON", "LRE",
    "LRO", "AL", "RLE", "RLO", "PDF", "NSM", "BN", "FSI", "LRI", "RLI", "PDI">>

UJoiningType == <<"U", "C", "D", "L", "R", "T">>

(* A set of categories is a bit mask in the code.                          *)
U_GC_M_MASK == {"Mn", "Me", "Mc"}
U_GC_Z_MASK == {"Zs", "Zl", "Zp"}

UScriptCode            == -1 .. 197
USCRIPT_INVALID_CODE   == -1
USCRIPT_COMMON         == 0
USCRIPT_INHERITED      == 1
USCRIPT_GREEK          == 14
USCRIPT_HAN            == 17
USCRIPT_HEBREW         == 19
USCRIPT_HIRAGANA       == 20
USCRIPT_KATAKANA       == 22
=============================================================================
