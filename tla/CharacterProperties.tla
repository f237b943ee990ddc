------------------------ MODULE CharacterProperties -------------------------
(***************************************************************************)
(* The properties of characters that the label checks ask for: u_char.cc   *)
(* keeps the general category and the script, u_bidi.cc the BiDi class and *)
(* the joining type.  Each is a few bits of a number that a trie holds for *)
(* the code point.                                                         *)
(***************************************************************************)
EXTENDS CharacterEnums, CharacterData

-----------------------------------------------------------------------------
GET_PROPS(c)        == UTRIE2_GET16(propsTrie, c)
GET_CATEGORY(props) == props % 32
u_charType(c)       == UCharCategory[GET_CATEGORY(GET_PROPS(c)) + 1]
U_GET_GC_MASK(c)    == {u_charType(c)}

NoBreakSpaces == {160, 8199, 8239}   (* NBSP, FIGURESP, NNBSP              *)
IS_THAT_ASCII_CONTROL_SPACE(c) == c \in 9 .. 13 \cup 28 .. 31
u_isWhitespace(c) ==
  \/ U_GET_GC_MASK(c) \cap U_GC_Z_MASK # {} /\ c \notin NoBreakSpaces
  \/ IS_THAT_ASCII_CONTROL_SPACE(c)

-----------------------------------------------------------------------------
BiDiProps(c)            == UTRIE2_GET16(ubidi_props_trie, c)
UBIDI_GET_CLASS(props)  == props % 32
UBIDI_GET_JT(props)     == (props \div 32) % 8

ubidi_getClass(c)       == UCharDirection[UBIDI_GET_CLASS(BiDiProps(c)) + 1]
u_charDirection(c)      == ubidi_getClass(c)
ubidi_getJoiningType(c) == UJoiningType[UBIDI_GET_JT(BiDiProps(c)) + 1]

-----------------------------------------------------------------------------
(* The script is in two fields of column 0, and a third one, of two bits,  *)
(* says whether they are a script or where its extensions are.             *)
propsVectorsColumns == 3
u_getUnicodeProperties(c, column) ==
  IF column >= propsVectorsColumns THEN 0
  ELSE propsVectors[UTRIE2_GET16(propsVectorsTrie, c) + column]

ScriptX(c) == u_getUnicodeProperties(c, 0)
UPROPS_SCRIPT_X_WITH_COMMON    == 1
UPROPS_SCRIPT_X_WITH_INHERITED == 2
UPROPS_SCRIPT_X_WITH_OTHER     == 3
WithExtensions(scriptX) == (scriptX \div 2^22) % 4

uprops_mergeScriptCodeOrIndex(scriptX) ==
  ((scriptX \div 2^20) % 4) * 2^8 + (scriptX % 2^8)

ScriptOf(scriptX) ==
  LET codeOrIndex == uprops_mergeScriptCodeOrIndex(scriptX)
  IN  CASE WithExtensions(scriptX) < UPROPS_SCRIPT_X_WITH_COMMON -> codeOrIndex
        [] WithExtensions(scriptX) = UPROPS_SCRIPT_X_WITH_COMMON -> USCRIPT_COMMON
        [] WithExtensions(scriptX) = UPROPS_SCRIPT_X_WITH_INHERITED -> USCRIPT_INHERITED
        [] WithExtensions(scriptX) = UPROPS_SCRIPT_X_WITH_OTHER -> scriptExtensions[codeOrIndex]

uscript_getScript(c, errorCode) ==
  IF U_FAILURE(errorCode)
  THEN [script |-> USCRIPT_INVALID_CODE, errorCode |-> errorCode]
  ELSE IF c \notin 0 .. MaxCodeValue
  THEN [script |-> USCRIPT_INVALID_CODE, errorCode |-> U_ILLEGAL_ARGUMENT_ERROR]
  ELSE [script |-> ScriptOf(ScriptX(c)), errorCode |-> errorCode]
=============================================================================
