------------------------------- MODULE MCCompiler -------------------------------
(* Model-checking instance of Compiler: the sets of types the configurations *)
(* choose from.                                                              *)
EXTENDS Compiler

NoLiterals    == {}
Ints          == {CRY_INT}
IntsAndTexts  == {CRY_INT, CRY_TEXT}
NilsAndTexts  == {CRY_NIL, CRY_TEXT}
Strings       == {CRY_NIL, CRY_INT, CRY_STRING}
AllLiterals   == {CRY_NIL, CRY_BOOL, CRY_INT, CRY_DOUBLE, CRY_TEXT}
AllValues     == AllLiterals \cup {CRY_INT64, CRY_STRING, CRY_ARRAY}
=============================================================================
