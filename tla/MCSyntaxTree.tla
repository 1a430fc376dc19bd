------------------------------ MODULE MCSyntaxTree ------------------------------
(* Model-checking instance of Statement.                                   *)
EXTENDS Statement

AllSymbols == Kinds
=============================================================================
