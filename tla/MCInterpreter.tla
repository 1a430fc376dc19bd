----------------------------- MODULE MCInterpreter -----------------------------
(* Model-checking instance of Interpreter.                                 *)
EXTENDS Interpreter
=============================================================================
