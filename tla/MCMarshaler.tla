------------------------------- MODULE MCMarshaler -------------------------------
(* Model-checking instance of Marshaler: a number, a text and, with the    *)
(* habit container, an array.                                                 *)
EXTENDS Marshaler

SomeValues == {[type |-> "INT", data |-> "one"], [type |-> "TEXT", data |-> "text"]}
AllValues  == SomeValues \cup {[type |-> "ARRAY", data |-> "elements"]}
=============================================================================
