------------------------------- MODULE MCOperators -------------------------------
(* Model-checking instance of Operators: integers that overflow, zero and a  *)
(* few others; doubles that are integral, dyadic and neither.                *)
EXTENDS Operators

SomeIntegers  == {MinInt, -1, 0, 2, 3}
SomeFractions == {<<1, 2>>, <<3, 1>>, <<-2, 1>>, <<1, 3>>}
=============================================================================
