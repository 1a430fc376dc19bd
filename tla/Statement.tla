------------------------------- MODULE Statement -------------------------------
(***************************************************************************)
(* What a statement means, defined from its symbols alone, to compare the  *)
(* tree with.                                                              *)
(***************************************************************************)
EXTENDS SyntaxTree

(* The expression a statement stands for, from its symbols alone.          *)
Closing(p) == CHOOSE q \in p + 1 .. Len(symbols) : /\ Closed(q) /\ Depth(q) = Depth(p)
                                                  /\ \A r \in p + 1 .. q - 1 : Depth(r) > Depth(p)

(* The weakest operator of a part is applied last: the first one of equal  *)
(* strength if it groups to the right, else the last one.                  *)
MainOperator(ops) ==
  LET weakest == {p \in ops : \A q \in ops : Strength(p) <= Strength(q)}
  IN CHOOSE p \in weakest : \A q \in weakest : IF GroupsRight(p) THEN p <= q ELSE p >= q

Expression(at, mark, args) == [at |-> at, mark |-> mark, args |-> args]

RECURSIVE Meaning(_, _)
Meaning(i, j) ==
  LET ops == {p \in i .. j : Depth(p) = Depth(i) /\ Strength(p) < 99}
      p == MainOperator(ops)
      Parts(a, b) ==
        LET cuts == SetToSortSeq({a - 1, b + 1} \cup {q \in a .. b : symbols[q] = "comma" /\ Depth(q) = Depth(a)}, <)
        IN IF b < a THEN <<>> ELSE [c \in 1 .. Len(cuts) - 1 |-> Meaning(cuts[c] + 1, cuts[c + 1] - 1)]
  IN CASE ops = {} /\ symbols[i] = "(" -> Meaning(i + 1, j - 1)
       [] ops = {} /\ symbols[i] = "[" -> Expression(i, "constructor", Parts(i + 1, j - 1))
       [] ops = {} /\ symbols[i] \notin {"(", "["} -> Expression(i, "getter", Parts(i + 2, j - 1))
       [] ops # {} /\ symbols[p] \in {"!", "return"} -> Expression(p, "getter", <<Meaning(p + 1, j)>>)
       [] ops # {} /\ symbols[p] \in Binary -> Expression(p, "getter", <<Meaning(i, p - 1), Meaning(p + 1, j)>>)
       [] OTHER -> Expression(p, IF j < Len(symbols) /\ symbols[j + 1] = "=" THEN "reference" ELSE "getter",
                              <<Meaning(i, p - 1), Meaning(p + 1, j - 1)>>)

(* The children of a node from left to right.                              *)
Arguments(n) ==
  LET slots == [i \in 1 .. MaxParams + 1 |-> node[n].params[i - 1]]
  IN SelectSeq(slots, LAMBDA c : c # NULL)

RECURSIVE Parsed(_)
Parsed(n) ==
  Expression(n, node[n].mark, [i \in 1 .. Len(Arguments(n)) |-> Parsed(Arguments(n)[i])])
-----------------------------------------------------------------------------
(* The tree of a complete statement is the expression that precedence,     *)
(* associativity and brackets give it, with every bracket marked as what   *)
(* it is used for (Process, Finalize, Get_Precedence).                     *)
TreeMeansStatement == Complete => Parsed(root) = Meaning(1, Len(symbols))
=============================================================================
