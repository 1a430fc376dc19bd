------------------------------- MODULE SyntaxTree -------------------------------
(***************************************************************************)
(* One statement of a program on its way through the syntax tree: the      *)
(* interpreter reads its symbols and gives each a priority                 *)
(* (Process_Package), Process inserts the node of a symbol by walking down *)
(* the right spine of the tree, Reduce folds constants, and Evaluate emits *)
(* one bytecode per operation, children first, and allocates registers.    *)
(*                                                                         *)
(* A node is the position of its symbol in the statement; 0 is NULL.       *)
(* Which symbol may come next is decided by open, phase and target: the    *)
(* programs considered are well formed.                                    *)
(***************************************************************************)
EXTENDS Naturals, Integers, Sequences, FiniteSets, SequencesExt

CONSTANTS
  Symbols,     (* the Kinds of symbols the statement is made of             *)
  MaxSymbols,  (* bound on its length                                       *)
  Allowed      (* the Habits the program has                                *)

Operands  == {"local", "attribute", "const"}
Callables == {"function", "class"}
Binary    == {"+", "*", "=", ".", "!="}
Kinds == Operands \cup Callables \cup Binary \cup
         {"object", "return", "!", "[", "]", "(", ")", "comma"}

(* What a disciplined program does not do: compare with !=; index the      *)
(* result of a method; assign to an element or an attribute inside a       *)
(* larger expression.                                                      *)
Habits == {"differs", "getter", "element"}

ASSUME SyntaxTreeAssumption ==
  Symbols \subseteq Kinds /\ MaxSymbols \in Nat /\ Allowed \subseteq Habits

NULL == 0
MaxParams == MaxSymbols          (* bound on the slots of a node            *)
Nodes == 1 .. MaxSymbols
Slots == 0 .. MaxParams

VARIABLES
  symbols, open, phase, target,  (* the statement so far: its symbols, the  *)
               (* brackets that are open, what may follow, and whether an   *)
               (* assignment to what precedes is well formed                *)
  precedence,  (* the local of Process_Package                              *)
  node, root,  (* the tree                                                  *)
  stage,       (* parse, evaluate or end                                    *)
  todo,        (* the operations that Evaluate has not reached              *)
  registers,   (* the flags of the registers in use                         *)
  holds,       (* the node whose value a register has when the code runs    *)
  code         (* the last bytecode: its node and the values it reads       *)

vars == <<symbols, open, phase, target, precedence, node, root, stage, todo, registers, holds, code>>
-----------------------------------------------------------------------------
(* Priorities.                                                             *)
Scale == 13                      (* Get_Precedence(NULL)                    *)

Get_Precedence(k) ==
  CASE k \in {"function", "object"} -> 11
    [] k = "["      -> 11 - Scale
    [] k = "."      -> 10
    [] k = "!"      -> 9
    [] k = "*"      -> 7
    [] k = "+"      -> 6
    [] k = "!="     -> 4
    [] k = "="      -> 2
    [] k \in {"return", "comma"} -> 1
    [] OTHER        -> Scale

Priority(k, p) == Get_Precedence(k) + Scale * p

(* Faulty: assignments group to the left.                                  *)
R_Assoc_left(k) == FALSE

R_Assoc(k) == k = "="

(* A node as Acquire_Node and Finalize leave it.  The mark of a bracket    *)
(* tells whether it constructs an array, reads an element, or gives a      *)
(* reference to one.                                                       *)
Blank == [sym |-> "none", priority |-> 0, index |-> 0, params |-> [i \in Slots |-> NULL],
          parent |-> NULL, mark |-> "getter", place |-> "none", reg |-> 0]

Finalize(k, p) ==
  [Blank EXCEPT !.sym = k, !.priority = Priority(k, p), !.index = IF k \in Callables THEN 0 ELSE 1,
                !.place = IF k \in {"local", "const"} THEN k ELSE "none"]

RightChild(f, t) == f[t].params[f[t].index]

Children(f, t) == {f[t].params[i] : i \in Slots} \ {NULL}

(* What is reached from t by steps of next.                                *)
Onward(next, S) == S \cup UNION {next[m] : m \in S}

Reach(next, t) ==
  LET From[S \in SUBSET Nodes] == IF Onward(next, S) = S THEN S ELSE From[Onward(next, S)]
  IN From[{t}]

Subtree(f, t) == IF t = NULL THEN {} ELSE Reach([m \in Nodes |-> Children(f, m)], t)
Spine(f, t)   == Reach([m \in Nodes |-> {RightChild(f, m)} \ {NULL}], t)

(* Faulty: the slots of a method are not separated by commas.              *)
TakesComma_method(f, t, n) ==
  /\ f[t].sym \in Callables \cup {"["}
  /\ f[n].sym = "comma" /\ f[n].priority < f[t].priority + Scale

TakesComma(f, t, n) ==
  /\ \/ f[t].sym \in Callables \cup {"["}
     \/ f[t].parent # NULL /\ f[f[t].parent].sym = "."
  /\ f[n].sym = "comma" /\ f[n].priority < f[t].priority + Scale

GoesRight(f, t, n) ==
  \/ f[n].priority > f[t].priority
  \/ R_Assoc(f[n].sym) /\ f[n].priority = f[t].priority
  \/ f[n].sym \in {"!", "!="}

AsConstructor(s) == IF s.sym = "[" THEN [s EXCEPT !.index = 0, !.mark = "constructor"] ELSE s

Attach(T, t, n) ==
  [T EXCEPT !.node[t].params[T.node[t].index] = n,
            !.node[n] = [AsConstructor(@) EXCEPT !.parent = t]]

(* The node n takes the place of t, which becomes its left child.          *)
Raise(T, t, n) ==
  LET up == T.node[t].parent
      reference == T.node[t].sym = "[" /\ T.node[n].sym = "="
      Rewired(f) == IF up = NULL THEN f ELSE [f EXCEPT ![up].params[f[up].index] = n]
  IN [node |-> [Rewired(T.node) EXCEPT ![n].params[0] = t, ![n].parent = up, ![t].parent = n,
                  ![t].mark = IF reference THEN "reference" ELSE @],
      root |-> IF T.root = t THEN n ELSE T.root]

(* The walk goes down the right spine to the first node that stops it.     *)
Stops(f, t, n) == TakesComma(f, t, n) \/ ~GoesRight(f, t, n) \/ RightChild(f, t) = NULL

Stop(T, n) ==
  LET walk == Spine(T.node, T.root)
  IN CHOOSE t \in walk : /\ Stops(T.node, t, n)
                         /\ \A s \in walk : Stops(T.node, s, n) => s \in Spine(T.node, t)

Insert(T, n) ==
  LET t == Stop(T, n)
  IN IF TakesComma(T.node, t, n) THEN [T EXCEPT !.node[t].index = @ + 1]
     ELSE IF GoesRight(T.node, t, n) THEN Attach(T, t, n)
     ELSE Raise(T, t, n)

Process(n, fresh) ==
  LET T == [node |-> [node EXCEPT ![n] = fresh], root |-> root]
  IN IF root = NULL THEN [node |-> [T.node EXCEPT ![n] = AsConstructor(@)], root |-> n] ELSE Insert(T, n)
-----------------------------------------------------------------------------
(* Reading the statement.                                                  *)
Top == IF open = <<>> THEN [kind |-> "none", target |-> FALSE] ELSE Last(open)

Bracket(kind) == [kind |-> kind, target |-> target]

LastSymbol == IF symbols = <<>> THEN "none" ELSE Last(symbols)

(* Symbols that can start an expression, continue one, or close one.       *)
StartsExpression(k) ==
  /\ phase \in {"operand", "first"}
  /\ \/ k \in Operands \cup Callables \cup {"!", "[", "("}
     \/ k = "return" /\ symbols = <<>>

Continues(k) ==
  /\ phase \in {"operator", "method"}
  /\ \/ k \in {"+", "*", "."}
     \/ k = "!=" /\ "differs" \in Allowed
     \/ k = "=" /\ target /\ (open # <<>> /\ LastSymbol # "local" => "element" \in Allowed)
     \/ k = "comma" /\ Top.kind \in {"call", "list"}
     \/ k = "[" /\ phase = "operator" /\ LastSymbol \in {"local", "attribute", "]"}
     \/ k = "[" /\ phase = "method" /\ "getter" \in Allowed

Closes(k) ==
  /\ \/ phase \in {"operator", "method"}
     \/ phase = "first" /\ Top.kind \in {"call", "list"}
  /\ \/ k = ")" /\ Top.kind \in {"group", "call"}
     \/ k = "]" /\ Top.kind \in {"list", "index"}

WellFormed(k) ==
  \/ StartsExpression(k) \/ Continues(k) \/ Closes(k)
  \/ phase = "callee" /\ k = "("
  \/ phase = "method" /\ LastSymbol = "object" /\ k = "("
  \/ phase = "member" /\ k = "object"

Opened(k) ==
  CASE k = "(" -> Append(open, Bracket(IF phase \in {"callee", "method"} THEN "call" ELSE "group"))
    [] k = "[" -> Append(open, Bracket(IF phase \in {"operand", "first"} THEN "list" ELSE "index"))
    [] k \in {")", "]"} -> Front(open)
    [] OTHER -> open

NextPhase(k) ==
  CASE k \in Callables -> "callee"
    [] k = "." -> "member"
    [] k = "object" -> "method"
    [] k \in Operands \cup {")", "]"} -> "operator"
    [] k \in {"(", "["} /\ phase # "operand" -> "first"
    [] k = "[" -> "first"
    [] OTHER -> "operand"

(* A local, an attribute or an element of one can be assigned to, unless   *)
(* an operator has taken it as its operand before.                         *)
NextTarget(k) ==
  CASE k \in {"local", "attribute"} -> LastSymbol \in {"none", "=", "(", "[", "comma"}
    [] k = "]" -> Top.target /\ Top.kind = "index"
    [] OTHER -> FALSE

(* Faulty: the bracket of an index does not end its precedence.            *)
NextPrecedence_brackets(k) ==
  CASE k \in {"(", "["} -> precedence + 1
    [] k = ")" -> precedence - 1
    [] OTHER -> precedence

NextPrecedence(k) ==
  CASE k \in {"(", "["} -> precedence + 1
    [] k \in {")", "]"} -> precedence - 1
    [] OTHER -> precedence

(* The symbols the statement needs after k to be complete.                 *)
Missing(k) ==
  Len(Opened(k)) + (CASE NextPhase(k) \in {"operand", "member"} -> 1
                      [] NextPhase(k) = "callee" -> 2
                      [] NextPhase(k) = "first" /\ Last(Opened(k)).kind \in {"group", "index"} -> 1
                      [] OTHER -> 0)

(* A symbol is read: parentheses and the closing bracket only change the   *)
(* precedence, every other symbol becomes a node.                          *)
ReadSymbol(k) ==
  LET n == Len(symbols) + 1
      T == IF k \in {"(", ")", "]"} THEN [node |-> node, root |-> root]
           ELSE Process(n, Finalize(k, NextPrecedence(k)))
  IN /\ stage = "parse" /\ n + Missing(k) <= MaxSymbols /\ WellFormed(k)
     /\ symbols' = Append(symbols, k)
     /\ open' = Opened(k) /\ phase' = NextPhase(k)
     /\ target' = NextTarget(k)
     /\ precedence' = NextPrecedence(k)
     /\ node' = T.node /\ root' = T.root
     /\ UNCHANGED <<stage, todo, registers, holds, code>>
-----------------------------------------------------------------------------
(* Folding: Can_Reduce, for a node whose children are reduced, if C are     *)
(* the constants.                                                          *)
Folds(f, C, n) ==
  \/ f[n].sym = "!" /\ f[n].params[1] \in C
  \/ f[n].sym \in {"+", "*", "!="} /\ f[n].params[0] \in C /\ f[n].params[1] \in C

(* The nodes that are constants once everything below them is reduced.     *)
Constants(f) ==
  LET From[C \in SUBSET Nodes] ==
        LET D == C \cup {n \in Nodes : Folds(f, C, n)} IN IF D = C THEN C ELSE From[D]
  IN From[{n \in Nodes : f[n].sym = "const"}]

Reduce(f) ==
  [n \in Nodes |-> IF Folds(f, Constants(f), n)
                   THEN [f[n] EXCEPT !.sym = "const", !.place = "const", !.params = Blank.params]
                   ELSE f[n]]

(* Leaves and methods emit nothing.                                        *)
Evaluable(k) == k \notin {"local", "const", "object"}

(* Syntax_Tree::Evaluate at the end of the line.                           *)
NewLine ==
  /\ stage = "parse" /\ open = <<>> /\ phase \in {"operator", "method"}
  /\ node' = Reduce(node)
  /\ todo' = {n \in Subtree(node', root) : Evaluable(node'[n].sym)}
  /\ stage' = "evaluate"
  /\ UNCHANGED <<symbols, open, phase, target, precedence, root, registers, holds, code>>
-----------------------------------------------------------------------------
(* Evaluation.  M is the part of the state that it changes.                *)
Machine == [node |-> node, registers |-> registers, holds |-> holds]

InRegister(M, c) == M.node[c].place = "register"

(* Faulty: the last register counts as open.                               *)
Get_Open_Reg_last(flags) ==
  LET free == {r \in 1 .. Len(flags) : ~flags[r]} \cup ({Len(flags)} \ {0})
  IN IF free = {} THEN Len(flags) + 1 ELSE CHOOSE r \in free : \A q \in free : r <= q

Get_Open_Reg(flags) ==
  LET free == {r \in 1 .. Len(flags) : ~flags[r]}
  IN IF free = {} THEN Len(flags) + 1 ELSE CHOOSE r \in free : \A q \in free : r <= q

Claim(flags, r) == IF r > Len(flags) THEN Append(flags, TRUE) ELSE [flags EXCEPT ![r] = TRUE]

(* The node c gets a register that holds its value when the code runs.     *)
InOpenRegister(M, c) ==
  LET r == Get_Open_Reg(M.registers)
  IN [node |-> [M.node EXCEPT ![c].place = "register", ![c].reg = r],
      registers |-> Claim(M.registers, r), holds |-> [M.holds EXCEPT ![r] = c]]

(* A constant is moved out of the code.                                    *)
ForceConstant(M, c) ==
  IF c # NULL /\ M.node[c].place = "const" THEN InOpenRegister(M, c) ELSE M

Force_Memory(M, n) ==
  LET Forced[i \in 0 .. MaxParams + 1] == IF i = 0 THEN M ELSE ForceConstant(Forced[i - 1], node[n].params[i - 1])
  IN Forced[MaxParams + 1]

(* The method that a dot calls gives its parameters to the dot.            *)
Method(n) == node[n].params[1]

(* The constants among the arguments of a call, the object of a dot and    *)
(* the value of a return.                                                  *)
Map_Parameters(M, n) ==
  IF node[n].sym \in Callables \cup {"object", "return"} THEN Force_Memory(M, n)
  ELSE IF node[n].sym = "." THEN ForceConstant(M, node[n].params[0])
  ELSE M

Mapped(M, n) ==
  IF node[n].sym = "." THEN Map_Parameters(Map_Parameters(M, n), Method(n)) ELSE Map_Parameters(M, n)

Parameters(n) == Children(node, n) \cup (IF node[n].sym = "." THEN Children(node, Method(n)) ELSE {})

Value(M, c) == IF InRegister(M, c) THEN M.holds[M.node[c].reg] ELSE c

(* Faulty: the arguments of a method keep their registers.                 *)
Clear_Registry_dot(M, n) ==
  LET cleared == {M.node[c].reg : c \in {c \in Children(node, n) : InRegister(M, c)}}
  IN [M EXCEPT !.registers = [r \in DOMAIN @ |-> @[r] /\ r \notin cleared]]

(* The registers of the parameters are free again, but for those of a      *)
(* constructor: its symbol is a register when the test is made.            *)
Clear_Registry(M, n) ==
  LET cleared == {M.node[c].reg : c \in {c \in Parameters(n) : InRegister(M, c)}}
  IN IF node[n].sym = "class" THEN M
     ELSE [M EXCEPT !.registers = [r \in DOMAIN @ |-> @[r] /\ r \notin cleared]]

(* An assignment inside an expression stands for what it assigns to; any   *)
(* other result takes a register.                                          *)
Result(M, n) ==
  LET to == node[n].params[0]
  IN IF node[n].sym # "=" \/ node[n].parent = NULL THEN InOpenRegister(M, n)
     ELSE [M EXCEPT !.node[n].place = M.node[to].place, !.node[n].reg = M.node[to].reg,
                    !.holds = IF InRegister(M, to) THEN [@ EXCEPT ![M.node[to].reg] = n] ELSE @]

(* Children first, from left to right: nothing is left to do below n, nor  *)
(* in the slots before those that lead to n.                               *)
IsNext(n) ==
  LET left(c) == Subtree(node, c) \cap todo
  IN /\ left(n) = {n}
     /\ \A p \in Nodes : n \in Subtree(node, p) =>
          \A j \in {j \in Slots : n \in Subtree(node, node[p].params[j])} :
            \A i \in 0 .. j - 1 : left(node[p].params[i]) = {}

Evaluate(n) ==
  LET mapped == Mapped(Machine, n)
      M == Result(Clear_Registry(mapped, n), n)
  IN /\ stage = "evaluate" /\ IsNext(n)
     /\ code' = [node |-> n, reads |-> [c \in Parameters(n) |-> Value(mapped, c)]]
     /\ node' = M.node /\ registers' = M.registers /\ holds' = M.holds
     /\ todo' = todo \ {n}
     /\ UNCHANGED <<symbols, open, phase, target, precedence, root, stage>>

NoCode == [node |-> NULL, reads |-> <<>>]

(* The tree and the flags are cleared; the registers stay reserved.        *)
EndStatement ==
  /\ stage = "evaluate" /\ todo = {}
  /\ registers' = [r \in DOMAIN registers |-> FALSE]
  /\ root' = NULL /\ node' = [n \in Nodes |-> Blank]
  /\ symbols' = <<>> /\ phase' = "operand" /\ target' = FALSE /\ precedence' = 0
  /\ holds' = [r \in Nodes |-> NULL] /\ code' = NoCode
  /\ stage' = "parse"
  /\ UNCHANGED <<open, todo>>

Init ==
  /\ symbols = <<>> /\ open = <<>> /\ phase = "operand" /\ target = FALSE /\ precedence = 0
  /\ node = [n \in Nodes |-> Blank] /\ root = NULL
  /\ stage = "parse" /\ todo = {}
  /\ registers = <<>> /\ holds = [r \in Nodes |-> NULL] /\ code = NoCode

Next ==
  \/ \E k \in Symbols : ReadSymbol(k)
  \/ \E n \in todo : Evaluate(n)
  \/ NewLine \/ EndStatement

Spec == Init /\ [][Next]_vars
-----------------------------------------------------------------------------
(* Every variable has its type; the tree's children and parents are nodes. *)
TypeOK ==
  /\ symbols \in Seq(Kinds) /\ Len(symbols) <= MaxSymbols
  /\ precedence = Len(open)
  /\ root \in Nodes \cup {NULL}
  /\ \A n \in Nodes : /\ node[n].index \in 0 .. MaxParams /\ node[n].parent \in Nodes \cup {NULL}
                      /\ \A i \in Slots : node[n].params[i] \in Nodes \cup {NULL}
                      /\ node[n].place = "register" => node[n].reg \in DOMAIN registers
  /\ registers \in Seq(BOOLEAN) /\ Len(registers) <= MaxSymbols
  /\ \A r \in Nodes : holds[r] \in Nodes \cup {NULL}

(* The grouping of a statement, from its symbols alone.                     *)
Opens(p)  == symbols[p] \in {"(", "["}
Closed(p) == symbols[p] \in {")", "]"}

(* How many brackets are around position p.                                *)
Depth(p) == Cardinality({q \in 1 .. p - 1 : Opens(q)}) - Cardinality({q \in 1 .. p : Closed(q)})

EndsOperand(p) == symbols[p] \in Operands \cup {"object", ")", "]"}

Indexes(p) == symbols[p] = "[" /\ p > 1 /\ EndsOperand(p - 1)

(* The strength of a symbol against those at its depth.                    *)
Strength(p) ==
  CASE symbols[p] = "return" -> 1
    [] symbols[p] = "="  -> 2
    [] symbols[p] = "!=" -> 4
    [] symbols[p] = "+"  -> 6
    [] symbols[p] = "*"  -> 7
    [] symbols[p] = "!"  -> 9
    [] symbols[p] = "." \/ Indexes(p) -> 10
    [] OTHER -> 99

GroupsRight(p) == symbols[p] \in {"=", "!"}

(* The symbols that are not brackets or commas, those that have an operand *)
(* on their left, and which of two binds its operands first.               *)
Terms == {p \in 1 .. Len(symbols) : symbols[p] \notin {"(", ")", "]", "comma"}}

Infix(p) == symbols[p] \in Binary \/ Indexes(p)

Stronger(p, q) == Depth(p) > Depth(q) \/ (Depth(p) = Depth(q) /\ Strength(p) > Strength(q))
AsStrong(p, q) == Depth(p) = Depth(q) /\ Strength(p) = Strength(q) /\ Strength(q) < 99

Before(S, T) == \A p \in S, q \in T : p < q

Complete == stage = "parse" /\ open = <<>> /\ phase \in {"operator", "method"}

(* The tree of a complete statement has all of its symbols.  The operands  *)
(* of a symbol stand around it in their order, and bind stronger; of equal *)
(* ones the last is above, but the first if they group to the right        *)
(* (Process, Get_Precedence, Finalize).                                    *)
TreeGroups ==
  Complete =>
    /\ Subtree(node, root) = Terms
    /\ \A m \in Terms, i \in Slots :
         LET Operand(j) == Subtree(node, node[m].params[j])
             c == node[m].params[i]
         IN c # NULL =>
              /\ IF i = 0 /\ Infix(m) THEN Before(Operand(i), {m}) ELSE Before({m}, Operand(i))
              /\ \A j \in 0 .. i - 1 : Before(Operand(j), Operand(i))
              /\ Stronger(c, m) \/ (AsStrong(c, m) /\ (i = 0 <=> ~GroupsRight(m)))

(* The code of an operation reads the values of its own operands: no       *)
(* register was given away while its value was still to be read            *)
(* (Map_Parameters, Clear_Registry, Get_Open_Reg).                         *)
OperandsKept == code.node # NULL => \A c \in Parameters(code.node) : code.reads[c] = c

(* A register in use has a value that is still to be read, if no           *)
(* constructor took part in the statement (Clear_Registry).                *)
RegistersFreed ==
  "class" \notin ToSet(symbols) =>
    \A r \in DOMAIN registers : registers[r] =>
      /\ stage = "evaluate" /\ node[holds[r]].place = "register" /\ node[holds[r]].reg = r
      /\ node[holds[r]].parent # NULL => todo \cap {node[holds[r]].parent, node[node[holds[r]].parent].parent} # {}
=============================================================================
