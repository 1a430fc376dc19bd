---------------------------- MODULE SyntaxTreeProofs ----------------------------
(***************************************************************************)
(* Theorems about SyntaxTree, for statements of every length: its types    *)
(* for every program, that registers are freed for a program without != or *)
(* an index of a method's result, and that operations read their own       *)
(* operands for a program without any of the Habits.                       *)
(*                                                                         *)
(* The invariants build on each other: IInv keeps the links of the tree    *)
(* and its right spine, TreeInv the priorities on the spine, FreedInv who  *)
(* still reads a register, HeapInv the priorities of the whole tree, and   *)
(* KeepInv that a register holds the operand it was given to.              *)
(***************************************************************************)
EXTENDS SyntaxTree, FiniteSetTheorems, SequenceTheorems, TLAPS

(* The least number of a set, and the recursion of Reach.                  *)
LEMMA LeastNumber ==
  ASSUME NEW S \in SUBSET Nat, S # {}
  PROVE  \E x \in S : \A y \in S : x <= y
<1>1. PICK x \in S : \A y \in S : ~ (<<y, x>> \in OpToRel(<, Nat))
  BY ONLY S \in SUBSET Nat, S # {}, NatLessThanWellFounded, WFMin
<1>2. ASSUME NEW y \in S PROVE x <= y
  <2>1. ~ (y < x)
    BY <1>1 DEF OpToRel
  <2> QED  BY <2>1
<1> QED  BY <1>2

IsClosed(next, S) == \A m \in S : next[m] \subseteq S

Least(next, S) == {n \in Nodes : \A U \in SUBSET Nodes : S \subseteq U /\ IsClosed(next, U) => n \in U}

LEMMA LeastOnward ==
  ASSUME NEW next \in [Nodes -> SUBSET Nodes], NEW S \in SUBSET Nodes
  PROVE  /\ Onward(next, S) \in SUBSET Nodes
         /\ Onward(next, S) = S <=> IsClosed(next, S)
         /\ Least(next, S) = Least(next, Onward(next, S))
         /\ IsClosed(next, S) => Least(next, S) = S
<1>1. Onward(next, S) \in SUBSET Nodes
  BY DEF Onward
<1>2. Onward(next, S) = S <=> IsClosed(next, S)
  BY DEF IsClosed, Onward
<1>3. ASSUME NEW U \in SUBSET Nodes, IsClosed(next, U)
      PROVE  S \subseteq U <=> Onward(next, S) \subseteq U
  BY <1>3 DEF IsClosed, Onward
<1>4. Least(next, S) = Least(next, Onward(next, S))
  BY <1>3 DEF Least
<1>5. IsClosed(next, S) => Least(next, S) = S
  BY DEF Least
<1> QED  BY <1>1, <1>2, <1>4, <1>5

LEMMA ReachRec ==
  ASSUME NEW next \in [Nodes -> SUBSET Nodes], NEW t \in Nodes
  PROVE  \E From :
           /\ From = [S \in SUBSET Nodes |-> IF Onward(next, S) = S THEN S ELSE From[Onward(next, S)]]
           /\ Reach(next, t) = From[{t}]
<1> DEFINE g == [S \in SUBSET Nodes |-> Least(next, S)]
<1>1. g = [S \in SUBSET Nodes |-> IF Onward(next, S) = S THEN S ELSE g[Onward(next, S)]]
  <2>1. ASSUME NEW S \in SUBSET Nodes
        PROVE  Least(next, S) = IF Onward(next, S) = S THEN S ELSE g[Onward(next, S)]
    BY LeastOnward
  <2> QED  BY <2>1
<1> HIDE DEF g
<1> QED  BY <1>1 DEF Reach

LEMMA ReachIsLeast ==
  ASSUME NEW next \in [Nodes -> SUBSET Nodes], NEW t \in Nodes
  PROVE  Reach(next, t) = Least(next, {t})
<1>1. PICK From : /\ From = [S \in SUBSET Nodes |-> IF Onward(next, S) = S THEN S ELSE From[Onward(next, S)]]
                  /\ Reach(next, t) = From[{t}]
  BY ReachRec
<1> DEFINE Bad == {U \in SUBSET Nodes : From[Nodes \ U] # Least(next, Nodes \ U)}
<1>2. SUFFICES ASSUME Bad # {}
               PROVE  FALSE
  <2>1. Nodes \ (Nodes \ {t}) = {t} /\ Nodes \ {t} \in SUBSET Nodes
    OBVIOUS
  <2> QED  BY <1>1, <2>1
<1>3. IsFiniteSet(Nodes)
  BY FS_Interval, SyntaxTreeAssumption DEF Nodes
<1>4. Bad \subseteq FiniteSubsetsOf(Nodes)
  BY <1>3, FS_Subset DEF FiniteSubsetsOf
<1>5. PICK U \in Bad : \A V \in Bad : ~ (<<V, U>> \in StrictSubsetOrdering(Nodes))
  <2> HIDE DEF Bad
  <2> QED  BY <1>2, <1>4, FS_StrictSubsetOrderingWellFounded, WFMin
<1> DEFINE S == Nodes \ U
<1> DEFINE V == Nodes \ Onward(next, S)
<1>6. S \in SUBSET Nodes /\ From[S] # Least(next, S) /\ S \subseteq Onward(next, S)
  BY DEF Onward
<1>7. Onward(next, S) # S
  BY <1>1, <1>6, LeastOnward
<1>8. V \in SUBSET Nodes /\ V \subseteq U /\ V # U /\ Nodes \ V = Onward(next, S)
  BY <1>6, <1>7, LeastOnward
<1>9. V \notin Bad
  BY <1>3, <1>5, <1>8, FS_Subset DEF StrictSubsetOrdering, FiniteSubsetsOf
<1>10. From[Onward(next, S)] = Least(next, Onward(next, S))
  BY <1>8, <1>9
<1> QED  BY <1>1, <1>6, <1>7, <1>10, LeastOnward

LEMMA ReachFacts ==
  ASSUME NEW next \in [Nodes -> SUBSET Nodes], NEW t \in Nodes
  PROVE  /\ Reach(next, t) \in SUBSET Nodes /\ t \in Reach(next, t)
         /\ \A m \in Reach(next, t) : next[m] \subseteq Reach(next, t)
         /\ \A S \in SUBSET Nodes : t \in S /\ (\A m \in S : next[m] \subseteq S) => Reach(next, t) \subseteq S
<1>1. Reach(next, t) = Least(next, {t})
  BY ReachIsLeast
<1>2. Least(next, {t}) \in SUBSET Nodes /\ t \in Least(next, {t})
  BY DEF Least
<1>3. ASSUME NEW m \in Least(next, {t})
      PROVE  next[m] \subseteq Least(next, {t})
  BY DEF Least, IsClosed
<1>4. ASSUME NEW S \in SUBSET Nodes, t \in S, \A m \in S : next[m] \subseteq S
      PROVE  Least(next, {t}) \subseteq S
  BY <1>4 DEF Least, IsClosed
<1> QED  BY <1>1, <1>2, <1>3, <1>4
---------------------------------------------------------------------------
(* The records of the nodes, and what the tree and its right spine look    *)
(* like.                                                                   *)
NodeType ==
  [sym : Kinds \cup {"none"}, priority : Int, index : Slots, params : [Slots -> Nodes \cup {NULL}],
   parent : Nodes \cup {NULL}, mark : {"getter", "constructor", "reference"},
   place : {"none", "local", "const", "register"}, reg : Nat]

NodesType == [Nodes -> NodeType]

LEMMA Numbers ==
  /\ NULL \notin Nodes /\ Nodes \subseteq Nat /\ Slots \subseteq Nat /\ Nodes \subseteq Slots
  /\ 0 \in Slots /\ MaxParams \in Nat /\ MaxSymbols \in Nat
  /\ \A n : n \in Nodes <=> n \in Nat /\ 1 <= n /\ n <= MaxSymbols
  /\ \A i : i \in Slots <=> i \in Nat /\ i <= MaxParams
BY SyntaxTreeAssumption DEF Nodes, NULL, Slots, MaxParams

LEMMA NodeFacts ==
  ASSUME NEW f \in NodesType, NEW n \in Nodes
  PROVE  /\ f[n] \in NodeType /\ f[n].index \in Slots /\ f[n].parent \in Nodes \cup {NULL}
         /\ f[n].sym \in Kinds \cup {"none"} /\ f[n].priority \in Int
         /\ f[n].params \in [Slots -> Nodes \cup {NULL}]
         /\ \A i \in Slots : f[n].params[i] \in Nodes \cup {NULL}
         /\ RightChild(f, n) \in Nodes \cup {NULL} /\ Children(f, n) \in SUBSET Nodes
<1>1. f[n] \in NodeType
  BY DEF NodesType
<1>2. f[n].params \in [Slots -> Nodes \cup {NULL}] /\ f[n].index \in Slots
  BY <1>1 DEF NodeType
<1>3. \A i \in Slots : f[n].params[i] \in Nodes \cup {NULL}
  BY <1>2
<1> QED  BY <1>1, <1>2, <1>3 DEF NodeType, RightChild, Children

LEMMA SubtreeFacts ==
  ASSUME NEW f \in NodesType, NEW n \in Nodes
  PROVE  /\ Subtree(f, n) \in SUBSET Nodes /\ n \in Subtree(f, n)
         /\ \A m \in Subtree(f, n) : Children(f, m) \subseteq Subtree(f, n)
         /\ \A S \in SUBSET Nodes : n \in S /\ (\A m \in S : Children(f, m) \subseteq S) => Subtree(f, n) \subseteq S
<1> DEFINE next == [m \in Nodes |-> Children(f, m)]
<1>1. next \in [Nodes -> SUBSET Nodes] /\ \A m \in Nodes : next[m] = Children(f, m)
  BY NodeFacts
<1>2. Subtree(f, n) = Reach(next, n)
  BY Numbers DEF Subtree
<1> HIDE DEF next
<1> QED  BY <1>1, <1>2, ReachFacts

LEMMA SpineFacts ==
  ASSUME NEW f \in NodesType, NEW n \in Nodes
  PROVE  /\ Spine(f, n) \in SUBSET Nodes /\ n \in Spine(f, n)
         /\ \A m \in Spine(f, n) : RightChild(f, m) # NULL => RightChild(f, m) \in Spine(f, n)
         /\ \A S \in SUBSET Nodes : n \in S /\ (\A m \in S : RightChild(f, m) # NULL => RightChild(f, m) \in S)
              => Spine(f, n) \subseteq S
<1> DEFINE next == [m \in Nodes |-> {RightChild(f, m)} \ {NULL}]
<1>1. next \in [Nodes -> SUBSET Nodes] /\ \A m \in Nodes : next[m] = {RightChild(f, m)} \ {NULL}
  BY NodeFacts
<1>2. Spine(f, n) = Reach(next, n)
  BY DEF Spine
<1> HIDE DEF next
<1> QED  BY <1>1, <1>2, ReachFacts

(* The right spine from r as a sequence.                                   *)
Chain(f, r, s) ==
  /\ s \in Seq(Nodes) /\ Len(s) > 0 /\ s[1] = r /\ f[r].parent = NULL
  /\ \A i, j \in 1 .. Len(s) : i # j => s[i] # s[j]
  /\ \A i \in 1 .. Len(s) - 1 : RightChild(f, s[i]) = s[i + 1]
  /\ RightChild(f, s[Len(s)]) = NULL

LEMMA ChainSpine ==
  ASSUME NEW f \in NodesType, NEW r \in Nodes, NEW s, Chain(f, r, s), NEW k \in 1 .. Len(s)
  PROVE  Spine(f, s[k]) = {s[j] : j \in k .. Len(s)}
<1>1. s \in Seq(Nodes) /\ Len(s) \in Nat /\ \A i \in 1 .. Len(s) : s[i] \in Nodes
  BY DEF Chain
<1> DEFINE S == {s[j] : j \in k .. Len(s)}
<1>2. S \in SUBSET Nodes /\ s[k] \in S
  BY <1>1
<1>3. ASSUME NEW m \in S, RightChild(f, m) # NULL
      PROVE  RightChild(f, m) \in S
  <2>1. PICK j \in k .. Len(s) : m = s[j]
    OBVIOUS
  <2>2. j # Len(s)
    BY <1>3, <2>1 DEF Chain
  <2>3. RightChild(f, m) = s[j + 1] /\ j + 1 \in k .. Len(s)
    BY <1>1, <2>1, <2>2 DEF Chain
  <2> QED  BY <2>3
<1>4. Spine(f, s[k]) \subseteq S
  BY <1>1, <1>2, <1>3, SpineFacts
<1>5. ASSUME NEW j \in k .. Len(s)
      PROVE  s[j] \in Spine(f, s[k])
  <2> DEFINE B == {i \in k .. Len(s) : s[i] \notin Spine(f, s[k])}
  <2>1. SUFFICES ASSUME B # {} PROVE FALSE
    OBVIOUS
  <2>2. PICK x \in B : \A y \in B : x <= y
    <3>1. B \in SUBSET Nat
      BY <1>1
    <3> HIDE DEF B
    <3> QED  BY <2>1, <3>1, LeastNumber
  <2>3. x # k
    BY <1>1, <2>2, SpineFacts
  <2>4. x - 1 \in k .. Len(s) /\ x - 1 \notin B
    BY <1>1, <2>2, <2>3
  <2>5. RightChild(f, s[x - 1]) = s[x]
    BY <1>1, <2>2, <2>4 DEF Chain
  <2>6. s[x] # NULL
    BY <1>1, <2>2, Numbers
  <2> QED  BY <1>1, <2>2, <2>4, <2>5, <2>6, SpineFacts
<1> QED  BY <1>4, <1>5

(* The walk stops at the first node of the spine that stops it.            *)
LEMMA StopIs ==
  ASSUME NEW f \in NodesType, NEW r \in Nodes, NEW s, Chain(f, r, s), NEW n
  PROVE  \E k \in 1 .. Len(s) : /\ Stop([node |-> f, root |-> r], n) = s[k] /\ Stops(f, s[k], n)
                                /\ \A i \in 1 .. k - 1 : ~Stops(f, s[i], n)
<1>1. s \in Seq(Nodes) /\ Len(s) \in Nat /\ Len(s) > 0 /\ \A i \in 1 .. Len(s) : s[i] \in Nodes
  BY DEF Chain
<1>0. Spine(f, r) = {s[j] : j \in 1 .. Len(s)}
  <2>1. s[1] = r /\ 1 \in 1 .. Len(s)
    BY <1>1 DEF Chain
  <2>2. Spine(f, s[1]) = {s[j] : j \in 1 .. Len(s)}
    BY <2>1, ChainSpine
  <2> QED  BY <2>1, <2>2
<1> DEFINE B == {i \in 1 .. Len(s) : Stops(f, s[i], n)}
<1>2. Len(s) \in B
  BY <1>1 DEF Chain, Stops
<1>3. PICK k \in B : \A y \in B : k <= y
  <2>1. B \in SUBSET Nat
    BY <1>1
  <2> HIDE DEF B
  <2> QED  BY <1>2, <2>1, LeastNumber
<1> DEFINE walk == Spine(f, r)
<1> DEFINE First(t) == Stops(f, t, n) /\ \A u \in walk : Stops(f, u, n) => u \in Spine(f, t)
<1>4. walk = {s[j] : j \in 1 .. Len(s)}
  BY <1>0
<1> HIDE DEF walk
<1>5. k \in 1 .. Len(s) /\ Stops(f, s[k], n) /\ s[k] \in walk
  BY <1>3, <1>4
<1>6. First(s[k])
  <2>1. ASSUME NEW u \in walk, Stops(f, u, n)
        PROVE  u \in Spine(f, s[k])
    <3>1. PICK j \in 1 .. Len(s) : u = s[j]
      BY <1>4
    <3>2. k <= j
      BY <1>3, <2>1, <3>1
    <3>3. Spine(f, s[k]) = {s[i] : i \in k .. Len(s)}
      <4> HIDE DEF B, First
      <4> QED  BY <1>5, ChainSpine
    <3>4. j \in k .. Len(s)
      BY <1>1, <1>5, <3>2
    <3> QED  BY <3>1, <3>3, <3>4
  <2> QED  BY <1>5, <2>1
<1>7. ASSUME NEW t \in walk, First(t)
      PROVE  t = s[k]
  <2>1. PICK j \in 1 .. Len(s) : t = s[j]
    BY <1>4
  <2>2. k <= j
    BY <1>3, <1>7, <2>1
  <2>3. s[k] \in Spine(f, t)
    BY <1>5, <1>7
  <2>4. Spine(f, t) = {s[i] : i \in j .. Len(s)}
    <3>1. Spine(f, s[j]) = {s[i] : i \in j .. Len(s)}
      BY ChainSpine
    <3> QED  BY <2>1, <3>1
  <2>5. PICK i \in j .. Len(s) : s[k] = s[i]
    BY <2>3, <2>4
  <2>6. i \in 1 .. Len(s)
    BY <1>1
  <2>7. i = k
    BY <1>5, <2>5, <2>6 DEF Chain
  <2>8. j = k
    BY <1>1, <1>5, <2>2, <2>7
  <2> QED  BY <2>1, <2>8
<1>8. Stop([node |-> f, root |-> r], n) = CHOOSE t \in walk : First(t)
  BY DEF Stop, walk
<1> HIDE DEF First
<1>9. (CHOOSE t \in walk : First(t)) = s[k]
  BY <1>5, <1>6, <1>7
<1>10. \A i \in 1 .. k - 1 : ~Stops(f, s[i], n)
  BY <1>1, <1>3
<1> QED  BY <1>5, <1>8, <1>9, <1>10
---------------------------------------------------------------------------
(* Priorities.                                                             *)
LEMMA Precedences ==
  /\ \A k \in Kinds : Get_Precedence(k) \in Int /\ Get_Precedence(k) >= -2 /\ Get_Precedence(k) <= 13
  /\ \A k \in Operands \cup {"class", "none"} : Get_Precedence(k) = 13
  /\ Get_Precedence("function") = 11 /\ Get_Precedence("object") = 11 /\ Get_Precedence("[") = -2
  /\ Get_Precedence(".") = 10 /\ Get_Precedence("!") = 9 /\ Get_Precedence("*") = 7
  /\ Get_Precedence("+") = 6 /\ Get_Precedence("!=") = 4 /\ Get_Precedence("=") = 2
  /\ Get_Precedence("return") = 1 /\ Get_Precedence("comma") = 1
BY DEF Get_Precedence, Kinds, Operands, Callables, Binary, Scale

(* What the insertion of n does to the nodes.                              *)
Others(f, g, S) == \A m \in Nodes \ S : g[m] = f[m]

Same(a, b) == a.sym = b.sym /\ a.priority = b.priority /\ a.place = b.place /\ a.reg = b.reg

Separated(f, g, t) ==
  /\ Others(f, g, {t}) /\ Same(g[t], f[t])
  /\ g[t].index = f[t].index + 1 /\ g[t].params = f[t].params /\ g[t].parent = f[t].parent

Attached(f, g, t, n) ==
  /\ Others(f, g, {t, n}) /\ Same(g[t], f[t]) /\ Same(g[n], f[n])
  /\ g[t].index = f[t].index /\ g[t].params = [f[t].params EXCEPT ![f[t].index] = n]
  /\ g[t].parent = f[t].parent
  /\ g[n].index = (IF f[n].sym = "[" THEN 0 ELSE f[n].index) /\ g[n].params = f[n].params /\ g[n].parent = t

Raised(f, g, up, t, n) ==
  /\ Others(f, g, {up, t, n}) /\ Same(g[t], f[t]) /\ Same(g[n], f[n])
  /\ g[t].index = f[t].index /\ g[t].params = f[t].params /\ g[t].parent = n
  /\ g[n].index = f[n].index /\ g[n].params = [f[n].params EXCEPT ![0] = t] /\ g[n].parent = up
  /\ up # NULL => /\ Same(g[up], f[up]) /\ g[up].index = f[up].index /\ g[up].parent = f[up].parent
                  /\ g[up].params = [f[up].params EXCEPT ![f[up].index] = n]

LEMMA SeparatedIs ==
  ASSUME NEW f \in NodesType, NEW r, NEW t \in Nodes, f[t].index + 1 \in Slots
  PROVE  LET U == [[node |-> f, root |-> r] EXCEPT !.node[t].index = @ + 1]
         IN U.node \in NodesType /\ Separated(f, U.node, t) /\ U.root = r
<1> DEFINE g == [f EXCEPT ![t] = [f[t] EXCEPT !.index = f[t].index + 1]]
<1>1. [[node |-> f, root |-> r] EXCEPT !.node[t].index = @ + 1] = [node |-> g, root |-> r]
  OBVIOUS
<1>2. f[t] \in NodeType
  BY DEF NodesType
<1>3. [f[t] EXCEPT !.index = f[t].index + 1] \in NodeType
  BY <1>2 DEF NodeType
<1>4. g \in NodesType
  BY <1>3 DEF NodesType
<1>5. g[t] = [f[t] EXCEPT !.index = f[t].index + 1] /\ \A m \in Nodes \ {t} : g[m] = f[m]
  BY DEF NodesType
<1>6. Separated(f, g, t)
  BY <1>2, <1>5 DEF Separated, Others, Same, NodeType
<1> QED  BY <1>1, <1>4, <1>6

LEMMA ConstructorIs ==
  ASSUME NEW a \in NodeType
  PROVE  /\ AsConstructor(a) \in NodeType /\ Same(AsConstructor(a), a)
         /\ AsConstructor(a).index = (IF a.sym = "[" THEN 0 ELSE a.index)
         /\ AsConstructor(a).params = a.params /\ AsConstructor(a).parent = a.parent
<1>1. CASE a.sym = "["
  BY <1>1, Numbers DEF AsConstructor, NodeType, Same
<1>2. CASE a.sym # "["
  BY <1>2 DEF AsConstructor, Same
<1> QED  BY <1>1, <1>2

LEMMA AttachedIs ==
  ASSUME NEW f \in NodesType, NEW r, NEW t \in Nodes, NEW n \in Nodes, t # n
  PROVE  LET U == Attach([node |-> f, root |-> r], t, n)
         IN U.node \in NodesType /\ Attached(f, U.node, t, n) /\ U.root = r
<1> DEFINE c == AsConstructor(f[n])
           d == [c EXCEPT !.parent = t]
           a == [f[t] EXCEPT !.params = [f[t].params EXCEPT ![f[t].index] = n]]
           g == [f EXCEPT ![t] = a, ![n] = d]
<1>1. f[t] \in NodeType /\ f[n] \in NodeType
  BY DEF NodesType
<1>2. c \in NodeType /\ Same(c, f[n]) /\ c.index = (IF f[n].sym = "[" THEN 0 ELSE f[n].index) /\ c.params = f[n].params
  BY <1>1, ConstructorIs
<1>3. Attach([node |-> f, root |-> r], t, n) = [node |-> g, root |-> r]
  <2> DEFINE h == [f EXCEPT ![t] = a]
  <2>1. Attach([node |-> f, root |-> r], t, n)
          = [node |-> [h EXCEPT ![n] = [AsConstructor(h[n]) EXCEPT !.parent = t]], root |-> r]
    <3>1. [[node |-> f, root |-> r] EXCEPT !.node[t].params[f[t].index] = n] = [node |-> h, root |-> r]
      OBVIOUS
    <3>2. Attach([node |-> f, root |-> r], t, n)
            = [[[node |-> f, root |-> r] EXCEPT !.node[t].params[f[t].index] = n]
                 EXCEPT !.node[n] = [AsConstructor(@) EXCEPT !.parent = t]]
      BY DEF Attach
    <3> HIDE DEF h
    <3> QED  BY <3>1, <3>2
  <2>2. h[n] = f[n]
    BY DEF NodesType
  <2> QED  BY <2>1, <2>2
<1> HIDE DEF c
<1>4. d \in NodeType /\ Same(d, c) /\ d.index = c.index /\ d.params = c.params /\ d.parent = t
  BY <1>2 DEF NodeType, Same
<1>5. a \in NodeType /\ Same(a, f[t]) /\ a.index = f[t].index /\ a.parent = f[t].parent
         /\ a.params = [f[t].params EXCEPT ![f[t].index] = n]
  BY <1>1 DEF NodeType, Same
<1> HIDE DEF a, d
<1>6. g \in NodesType /\ g[t] = a /\ g[n] = d /\ \A m \in Nodes \ {t, n} : g[m] = f[m]
  BY <1>4, <1>5 DEF NodesType
<1>7. Attached(f, g, t, n)
  BY <1>2, <1>4, <1>5, <1>6 DEF Attached, Others, Same
<1> HIDE DEF g
<1> QED  BY <1>3, <1>6, <1>7

LEMMA RaisedIs ==
  ASSUME NEW f \in NodesType, NEW r, NEW t \in Nodes, NEW n \in Nodes, t # n,
         f[t].parent # t, f[t].parent # n
  PROVE  LET U == Raise([node |-> f, root |-> r], t, n)
         IN U.node \in NodesType /\ Raised(f, U.node, f[t].parent, t, n) /\ U.root = (IF r = t THEN n ELSE r)
<1> DEFINE up == f[t].parent
           h == IF up = NULL THEN f ELSE [f EXCEPT ![up].params[f[up].index] = n]
           ref == f[t].sym = "[" /\ f[n].sym = "="
           g == [h EXCEPT ![n].params[0] = t, ![n].parent = up, ![t].parent = n,
                          ![t].mark = IF ref THEN "reference" ELSE @]
           a == [f[t] EXCEPT !.parent = n, !.mark = IF ref THEN "reference" ELSE f[t].mark]
           b == [f[n] EXCEPT !.params = [f[n].params EXCEPT ![0] = t], !.parent = up]
           c == [f[up] EXCEPT !.params = [f[up].params EXCEPT ![f[up].index] = n]]
<1>1. f[t] \in NodeType /\ f[n] \in NodeType /\ up \in Nodes \cup {NULL} /\ (up # NULL => f[up] \in NodeType)
  BY DEF NodesType, NodeType
<1>2. Raise([node |-> f, root |-> r], t, n) = [node |-> g, root |-> IF r = t THEN n ELSE r]
  BY DEF Raise
<1>3. /\ h \in [Nodes -> NodeType] /\ h[t] = f[t] /\ h[n] = f[n]
      /\ \A m \in Nodes \ {up} : h[m] = f[m]
      /\ up # NULL => h[up] = c /\ c \in NodeType
  <2>1. CASE up = NULL
    BY <2>1, Numbers DEF NodesType
  <2>2. CASE up # NULL
    <3>1. c \in NodeType
      BY <1>1, <2>2 DEF NodeType
    <3>2. h = [f EXCEPT ![up] = c]
      BY <1>1, <2>2
    <3> HIDE DEF c, h
    <3> QED  BY <1>1, <2>2, <3>1, <3>2 DEF NodesType
  <2> QED  BY <2>1, <2>2
<1>4. g = [h EXCEPT ![n] = b, ![t] = a]
  BY <1>1, <1>3 DEF NodeType
<1>5. a \in NodeType /\ Same(a, f[t]) /\ a.index = f[t].index /\ a.params = f[t].params /\ a.parent = n
  BY <1>1 DEF NodeType, Same
<1>6. b \in NodeType /\ Same(b, f[n]) /\ b.index = f[n].index /\ b.parent = up
         /\ b.params = [f[n].params EXCEPT ![0] = t]
  BY <1>1 DEF NodeType, Same
<1>7. up # NULL => Same(c, f[up]) /\ c.index = f[up].index /\ c.parent = f[up].parent
         /\ c.params = [f[up].params EXCEPT ![f[up].index] = n]
  BY <1>1 DEF NodeType, Same
<1> HIDE DEF a, b, c, h, g
<1>8. g \in NodesType /\ g[t] = a /\ g[n] = b /\ \A m \in Nodes \ {t, n} : g[m] = h[m]
  BY <1>3, <1>4, <1>5, <1>6 DEF NodesType
<1>9. Raised(f, g, up, t, n)
  BY <1>1, <1>3, <1>5, <1>6, <1>7, <1>8 DEF Raised, Others, Same
<1> QED  BY <1>2, <1>8, <1>9
---------------------------------------------------------------------------
(* The structure of the tree, in every stage.                              *)
Linked(f) ==
  \A m \in Nodes, i \in Slots : f[m].params[i] # NULL =>
    /\ f[f[m].params[i]].parent = m
    /\ \A j \in Slots : f[m].params[j] = f[m].params[i] => j = i

Below(f) == \A m \in Nodes, i \in Slots : i > f[m].index => f[m].params[i] = NULL

(* The node n is new: nothing leads to it or away from it.                 *)
Loose(f, n) ==
  /\ f[n].params = [i \in Slots |-> NULL] /\ f[n].parent = NULL /\ f[n].index \in {0, 1}
  /\ \A m \in Nodes, i \in Slots : f[m].params[i] # n

(* The insertion of n at the k-th node of the spine s, which becomes u.    *)
Comma(f, g, s, u, k, n) ==
  /\ TakesComma(f, s[k], n) /\ Separated(f, g, s[k])
  /\ Len(u) = k /\ \A i \in 1 .. k : u[i] = s[i]

Right(f, g, s, u, k, n) ==
  /\ k = Len(s) /\ ~TakesComma(f, s[k], n) /\ GoesRight(f, s[k], n) /\ Attached(f, g, s[k], n)
  /\ Len(u) = k + 1 /\ u[k + 1] = n /\ \A i \in 1 .. k : u[i] = s[i]

Left(f, g, s, u, k, n) ==
  /\ ~TakesComma(f, s[k], n) /\ ~GoesRight(f, s[k], n) /\ Raised(f, g, IF k = 1 THEN NULL ELSE s[k - 1], s[k], n)
  /\ \A i \in 1 .. k - 1 : u[i] = s[i]
  /\ u[k] = n
  /\ IF f[n].index = 0 THEN Len(u) = Len(s) + 1 /\ \A i \in k .. Len(s) : u[i + 1] = s[i] ELSE Len(u) = k

Inserted(f, g, s, u, k, n) ==
  /\ k \in 1 .. Len(s) /\ \A i \in 1 .. k - 1 : ~Stops(f, s[i], n)
  /\ Comma(f, g, s, u, k, n) \/ Right(f, g, s, u, k, n) \/ Left(f, g, s, u, k, n)

LEMMA ChainFacts ==
  ASSUME NEW f \in NodesType, NEW r, NEW s, Chain(f, r, s)
  PROVE  /\ s \in Seq(Nodes) /\ Len(s) \in Nat /\ Len(s) > 0 /\ r \in Nodes
         /\ \A i \in 1 .. Len(s) : s[i] \in Nodes
         /\ Linked(f) => \A i \in 2 .. Len(s) : f[s[i]].parent = s[i - 1]
<1>1. s \in Seq(Nodes) /\ Len(s) \in Nat /\ Len(s) > 0 /\ r = s[1]
  BY DEF Chain
<1>2. \A i \in 1 .. Len(s) : s[i] \in Nodes
  BY <1>1
<1>3. ASSUME Linked(f), NEW i \in 2 .. Len(s)
      PROVE  f[s[i]].parent = s[i - 1]
  <2>1. i - 1 \in 1 .. Len(s) - 1 /\ i \in 1 .. Len(s) /\ i - 1 \in 1 .. Len(s)
    BY <1>1
  <2>2. RightChild(f, s[i - 1]) = s[i]
    BY <1>1, <2>1 DEF Chain
  <2>3. s[i - 1] \in Nodes /\ s[i] # NULL /\ f[s[i - 1]].index \in Slots
    BY <1>2, <2>1, Numbers, NodeFacts
  <2> QED  BY <1>3, <2>2, <2>3 DEF Linked, RightChild
<1> QED  BY <1>1, <1>2, <1>3

LEMMA CommaChain ==
  ASSUME NEW f \in NodesType, NEW g \in NodesType, NEW r, NEW s, Chain(f, r, s), NEW k \in 1 .. Len(s),
         NEW n, Separated(f, g, s[k]), Below(f), f[s[k]].index + 1 \in Slots
  PROVE  LET u == [i \in 1 .. k |-> s[i]]
         IN Len(u) = k /\ u[1] = r /\ (\A i \in 1 .. k : u[i] = s[i]) /\ Chain(g, r, u)
<1> DEFINE u == [i \in 1 .. k |-> s[i]]
<1>1. s \in Seq(Nodes) /\ Len(s) \in Nat /\ Len(s) > 0 /\ r \in Nodes /\ \A i \in 1 .. Len(s) : s[i] \in Nodes
  BY ChainFacts
<1>2. u \in Seq(Nodes) /\ Len(u) = k /\ \A i \in 1 .. k : u[i] = s[i]
  BY <1>1
<1> HIDE DEF u
<1>3. \A i, j \in 1 .. k : i # j => u[i] # u[j]
  BY <1>1, <1>2 DEF Chain
<1>4. ASSUME NEW i \in 1 .. k - 1
      PROVE  RightChild(g, u[i]) = u[i + 1]
  <2>1. i \in 1 .. Len(s) - 1 /\ i \in 1 .. k /\ i + 1 \in 1 .. k /\ i # k /\ i \in 1 .. Len(s)
    BY <1>1
  <2>2. s[i] \in Nodes \ {s[k]}
    BY <1>1, <2>1 DEF Chain
  <2>3. g[s[i]] = f[s[i]]
    BY <2>2 DEF Separated, Others
  <2>4. RightChild(f, s[i]) = s[i + 1]
    BY <2>1 DEF Chain
  <2> QED  BY <1>2, <2>1, <2>3, <2>4 DEF RightChild
<1>5. RightChild(g, s[k]) = NULL
  <2>1. g[s[k]].index = f[s[k]].index + 1 /\ g[s[k]].params = f[s[k]].params
    BY DEF Separated
  <2>2. s[k] \in Nodes /\ f[s[k]].index \in Nat
    BY <1>1, NodeFacts, Numbers
  <2> QED  BY <2>1, <2>2 DEF RightChild, Below
<1>6. g[r].parent = NULL
  <2>1. g[r].parent = f[r].parent
    BY <1>1 DEF Separated, Others
  <2> QED  BY <2>1 DEF Chain
<1>7. u[1] = r
  BY <1>1, <1>2 DEF Chain
<1>8. Chain(g, r, u)
  BY <1>1, <1>2, <1>3, <1>4, <1>5, <1>6, <1>7 DEF Chain
<1> QED  BY <1>2, <1>7, <1>8 DEF u

LEMMA RightChain ==
  ASSUME NEW f \in NodesType, NEW g \in NodesType, NEW r, NEW s, Chain(f, r, s),
         NEW n \in Nodes, \A i \in 1 .. Len(s) : s[i] # n, Attached(f, g, s[Len(s)], n), Loose(f, n)
  PROVE  LET u == Append(s, n)
         IN Len(u) = Len(s) + 1 /\ u[1] = r /\ (\A i \in 1 .. Len(s) : u[i] = s[i]) /\ u[Len(s) + 1] = n /\ Chain(g, r, u)
<1> DEFINE u == Append(s, n)
           L == Len(s)
<1>1. s \in Seq(Nodes) /\ L \in Nat /\ L > 0 /\ r \in Nodes /\ \A i \in 1 .. L : s[i] \in Nodes
  BY ChainFacts
<1>2. u \in Seq(Nodes) /\ Len(u) = L + 1 /\ (\A i \in 1 .. L : u[i] = s[i]) /\ u[L + 1] = n
  BY <1>1
<1> HIDE DEF u
<1>3. \A i, j \in 1 .. L + 1 : i # j => u[i] # u[j]
  BY <1>1, <1>2 DEF Chain
<1>4. ASSUME NEW i \in 1 .. L - 1
      PROVE  RightChild(g, u[i]) = u[i + 1]
  <2>1. i \in 1 .. L /\ i + 1 \in 1 .. L /\ i # L /\ L \in 1 .. L
    BY <1>1
  <2>2. s[i] \in Nodes \ {s[L], n}
    BY <1>1, <2>1 DEF Chain
  <2>3. g[s[i]] = f[s[i]]
    BY <2>2 DEF Attached, Others
  <2>4. RightChild(f, s[i]) = s[i + 1]
    BY DEF Chain
  <2> QED  BY <1>2, <2>1, <2>3, <2>4 DEF RightChild
<1>5. RightChild(g, s[L]) = n
  <2>1. g[s[L]].index = f[s[L]].index /\ g[s[L]].params = [f[s[L]].params EXCEPT ![f[s[L]].index] = n]
    BY DEF Attached
  <2>2. s[L] \in Nodes
    BY <1>1
  <2>3. f[s[L]].index \in Slots /\ f[s[L]].params \in [Slots -> Nodes \cup {NULL}]
    BY <2>2, NodeFacts
  <2> QED  BY <2>1, <2>3 DEF RightChild
<1>6. RightChild(g, n) = NULL
  <2>1. g[n].params = f[n].params /\ g[n].index \in Slots
    BY NodeFacts DEF Attached
  <2> QED  BY <2>1 DEF RightChild, Loose
<1>7. g[r].parent = NULL
  <2>1. r \in Nodes \ {n} /\ (r = s[L] \/ r \in Nodes \ {s[L], n})
    BY <1>1 DEF Chain
  <2>2. g[r].parent = f[r].parent
    BY <2>1 DEF Attached, Others
  <2> QED  BY <2>2 DEF Chain
<1>8. u[1] = r
  BY <1>1, <1>2 DEF Chain
<1>9. \A i \in 1 .. L : RightChild(g, u[i]) = u[i + 1]
  <2>1. \A i \in 1 .. L : i = L \/ i \in 1 .. L - 1
    BY <1>1
  <2> QED  BY <1>1, <1>2, <1>4, <1>5, <2>1
<1>10. Chain(g, r, u)
  BY <1>1, <1>2, <1>3, <1>6, <1>7, <1>8, <1>9 DEF Chain
<1> QED  BY <1>2, <1>8, <1>10 DEF u

(* The spine after n took the place of its k-th node.                      *)
Upward(s, k, n, whole) ==
  [i \in 1 .. (IF whole THEN Len(s) + 1 ELSE k) |-> IF i < k THEN s[i] ELSE IF i = k THEN n ELSE s[i - 1]]

LEMMA LeftChain ==
  ASSUME NEW f \in NodesType, NEW g \in NodesType, NEW r, NEW s, Chain(f, r, s), NEW k \in 1 .. Len(s),
         NEW n \in Nodes, \A i \in 1 .. Len(s) : s[i] # n,
         Raised(f, g, IF k = 1 THEN NULL ELSE s[k - 1], s[k], n), Loose(f, n)
  PROVE  LET u == Upward(s, k, n, f[n].index = 0)
         IN /\ \A i \in 1 .. k - 1 : u[i] = s[i]
            /\ u[k] = n
            /\ IF f[n].index = 0 THEN Len(u) = Len(s) + 1 /\ \A i \in k .. Len(s) : u[i + 1] = s[i] ELSE Len(u) = k
            /\ u[1] = (IF k = 1 THEN n ELSE r)
            /\ Chain(g, u[1], u)
<1> DEFINE L == Len(s)
           u == Upward(s, k, n, f[n].index = 0)
           H == IF f[n].index = 0 THEN L + 1 ELSE k
           up == IF k = 1 THEN NULL ELSE s[k - 1]
<1>1. s \in Seq(Nodes) /\ L \in Nat /\ L > 0 /\ r \in Nodes /\ \A i \in 1 .. L : s[i] \in Nodes
  BY ChainFacts
<1>2. H \in Nat /\ H >= k /\ H <= L + 1 /\ (H = L + 1 \/ H = k)
  BY <1>1
<1>3. \A i \in 1 .. H : (IF i < k THEN s[i] ELSE IF i = k THEN n ELSE s[i - 1]) \in Nodes
  BY <1>1, <1>2
<1>4. u \in Seq(Nodes) /\ Len(u) = H /\ \A i \in 1 .. H : u[i] = IF i < k THEN s[i] ELSE IF i = k THEN n ELSE s[i - 1]
  BY <1>2, <1>3 DEF Upward
<1> HIDE DEF u
<1>5. \A i, j \in 1 .. L : i # j => s[i] # s[j]
  BY DEF Chain
<1> DEFINE at(i) == IF i < k THEN i ELSE i - 1
<1>19. \A i \in 1 .. H : i # k => at(i) \in 1 .. L /\ u[i] = s[at(i)]
  BY <1>1, <1>2, <1>4
<1>20. \A i \in 1 .. L : i # k - 1 => s[i] \in Nodes \ {up, n}
  BY <1>1, <1>5, Numbers
<1>6. ASSUME NEW i \in 1 .. H, NEW j \in 1 .. H, i # j
      PROVE  u[i] # u[j]
  <2>1. CASE i = k
    <3>1. j # k /\ u[j] = s[at(j)] /\ at(j) \in 1 .. L
      BY <1>6, <1>19, <2>1
    <3>2. u[i] = n /\ s[at(j)] # n
      BY <1>2, <1>4, <2>1, <3>1
    <3> QED  BY <3>1, <3>2
  <2>2. CASE j = k
    <3>1. i # k /\ u[i] = s[at(i)] /\ at(i) \in 1 .. L
      BY <1>6, <1>19, <2>2
    <3>2. u[j] = n /\ s[at(i)] # n
      BY <1>2, <1>4, <2>2, <3>1
    <3> QED  BY <3>1, <3>2
  <2>3. CASE i # k /\ j # k
    <3>1. at(i) \in 1 .. L /\ at(j) \in 1 .. L /\ u[i] = s[at(i)] /\ u[j] = s[at(j)]
      BY <1>19, <2>3
    <3>2. at(i) # at(j)
      BY <1>6, <2>3
    <3> QED  BY <1>5, <3>1, <3>2
  <2> QED  BY <2>1, <2>2, <2>3
<1>7. \A i \in 1 .. L - 1 : RightChild(f, s[i]) = s[i + 1]
  BY DEF Chain
<1>8. \A m \in Nodes \ {up, n} : RightChild(g, m) = RightChild(f, m)
  BY DEF Raised, Others, RightChild
<1>9. k > 1 => RightChild(g, s[k - 1]) = n
  <2>1. SUFFICES ASSUME k > 1 PROVE RightChild(g, s[k - 1]) = n
    OBVIOUS
  <2>2. s[k - 1] \in Nodes /\ s[k - 1] # NULL
    BY <1>1, <2>1, Numbers
  <2>3. f[s[k - 1]].index \in Slots /\ f[s[k - 1]].params \in [Slots -> Nodes \cup {NULL}]
    BY <2>2, NodeFacts
  <2> QED  BY <2>1, <2>2, <2>3 DEF Raised, RightChild
<1>10. RightChild(g, n) = IF f[n].index = 0 THEN s[k] ELSE NULL
  <2>1. f[n].params \in [Slots -> Nodes \cup {NULL}] /\ f[n].index \in Slots /\ f[n].index \in {0, 1}
    BY NodeFacts DEF Loose
  <2>2. g[n].params = [f[n].params EXCEPT ![0] = s[k]] /\ g[n].index = f[n].index
    BY DEF Raised
  <2> QED  BY <2>1, <2>2, Numbers DEF RightChild, Loose
<1>11. ASSUME NEW i \in 1 .. H - 1
       PROVE  RightChild(g, u[i]) = u[i + 1]
  <2>1. CASE i < k - 1
    <3>1. s[i] \in Nodes \ {up, n} /\ i \in 1 .. L - 1
      BY <1>1, <1>20, <2>1
    <3>2. i + 1 \in 1 .. H /\ i + 1 < k /\ i \in 1 .. H /\ i < k
      BY <1>2, <2>1
    <3>3. u[i] = s[i] /\ u[i + 1] = s[i + 1]
      BY <1>4, <3>2
    <3> QED  BY <1>7, <1>8, <3>1, <3>3
  <2>2. CASE i = k - 1
    BY <1>1, <1>2, <1>4, <1>9, <2>2
  <2>3. CASE i = k
    <3>1. H = L + 1 /\ f[n].index = 0
      BY <1>2, <2>3
    <3> QED  BY <1>1, <1>2, <1>4, <1>10, <2>3, <3>1
  <2>4. CASE i > k
    <3>1. H = L + 1
      BY <1>2, <2>4
    <3>2. i - 1 \in 1 .. L - 1 /\ s[i - 1] \in Nodes \ {up, n}
      BY <1>1, <1>20, <2>4, <3>1
    <3>3. RightChild(g, s[i - 1]) = s[i]
      BY <1>1, <1>7, <1>8, <3>2
    <3> QED  BY <1>2, <1>4, <2>4, <3>3
  <2> QED  BY <1>1, <1>2, <2>1, <2>2, <2>3, <2>4
<1>12. RightChild(g, u[H]) = NULL
  <2>1. CASE f[n].index = 0
    <3>1. u[H] = s[L] /\ s[L] \in Nodes \ {up, n}
      BY <1>1, <1>4, <1>20, <2>1
    <3> QED  BY <1>8, <3>1 DEF Chain
  <2>2. CASE f[n].index # 0
    BY <1>1, <1>4, <1>10, <2>2
  <2> QED  BY <2>1, <2>2
<1>13. u[1] = IF k = 1 THEN n ELSE r
  BY <1>1, <1>2, <1>4 DEF Chain
<1>14. g[u[1]].parent = NULL
  <2>1. CASE k = 1
    BY <1>13, <2>1 DEF Raised
  <2>2. CASE k > 1
    <3>1. u[1] = r /\ r = s[1] /\ r \in Nodes /\ r # n /\ r # s[k] /\ up # NULL /\ (r = up \/ r \in Nodes \ {up, s[k], n})
      BY <1>1, <1>5, <1>13, <2>2, Numbers DEF Chain
    <3>2. g[r].parent = f[r].parent
      BY <3>1 DEF Raised, Others
    <3> QED  BY <3>1, <3>2 DEF Chain
  <2> QED  BY <1>1, <2>1, <2>2
<1>15. Chain(g, u[1], u)
  BY <1>2, <1>4, <1>6, <1>11, <1>12, <1>14 DEF Chain
<1>16. \A i \in 1 .. k - 1 : u[i] = s[i]
  BY <1>2, <1>4
<1>17. u[k] = n
  BY <1>2, <1>4
<1>18. IF f[n].index = 0 THEN Len(u) = Len(s) + 1 /\ \A i \in k .. Len(s) : u[i + 1] = s[i] ELSE Len(u) = k
  BY <1>1, <1>2, <1>4
<1> QED  BY <1>13, <1>15, <1>16, <1>17, <1>18 DEF u

LEMMA InsertIs ==
  ASSUME NEW f \in NodesType, NEW r, NEW s, Chain(f, r, s), Linked(f), Below(f),
         NEW n \in Nodes, Loose(f, n), \A i \in 1 .. Len(s) : s[i] # n,
         \A m \in Nodes \ {n} : f[m].index + 1 \in Slots
  PROVE  LET U == Insert([node |-> f, root |-> r], n)
         IN /\ U.node \in NodesType
            /\ \E k, u : Inserted(f, U.node, s, u, k, n) /\ Chain(U.node, U.root, u)
<1> DEFINE T == [node |-> f, root |-> r]
           U == Insert(T, n)
<1>1. s \in Seq(Nodes) /\ Len(s) \in Nat /\ Len(s) > 0 /\ r \in Nodes
      /\ (\A i \in 1 .. Len(s) : s[i] \in Nodes) /\ \A i \in 2 .. Len(s) : f[s[i]].parent = s[i - 1]
  BY ChainFacts
<1>2. PICK k \in 1 .. Len(s) : /\ Stop(T, n) = s[k] /\ Stops(f, s[k], n)
                               /\ \A i \in 1 .. k - 1 : ~Stops(f, s[i], n)
  BY <1>1, StopIs
<1>9. SUFFICES /\ U.node \in NodesType
               /\ \E l, u : Inserted(f, U.node, s, u, l, n) /\ Chain(U.node, U.root, u)
  OBVIOUS
<1> DEFINE t == s[k]
<1>3. t \in Nodes /\ t # n /\ T.node = f /\ T.root = r
  BY <1>1
<1>4. U = IF TakesComma(f, t, n) THEN [T EXCEPT !.node[t].index = @ + 1]
          ELSE IF GoesRight(f, t, n) THEN Attach(T, t, n)
          ELSE Raise(T, t, n)
  BY <1>2, <1>3 DEF Insert
<1>5. s[1] = r /\ f[r].parent = NULL
  BY DEF Chain
<1> HIDE DEF T
<1>6. CASE TakesComma(f, t, n)
  <2> DEFINE u == [i \in 1 .. k |-> s[i]]
  <2>1. U = [T EXCEPT !.node[t].index = @ + 1]
    BY <1>4, <1>6
  <2>2. U.node \in NodesType /\ Separated(f, U.node, t) /\ U.root = r
    BY <1>3, <2>1, SeparatedIs DEF T
  <2>3. Len(u) = k /\ u[1] = r /\ (\A i \in 1 .. k : u[i] = s[i]) /\ Chain(U.node, r, u)
    BY <1>3, <2>2, CommaChain
  <2> HIDE DEF u, U
  <2>4. Comma(f, U.node, s, u, k, n)
    BY <1>6, <2>2, <2>3 DEF Comma
  <2> QED  BY <1>2, <2>2, <2>3, <2>4 DEF Inserted
<1>7. CASE ~TakesComma(f, t, n) /\ GoesRight(f, t, n)
  <2> DEFINE u == Append(s, n)
  <2>1. U = Attach(T, t, n)
    BY <1>4, <1>7
  <2>2. U.node \in NodesType /\ Attached(f, U.node, t, n) /\ U.root = r
    BY <1>3, <2>1, AttachedIs DEF T
  <2>3. k = Len(s)
    <3>1. RightChild(f, s[k]) = NULL
      BY <1>2, <1>7 DEF Stops
    <3>2. k # Len(s) => RightChild(f, s[k]) = s[k + 1] /\ s[k + 1] \in Nodes
      BY <1>1 DEF Chain
    <3> QED  BY <3>1, <3>2, Numbers
  <2>4. Len(u) = Len(s) + 1 /\ u[1] = r /\ (\A i \in 1 .. Len(s) : u[i] = s[i]) /\ u[Len(s) + 1] = n /\ Chain(U.node, r, u)
    <3> HIDE DEF U
    <3> QED  BY <2>2, <2>3, RightChain
  <2> HIDE DEF u, U
  <2>5. Right(f, U.node, s, u, k, n)
    BY <1>7, <2>2, <2>3, <2>4 DEF Right
  <2> QED  BY <1>2, <2>2, <2>4, <2>5 DEF Inserted
<1>8. CASE ~TakesComma(f, t, n) /\ ~GoesRight(f, t, n)
  <2> DEFINE u == Upward(s, k, n, f[n].index = 0)
             up == IF k = 1 THEN NULL ELSE s[k - 1]
  <2>1. U = Raise(T, t, n)
    BY <1>4, <1>8
  <2>2. f[t].parent = up /\ up # t /\ up # n
    <3>1. CASE k = 1
      BY <1>3, <1>5, <3>1, Numbers
    <3>2. CASE k # 1
      <4>1. k \in 2 .. Len(s) /\ k - 1 \in 1 .. Len(s) /\ k - 1 # k
        BY <1>1, <3>2
      <4> QED  BY <1>1, <3>2, <4>1 DEF Chain
    <3> QED  BY <3>1, <3>2
  <2>3. U.node \in NodesType /\ Raised(f, U.node, f[t].parent, t, n) /\ U.root = (IF r = t THEN n ELSE r)
    BY <1>3, <2>1, <2>2, RaisedIs DEF T
  <2>4. U.root = (IF k = 1 THEN n ELSE r)
    <3>1. k # 1 => s[k] # s[1]
      BY <1>1 DEF Chain
    <3> QED  BY <1>5, <2>3, <3>1
  <2> HIDE DEF U
  <2>5. Raised(f, U.node, IF k = 1 THEN NULL ELSE s[k - 1], s[k], n)
    BY <2>2, <2>3
  <2>6. /\ \A i \in 1 .. k - 1 : u[i] = s[i]
        /\ u[k] = n
        /\ IF f[n].index = 0 THEN Len(u) = Len(s) + 1 /\ \A i \in k .. Len(s) : u[i + 1] = s[i] ELSE Len(u) = k
        /\ u[1] = (IF k = 1 THEN n ELSE r)
        /\ Chain(U.node, u[1], u)
    BY <2>3, <2>5, LeftChain
  <2> HIDE DEF u
  <2>7. Left(f, U.node, s, u, k, n)
    BY <1>8, <2>5, <2>6 DEF Left
  <2> QED  BY <1>2, <2>3, <2>4, <2>6, <2>7 DEF Inserted
<1> QED  BY <1>6, <1>7, <1>8 DEF T

(* What is known before an insertion.                                      *)
Insertable(f, g, r, s, u, k, n) ==
  /\ f \in NodesType /\ g \in NodesType /\ Chain(f, r, s) /\ Linked(f) /\ Below(f)
  /\ n \in Nodes /\ Loose(f, n) /\ \A i \in 1 .. Len(s) : s[i] # n
  /\ Inserted(f, g, s, u, k, n)

LEMMA InsertionFacts ==
  ASSUME NEW f, NEW g, NEW r, NEW s, NEW u, NEW k, NEW n, Insertable(f, g, r, s, u, k, n)
  PROVE  /\ k \in 1 .. Len(s) /\ Len(s) \in Nat /\ k \in Nat /\ (\A i \in 1 .. Len(s) : s[i] \in Nodes)
         /\ f \in NodesType /\ g \in NodesType /\ s[k] \in Nodes \ {n} /\ n \in Nodes
         /\ \A i \in 1 .. k - 1 : /\ i \in 1 .. Len(s) - 1 /\ s[i] # s[k] /\ ~TakesComma(f, s[i], n)
                                  /\ GoesRight(f, s[i], n) /\ RightChild(f, s[i]) = s[i + 1]
         /\ k > 1 => /\ s[k - 1] \in Nodes \ {n, s[k]} /\ RightChild(f, s[k - 1]) = s[k] /\ GoesRight(f, s[k - 1], n)
                     /\ f[s[k]].parent = s[k - 1]
         /\ k = 1 => f[s[k]].parent = NULL
         /\ RightChild(f, s[Len(s)]) = NULL
<1> USE DEF Insertable
<1>1. k \in 1 .. Len(s) /\ Len(s) \in Nat /\ k \in Nat /\ \A i \in 1 .. Len(s) : s[i] \in Nodes
  BY ChainFacts DEF Inserted
<1>2. ASSUME NEW i \in 1 .. k - 1
      PROVE  /\ i \in 1 .. Len(s) - 1 /\ s[i] # s[k] /\ ~TakesComma(f, s[i], n)
             /\ GoesRight(f, s[i], n) /\ RightChild(f, s[i]) = s[i + 1]
  <2>1. i \in 1 .. Len(s) - 1 /\ i \in 1 .. Len(s) /\ i # k
    BY <1>1
  <2>2. ~Stops(f, s[i], n)
    BY DEF Inserted
  <2> QED  BY <1>1, <2>1, <2>2 DEF Stops, Chain
<1>3. ASSUME k > 1
      PROVE  s[k - 1] \in Nodes \ {n, s[k]} /\ RightChild(f, s[k - 1]) = s[k] /\ GoesRight(f, s[k - 1], n)
             /\ f[s[k]].parent = s[k - 1]
  <2>1. k - 1 \in 1 .. k - 1 /\ k - 1 \in 1 .. Len(s) /\ k \in 2 .. Len(s) /\ (k - 1) + 1 = k
    BY <1>1, <1>3
  <2>2. f[s[k]].parent = s[k - 1]
    BY <2>1, ChainFacts
  <2> QED  BY <1>1, <1>2, <2>1, <2>2
<1>4. k = 1 => f[s[k]].parent = NULL
  BY DEF Chain
<1> QED  BY <1>1, <1>2, <1>3, <1>4 DEF Chain

(* The fields of the nodes after an insertion.                             *)
LEMMA InsertionFields ==
  ASSUME NEW f, NEW g, NEW r, NEW s, NEW u, NEW k, NEW n, Insertable(f, g, r, s, u, k, n)
  PROVE  /\ \A x \in Nodes : Same(g[x], f[x])
         /\ Comma(f, g, s, u, k, n) =>
              \A x \in Nodes : /\ g[x].params = f[x].params /\ g[x].parent = f[x].parent
                              /\ g[x].index = IF x = s[k] THEN f[x].index + 1 ELSE f[x].index
         /\ Right(f, g, s, u, k, n) =>
              /\ f[s[k]].params[f[s[k]].index] = NULL
              /\ \A x \in Nodes :
                   /\ g[x].parent = IF x = n THEN s[k] ELSE f[x].parent
                   /\ g[x].index = IF x = n /\ f[n].sym = "[" THEN 0 ELSE f[x].index
                   /\ \A j \in Slots : g[x].params[j] = IF x = s[k] /\ j = f[x].index THEN n ELSE f[x].params[j]
         /\ Left(f, g, s, u, k, n) =>
              /\ k > 1 => f[s[k - 1]].params[f[s[k - 1]].index] = s[k]
              /\ \A x \in Nodes :
                   /\ g[x].parent = IF x = n THEN f[s[k]].parent ELSE IF x = s[k] THEN n ELSE f[x].parent
                   /\ g[x].index = f[x].index
                   /\ \A j \in Slots :
                        g[x].params[j] = IF x = n THEN IF j = 0 THEN s[k] ELSE NULL
                                         ELSE IF k > 1 /\ x = s[k - 1] /\ j = f[x].index THEN n ELSE f[x].params[j]
<1> DEFINE t == s[k]
           up == IF k = 1 THEN NULL ELSE s[k - 1]
<1>1. t \in Nodes \ {n} /\ n \in Nodes /\ f \in NodesType /\ g \in NodesType /\ f[t].parent = up
      /\ (k = 1 \/ k > 1)
  BY InsertionFacts
<1>2. Loose(f, n)
  BY DEF Insertable
<1>3. \A m \in Nodes : f[m].index \in Slots /\ f[m].params \in [Slots -> Nodes \cup {NULL}]
  BY <1>1, NodeFacts
<1>6. ASSUME Comma(f, g, s, u, k, n), NEW x \in Nodes
      PROVE  /\ Same(g[x], f[x])
             /\ g[x].params = f[x].params /\ g[x].parent = f[x].parent
             /\ g[x].index = IF x = t THEN f[x].index + 1 ELSE f[x].index
  BY <1>6 DEF Comma, Separated, Others, Same
<1>7. ASSUME Right(f, g, s, u, k, n)
      PROVE  /\ f[t].params[f[t].index] = NULL
             /\ \A x \in Nodes :
                   /\ Same(g[x], f[x])
                   /\ g[x].parent = IF x = n THEN t ELSE f[x].parent
                   /\ g[x].index = IF x = n /\ f[n].sym = "[" THEN 0 ELSE f[x].index
                   /\ \A j \in Slots : g[x].params[j] = IF x = t /\ j = f[x].index THEN n ELSE f[x].params[j]
  <2>1. Attached(f, g, t, n) /\ f[t].params[f[t].index] = NULL
    BY <1>7, InsertionFacts DEF Right, RightChild
  <2>2. \A x \in Nodes : g[x].params = IF x = t THEN [f[t].params EXCEPT ![f[t].index] = n] ELSE f[x].params
    BY <1>1, <2>1 DEF Attached, Others
  <2>3. \A x \in Nodes, j \in Slots : g[x].params[j] = IF x = t /\ j = f[x].index THEN n ELSE f[x].params[j]
    BY <1>1, <1>3, <2>2
  <2>4. \A x \in Nodes : Same(g[x], f[x]) /\ g[x].parent = IF x = n THEN t ELSE f[x].parent
    BY <1>1, <2>1 DEF Attached, Others, Same
  <2>5. \A x \in Nodes : g[x].index = IF x = n /\ f[n].sym = "[" THEN 0 ELSE f[x].index
    BY <1>1, <2>1 DEF Attached, Others, Same
  <2> QED  BY <2>1, <2>3, <2>4, <2>5
<1>8. ASSUME Left(f, g, s, u, k, n)
      PROVE  /\ k > 1 => f[s[k - 1]].params[f[s[k - 1]].index] = t
             /\ \A x \in Nodes :
                   /\ Same(g[x], f[x])
                   /\ g[x].parent = IF x = n THEN f[t].parent ELSE IF x = t THEN n ELSE f[x].parent
                   /\ g[x].index = f[x].index
                   /\ \A j \in Slots :
                        g[x].params[j] = IF x = n THEN IF j = 0 THEN t ELSE NULL
                                         ELSE IF k > 1 /\ x = s[k - 1] /\ j = f[x].index THEN n ELSE f[x].params[j]
  <2>1. Raised(f, g, up, t, n) /\ (up # NULL => k > 1 /\ up = s[k - 1] /\ up \in Nodes \ {n, t})
    BY <1>1, <1>8, InsertionFacts DEF Left
  <2>2. k > 1 => f[s[k - 1]].params[f[s[k - 1]].index] = t /\ up = s[k - 1] /\ up # NULL
    BY InsertionFacts, Numbers DEF RightChild
  <2>3. \A x \in Nodes : g[x].params = IF x = n THEN [f[n].params EXCEPT ![0] = t]
                                       ELSE IF x = up THEN [f[up].params EXCEPT ![f[up].index] = n] ELSE f[x].params
    BY <1>1, <2>1, Numbers DEF Raised, Others
  <2>4. \A x \in Nodes, j \in Slots :
          g[x].params[j] = IF x = n THEN IF j = 0 THEN t ELSE NULL
                           ELSE IF k > 1 /\ x = s[k - 1] /\ j = f[x].index THEN n ELSE f[x].params[j]
    BY <1>1, <1>2, <1>3, <2>1, <2>2, <2>3, Numbers DEF Loose
  <2>5. \A x \in Nodes : /\ Same(g[x], f[x])
                         /\ g[x].parent = IF x = n THEN f[t].parent ELSE IF x = t THEN n ELSE f[x].parent
                         /\ g[x].index = f[x].index
    BY <1>1, <2>1, Numbers DEF Raised, Others, Same
  <2> QED  BY <2>2, <2>4, <2>5
<1>9. Comma(f, g, s, u, k, n) \/ Right(f, g, s, u, k, n) \/ Left(f, g, s, u, k, n)
  BY DEF Insertable, Inserted
<1> QED  BY <1>6, <1>7, <1>8, <1>9

LEMMA LinkedKept ==
  ASSUME NEW f, NEW g, NEW r, NEW s, NEW u, NEW k, NEW n, Insertable(f, g, r, s, u, k, n)
  PROVE  Linked(g)
<1> DEFINE t == s[k]
           up == IF k = 1 THEN NULL ELSE s[k - 1]
<1>1. t \in Nodes \ {n} /\ n \in Nodes /\ f \in NodesType /\ g \in NodesType /\ f[t].parent = up
  BY InsertionFacts
<1>2. Linked(f) /\ Loose(f, n)
  BY DEF Insertable
<1>3. \A m \in Nodes : f[m].index \in Slots /\ f[m].params \in [Slots -> Nodes \cup {NULL}]
  BY <1>1, NodeFacts
<1> SUFFICES ASSUME NEW m \in Nodes, NEW i \in Slots, g[m].params[i] # NULL
             PROVE  /\ g[g[m].params[i]].parent = m
                    /\ \A j \in Slots : g[m].params[j] = g[m].params[i] => j = i
  BY DEF Linked
<1> DEFINE c == g[m].params[i]
<1>4. c \in Nodes
  BY <1>1, NodeFacts
<1>5. f[m].params[i] = c => f[c].parent = m /\ \A j \in Slots : f[m].params[j] = c => j = i
  BY <1>2, <1>4, Numbers DEF Linked
<1>6. CASE Comma(f, g, s, u, k, n)
  <2>1. \A x \in Nodes : g[x].params = f[x].params /\ g[x].parent = f[x].parent
    BY <1>6, InsertionFields
  <2> QED  BY <1>4, <1>5, <2>1
<1>7. CASE Right(f, g, s, u, k, n)
  <2>1. \A x \in Nodes : g[x].parent = IF x = n THEN t ELSE f[x].parent
    BY <1>7, InsertionFields
  <2>2. \A x \in Nodes, j \in Slots : g[x].params[j] = IF x = t /\ j = f[t].index THEN n ELSE f[x].params[j]
    BY <1>1, <1>7, InsertionFields
  <2>5. CASE m = t /\ i = f[t].index
    BY <1>1, <1>2, <2>1, <2>2, <2>5 DEF Loose
  <2>6. CASE ~(m = t /\ i = f[t].index)
    <3>1. f[m].params[i] = c /\ c # n
      BY <1>2, <2>2, <2>6 DEF Loose
    <3> QED  BY <1>1, <1>4, <1>5, <2>1, <2>2, <3>1
  <2> QED  BY <2>5, <2>6
<1>8. CASE Left(f, g, s, u, k, n)
  <2>1. up # NULL => k > 1 /\ up = s[k - 1] /\ up \in Nodes \ {n, t} /\ f[up].params[f[up].index] = t
    BY <1>1, InsertionFacts DEF RightChild
  <2>2. \A x \in Nodes : g[x].parent = IF x = n THEN up ELSE IF x = t THEN n ELSE f[x].parent
    BY <1>1, <1>8, InsertionFields
  <2>3. k > 1 => up = s[k - 1] /\ up # NULL
    BY InsertionFacts, Numbers
  <2>4. \A x \in Nodes, j \in Slots :
          g[x].params[j] = IF x = n THEN IF j = 0 THEN t ELSE NULL
                           ELSE IF x = up /\ j = f[up].index THEN n ELSE f[x].params[j]
    BY <1>8, <2>1, <2>3, InsertionFields, Numbers
  <2>5. CASE m = n
    BY <1>1, <2>2, <2>4, <2>5, Numbers
  <2>6. CASE m = up /\ i = f[up].index
    BY <1>1, <1>2, <2>1, <2>2, <2>4, <2>6, Numbers DEF Loose
  <2>7. CASE m # n /\ ~(m = up /\ i = f[up].index)
    <3>1. f[m].params[i] = c /\ c # n
      BY <1>2, <2>4, <2>7 DEF Loose
    <3>2. c # t
      BY <1>1, <1>3, <1>5, <2>1, <2>7, <3>1, Numbers
    <3> QED  BY <1>1, <1>4, <1>5, <2>2, <2>4, <2>7, <3>1, <3>2
  <2> QED  BY <2>5, <2>6, <2>7
<1>9. Comma(f, g, s, u, k, n) \/ Right(f, g, s, u, k, n) \/ Left(f, g, s, u, k, n)
  BY DEF Insertable, Inserted
<1> QED  BY <1>6, <1>7, <1>8, <1>9

(* The priorities of nodes, of dots and the methods they call, and what    *)
(* an assignment and a dot have below them but for those in S.             *)
Form(f) == \A m \in Nodes : f[m].sym # "none" => \E l \in Nat : f[m].priority = Priority(f[m].sym, l)

Dotted(f) ==
  \A m \in Nodes : f[m].sym = "." =>
    f[m].index = 1 /\ (f[m].params[1] # NULL => f[f[m].params[1]].priority = f[m].priority + 1)

Assigned(f, S) == \A m \in Nodes \ S : f[m].sym = "=" => f[m].params[0] # NULL
Called(f, S)   == \A m \in Nodes \ S : f[m].sym = "." => f[m].params[1] # NULL

(* A node is a constant only if its symbol is one; no node is in a         *)
(* register.                                                               *)
Localized(f) == \A m \in Nodes : f[m].sym = "local" => f[m].place = "local"

Unplaced(f) ==
  /\ \A m \in Nodes : f[m].place # "register" /\ (f[m].place = "const" => f[m].sym = "const")
  /\ Localized(f)

LEMMA FormOf ==
  ASSUME NEW f \in NodesType, Form(f), NEW m \in Nodes, f[m].sym # "none"
  PROVE  /\ f[m].priority \in Int
         /\ \E l \in Nat : f[m].priority = Get_Precedence(f[m].sym) + 13 * l
BY NodeFacts DEF Form, Priority, Scale

LEMMA FormAt ==
  ASSUME NEW f \in NodesType, Form(f), NEW m \in Nodes
  PROVE  /\ f[m].sym = "." => \E l \in Nat : f[m].priority = 10 + 13 * l
         /\ f[m].sym = "=" => \E l \in Nat : f[m].priority = 2 + 13 * l
<1>1. ASSUME f[m].sym = "."
      PROVE  \E l \in Nat : f[m].priority = 10 + 13 * l
  <2>1. Get_Precedence(f[m].sym) = 10
    BY <1>1 DEF Get_Precedence
  <2> QED  BY <1>1, <2>1, FormOf
<1>2. ASSUME f[m].sym = "="
      PROVE  \E l \in Nat : f[m].priority = 2 + 13 * l
  <2>1. Get_Precedence(f[m].sym) = 2
    BY <1>2 DEF Get_Precedence
  <2> QED  BY <1>2, <2>1, FormOf
<1> QED  BY <1>1, <1>2

LEMMA BelowKept ==
  ASSUME NEW f, NEW g, NEW r, NEW s, NEW u, NEW k, NEW n, Insertable(f, g, r, s, u, k, n)
  PROVE  Below(g)
<1> DEFINE t == s[k]
<1>1. t \in Nodes \ {n} /\ n \in Nodes /\ f \in NodesType /\ g \in NodesType
      /\ (k > 1 => s[k - 1] \in Nodes \ {n, s[k]})
  BY InsertionFacts
<1>2. Below(f) /\ Loose(f, n)
  BY DEF Insertable
<1>3. \A m \in Nodes : f[m].index \in Nat /\ g[m].index \in Nat
  BY <1>1, NodeFacts, Numbers
<1> SUFFICES ASSUME NEW m \in Nodes, NEW i \in Slots, i > g[m].index
             PROVE  g[m].params[i] = NULL
  BY DEF Below
<1>4. i \in Nat
  BY Numbers
<1>5. i > f[m].index => f[m].params[i] = NULL
  BY <1>2 DEF Below
<1>6. CASE Comma(f, g, s, u, k, n)
  <2>1. g[m].params = f[m].params /\ (g[m].index = f[m].index \/ g[m].index = f[m].index + 1)
    BY <1>6, InsertionFields
  <2> QED  BY <1>3, <1>4, <1>5, <2>1
<1>7. CASE Right(f, g, s, u, k, n)
  <2>1. /\ g[m].index = IF m = n /\ f[n].sym = "[" THEN 0 ELSE f[m].index
        /\ g[m].params[i] = IF m = t /\ i = f[m].index THEN n ELSE f[m].params[i]
    BY <1>7, InsertionFields
  <2> QED  BY <1>1, <1>2, <1>3, <1>4, <1>5, <2>1 DEF Loose
<1>8. CASE Left(f, g, s, u, k, n)
  <2>1. /\ g[m].index = f[m].index
        /\ g[m].params[i] = IF m = n THEN IF i = 0 THEN t ELSE NULL
                            ELSE IF k > 1 /\ m = s[k - 1] /\ i = f[m].index THEN n ELSE f[m].params[i]
    BY <1>8, InsertionFields
  <2> QED  BY <1>1, <1>2, <1>3, <1>4, <1>5, <2>1 DEF Loose
<1>9. Comma(f, g, s, u, k, n) \/ Right(f, g, s, u, k, n) \/ Left(f, g, s, u, k, n)
  BY DEF Insertable, Inserted
<1> QED  BY <1>6, <1>7, <1>8, <1>9

LEMMA DottedKept ==
  ASSUME NEW f, NEW g, NEW r, NEW s, NEW u, NEW k, NEW n, Insertable(f, g, r, s, u, k, n),
         Form(f), Dotted(f), f[n].sym # "none", \A i \in 1 .. Len(s) : f[s[i]].sym # "none",
         Right(f, g, s, u, k, n) /\ f[s[k]].sym = "." => f[n].priority = f[s[k]].priority + 1
  PROVE  Dotted(g)
<1> DEFINE t == s[k]
           up == s[k - 1]
<1>1. t \in Nodes \ {n} /\ n \in Nodes /\ f \in NodesType /\ g \in NodesType /\ k \in 1 .. Len(s)
      /\ (k > 1 => up \in Nodes \ {n, t} /\ f[up].params[f[up].index] = t /\ GoesRight(f, up, n)
                     /\ f[t].parent = up /\ k - 1 \in 1 .. Len(s))
      /\ (k = 1 => f[t].parent = NULL) /\ (k = 1 \/ k > 1)
  BY InsertionFacts DEF RightChild
<1>2. Loose(f, n)
  BY DEF Insertable
<1>3. \A x \in Nodes : g[x].sym = f[x].sym /\ g[x].priority = f[x].priority
  BY InsertionFields DEF Same
<1>4. 1 \in Slots
  BY <1>1, Numbers
<1> SUFFICES ASSUME NEW m \in Nodes, f[m].sym = "."
             PROVE  g[m].index = 1 /\ (g[m].params[1] # NULL => f[g[m].params[1]].priority = f[m].priority + 1)
  <2>1. \A x \in Nodes : g[x].params[1] # NULL => g[x].params[1] \in Nodes
    BY <1>1, <1>4, NodeFacts
  <2> QED  BY <1>3, <2>1 DEF Dotted
<1>5. f[m].index = 1 /\ (f[m].params[1] # NULL => f[f[m].params[1]].priority = f[m].priority + 1)
  BY DEF Dotted
<1>6. CASE Comma(f, g, s, u, k, n)
  <2>1. m # t
    <3>1. SUFFICES ASSUME m = t PROVE FALSE
      OBVIOUS
    <3>2. f[t].parent # NULL /\ f[f[t].parent].sym = "."
      BY <1>6, <3>1 DEF Comma, TakesComma, Callables
    <3>3. f[up].sym = "." /\ k > 1
      BY <1>1, <3>2
    <3>4. f[up].index = 1 /\ f[t].priority = f[up].priority + 1
      BY <1>1, <3>3, Numbers DEF Dotted
    <3>5. PICK l \in Nat : f[t].priority = 10 + 13 * l
      BY <1>1, <3>1, FormAt
    <3>6. PICK q \in Nat : f[up].priority = 10 + 13 * q
      BY <1>1, <3>3, FormAt
    <3> QED  BY <3>4, <3>5, <3>6
  <2> QED  BY <1>5, <1>6, <2>1, InsertionFields
<1>7. CASE Right(f, g, s, u, k, n)
  <2>1. /\ g[m].index = IF m = n /\ f[n].sym = "[" THEN 0 ELSE f[m].index
        /\ g[m].params[1] = IF m = t /\ 1 = f[m].index THEN n ELSE f[m].params[1]
    BY <1>4, <1>7, InsertionFields
  <2> QED  BY <1>1, <1>5, <1>7, <2>1
<1>8. CASE Left(f, g, s, u, k, n)
  <2>1. /\ g[m].index = f[m].index
        /\ g[m].params[1] = IF m = n THEN NULL
                            ELSE IF k > 1 /\ m = up /\ 1 = f[m].index THEN n ELSE f[m].params[1]
    BY <1>4, <1>8, InsertionFields
  <2>2. CASE k > 1 /\ m = up
    <3>1. f[up].index = 1 /\ f[t].priority = f[up].priority + 1
      BY <1>1, <1>5, <2>2, Numbers
    <3>2. PICK l \in Nat : f[up].priority = 10 + 13 * l
      BY <1>1, <2>2, FormAt
    <3>3. PICK q \in Nat : f[n].priority = Get_Precedence(f[n].sym) + 13 * q
      BY <1>1, FormOf
    <3>4. ~GoesRight(f, t, n) /\ GoesRight(f, up, n)
      BY <1>1, <1>8, <2>2 DEF Left
    <3>5. f[n].priority \in Int /\ f[t].priority \in Int
      BY <1>1, NodeFacts
    <3>6. f[n].priority <= f[t].priority
      BY <3>4, <3>5 DEF GoesRight
    <3>7. f[n].priority > f[up].priority
      <4>1. f[n].sym = "=" => f[n].priority = 2 + 13 * q
        BY <3>3, Precedences
      <4>2. f[n].priority > f[up].priority \/ (f[n].sym = "=" /\ f[n].priority = f[up].priority)
        BY <3>4 DEF GoesRight, R_Assoc
      <4> QED  BY <3>2, <4>1, <4>2
    <3>8. f[n].priority = f[up].priority + 1
      BY <3>1, <3>2, <3>5, <3>6, <3>7
    <3> QED  BY <1>5, <2>1, <2>2, <3>1, <3>8
  <2>3. CASE ~(k > 1 /\ m = up)
    BY <1>5, <2>1, <2>3
  <2> QED  BY <2>2, <2>3
<1>9. Comma(f, g, s, u, k, n) \/ Right(f, g, s, u, k, n) \/ Left(f, g, s, u, k, n)
  BY DEF Insertable, Inserted
<1> QED  BY <1>6, <1>7, <1>8, <1>9

LEMMA FieldsKept ==
  ASSUME NEW f, NEW g, NEW r, NEW s, NEW u, NEW k, NEW n, Insertable(f, g, r, s, u, k, n), NEW S,
         Form(f), Assigned(f, {n}), Called(f, S), Unplaced(f), f[n].sym = "=" => Left(f, g, s, u, k, n)
  PROVE  Form(g) /\ Assigned(g, {}) /\ Called(g, S) /\ Unplaced(g)
<1> DEFINE t == s[k]
<1>1. t \in Nodes \ {n} /\ n \in Nodes
  BY InsertionFacts
<1>2. Loose(f, n)
  BY DEF Insertable
<1>3. \A x \in Nodes : g[x].sym = f[x].sym /\ g[x].priority = f[x].priority /\ g[x].place = f[x].place
  BY InsertionFields DEF Same
<1>4. 0 \in Slots /\ 1 \in Slots
  BY <1>1, Numbers
<1>5. ASSUME NEW x \in Nodes, NEW j \in Slots, f[x].params[j] # NULL
      PROVE  g[x].params[j] # NULL
  <2>1. n # NULL /\ t # NULL
    BY <1>1, Numbers
  <2>2. x # n
    BY <1>2, <1>5 DEF Loose
  <2>3. Comma(f, g, s, u, k, n) \/ Right(f, g, s, u, k, n) \/ Left(f, g, s, u, k, n)
    BY DEF Insertable, Inserted
  <2>4. g[x].params[j] \in {f[x].params[j], n, t}
    BY <2>2, <2>3, InsertionFields
  <2> QED  BY <1>5, <2>1, <2>4
<1>6. Assigned(g, {})
  <2>1. ASSUME NEW m \in Nodes, f[m].sym = "="
        PROVE  g[m].params[0] # NULL
    <3>1. CASE m = n
      <4>1. g[n].params[0] = t
        BY <1>1, <1>4, <2>1, <3>1, InsertionFields
      <4> QED  BY <1>1, <3>1, <4>1, Numbers
    <3>2. CASE m # n
      BY <1>4, <1>5, <2>1, <3>2 DEF Assigned
    <3> QED  BY <3>1, <3>2
  <2> QED  BY <1>3, <2>1 DEF Assigned
<1>7. Called(g, S)
  BY <1>3, <1>4, <1>5 DEF Called
<1> QED  BY <1>3, <1>6, <1>7 DEF Form, Unplaced, Localized
(* The node of a symbol before it is inserted.                             *)
LEMMA FinalizeIs ==
  ASSUME NEW n \in Nodes, NEW x \in Kinds, NEW p \in Nat, NEW b, b = Finalize(x, p)
  PROVE  /\ b \in NodeType /\ b.sym = x /\ b.priority = Get_Precedence(x) + 13 * p
         /\ b.index = (IF x \in Callables THEN 0 ELSE 1) /\ b.params = [i \in Slots |-> NULL] /\ b.parent = NULL
         /\ b.place = (IF x \in {"local", "const"} THEN x ELSE "none")
         /\ Blank \in NodeType /\ Blank.params = [i \in Slots |-> NULL] /\ Blank.parent = NULL /\ Blank.sym = "none"
         /\ Blank.place = "none" /\ Blank.index = 0
<1>1. Get_Precedence(x) \in Int
  BY Precedences
<1>2. 0 \in Slots /\ 1 \in Slots
  BY Numbers
<1>3. Blank \in NodeType /\ Blank.params = [i \in Slots |-> NULL] /\ Blank.parent = NULL /\ Blank.sym = "none"
      /\ Blank.place = "none" /\ Blank.index = 0
  BY <1>2 DEF Blank, NodeType
<1>4. Priority(x, p) \in Int /\ Priority(x, p) = Get_Precedence(x) + 13 * p
  BY <1>1 DEF Priority, Scale
<1>5. b = [[[[Blank EXCEPT !.sym = x] EXCEPT !.priority = Priority(x, p)]
              EXCEPT !.index = IF x \in Callables THEN 0 ELSE 1]
              EXCEPT !.place = IF x \in {"local", "const"} THEN x ELSE "none"]
  BY DEF Finalize
<1> QED  BY <1>2, <1>3, <1>4, <1>5 DEF NodeType

(* The tree h before the node n comes, the nodes f with it, and what is    *)
(* known of them.                                                          *)
Grown(h, n, S) ==
  /\ h \in NodesType /\ n \in Nodes
  /\ Linked(h) /\ Below(h) /\ Form(h) /\ Dotted(h) /\ Assigned(h, {}) /\ Called(h, S) /\ Unplaced(h)
  /\ \A m \in Nodes : (m >= n => h[m] = Blank) /\ h[m].index < n

Joined(h, f, n, x, p) ==
  /\ f \in NodesType /\ x \in Kinds /\ p \in Nat
  /\ f[n] = Finalize(x, p) /\ \A m \in Nodes \ {n} : f[m] = h[m]

Prepared(h, f, n, S, x, p) ==
  /\ Linked(f) /\ Below(f) /\ Form(f) /\ Dotted(f) /\ Unplaced(f)
  /\ Loose(f, n) /\ Assigned(f, {n}) /\ Called(f, S \cup {n})
  /\ f[n].sym = x /\ f[n].priority = Get_Precedence(x) + 13 * p
  /\ f[n].index = (IF x \in Callables THEN 0 ELSE 1)
  /\ \A m \in Nodes \ {n} : f[m] = h[m] /\ f[m].index + 1 \in Slots
  /\ \A r, s : Chain(h, r, s) /\ h[r].sym # "none" /\ (\A i \in 1 .. Len(s) : h[s[i]].sym # "none")
                 => Chain(f, r, s) /\ \A i \in 1 .. Len(s) : s[i] # n /\ f[s[i]] = h[s[i]]

LEMMA NewNode ==
  ASSUME NEW h, NEW f, NEW n, NEW S, NEW x, NEW p, Grown(h, n, S), Joined(h, f, n, x, p)
  PROVE  Prepared(h, f, n, S, x, p)
<1> USE DEF Grown, Joined
<1> DEFINE b == Finalize(x, p)
<1>2. 0 \in Slots /\ 1 \in Slots /\ n \in Nat /\ MaxSymbols \in Nat /\ NULL = 0
  BY Numbers DEF NULL
<1>3. /\ b \in NodeType /\ b.sym = x /\ b.priority = Get_Precedence(x) + 13 * p
      /\ b.index = (IF x \in Callables THEN 0 ELSE 1) /\ b.params = [i \in Slots |-> NULL] /\ b.parent = NULL
      /\ b.place = (IF x \in {"local", "const"} THEN x ELSE "none")
      /\ Blank \in NodeType /\ Blank.params = [i \in Slots |-> NULL] /\ Blank.parent = NULL /\ Blank.sym = "none"
  BY FinalizeIs
<1>4. f[n] = b /\ \A m \in Nodes \ {n} : f[m] = h[m]
  OBVIOUS
<1> HIDE DEF b
<1>5. f[n] = b
  BY <1>4
<1>6. h[n] = Blank
  BY <1>2
<1>7. \A m \in Nodes, i \in Slots : h[m].params[i] # n
  <2>1. SUFFICES ASSUME NEW m \in Nodes, NEW i \in Slots, h[m].params[i] = n PROVE FALSE
    OBVIOUS
  <2>2. h[n].parent = m
    BY <2>1, Numbers DEF Linked
  <2> QED  BY <1>3, <1>6, <2>2, Numbers
<1>8. Loose(f, n)
  BY <1>3, <1>5, <1>7, Numbers DEF Loose
<1>9. \A m \in Nodes, i \in Slots : f[m].params[i] = h[m].params[i] /\ f[m].parent = h[m].parent
  BY <1>3, <1>5, <1>6
<1>10. Linked(f)
  <2>1. \A m \in Nodes, i \in Slots : h[m].params[i] \in Nodes \cup {NULL}
    BY NodeFacts
  <2> QED  BY <1>9, <2>1 DEF Linked
<1>11. Below(f)
  BY <1>3, <1>5 DEF Below
<1>12. Form(f)
  BY <1>3, <1>5 DEF Form, Priority, Scale
<1>13. Dotted(f)
  <2>1. ASSUME NEW m \in Nodes, f[m].sym = "."
        PROVE  f[m].index = 1 /\ (f[m].params[1] # NULL => f[f[m].params[1]].priority = f[m].priority + 1)
    <3>1. CASE m = n
      BY <1>2, <1>3, <1>5, <2>1, <3>1 DEF Callables
    <3>2. CASE m # n
      <4>1. h[m].params[1] \in Nodes \cup {NULL} /\ h[m].params[1] # n
        BY <1>2, <1>7, NodeFacts
      <4> QED  BY <1>5, <2>1, <3>2, <4>1 DEF Dotted
    <3> QED  BY <3>1, <3>2
  <2> QED  BY <2>1 DEF Dotted
<1>14. Assigned(f, {n}) /\ Called(f, S \cup {n}) /\ Unplaced(f)
  BY <1>3, <1>5 DEF Assigned, Called, Unplaced, Localized
<1>15. \A m \in Nodes \ {n} : f[m] = h[m] /\ f[m].index + 1 \in Slots
  <2>1. ASSUME NEW m \in Nodes \ {n} PROVE f[m] = h[m] /\ f[m].index + 1 \in Slots
    <3>1. h[m].index < n /\ h[m].index \in Nat /\ n <= MaxSymbols
      BY NodeFacts, Numbers
    <3> QED  BY <1>2, <1>5, <3>1 DEF Slots, MaxParams
  <2> QED  BY <2>1
<1>16. ASSUME NEW r, NEW s, Chain(h, r, s), h[r].sym # "none", \A i \in 1 .. Len(s) : h[s[i]].sym # "none"
       PROVE  Chain(f, r, s) /\ \A i \in 1 .. Len(s) : s[i] # n /\ f[s[i]] = h[s[i]]
  <2>1. s \in Seq(Nodes) /\ Len(s) \in Nat /\ Len(s) > 0 /\ r \in Nodes /\ \A i \in 1 .. Len(s) : s[i] \in Nodes
    BY <1>16, ChainFacts
  <2>2. \A i \in 1 .. Len(s) : s[i] # n /\ f[s[i]] = h[s[i]]
    BY <1>3, <1>5, <1>6, <1>16, <2>1
  <2>3. f[r] = h[r]
    BY <1>3, <1>5, <1>6, <1>16, <2>1
  <2>4. \A i \in 1 .. Len(s) : RightChild(f, s[i]) = RightChild(h, s[i])
    BY <2>2 DEF RightChild
  <2>5. Chain(f, r, s)
    BY <1>16, <2>1, <2>3, <2>4 DEF Chain
  <2> QED  BY <2>2, <2>5
<1>17. f[n].sym = x /\ f[n].priority = Get_Precedence(x) + 13 * p /\ f[n].index = (IF x \in Callables THEN 0 ELSE 1)
  BY <1>3, <1>5
<1> QED  BY <1>5, <1>8, <1>10, <1>11, <1>12, <1>13, <1>14, <1>15, <1>16, <1>17 DEF Prepared
---------------------------------------------------------------------------
(* Reading a symbol, apart from the tree.                                  *)
Brackets == [kind : {"call", "group", "list", "index"}, target : BOOLEAN]

Typed ==
  /\ symbols \in Seq(Kinds) /\ Len(symbols) <= MaxSymbols
  /\ open \in Seq(Brackets) /\ precedence = Len(open) /\ target \in BOOLEAN
  /\ node \in NodesType /\ root \in Nodes \cup {NULL} /\ stage \in {"parse", "evaluate"}

LEMMA ReadFacts ==
  ASSUME Typed, NEW x \in Symbols, ReadSymbol(x)
  PROVE  /\ x \in Kinds /\ Len(symbols) + 1 \in Nodes /\ Len(symbols) \in Nat
         /\ symbols' = Append(symbols, x) /\ symbols' \in Seq(Kinds) /\ Len(symbols') = Len(symbols) + 1
         /\ Last(symbols') = x
         /\ open' \in Seq(Brackets) /\ precedence' = Len(open') /\ precedence' \in Nat /\ precedence \in Nat
         /\ target' \in BOOLEAN /\ precedence' = NextPrecedence(x)
         /\ x \in {"(", "["} => /\ precedence' = precedence + 1 /\ open'[precedence'].target = target
                                /\ \A j \in 1 .. precedence : open'[j] = open[j]
         /\ x \in {")", "]"} => /\ precedence > 0 /\ precedence' = precedence - 1
                                /\ \A j \in 1 .. precedence - 1 : open'[j] = open[j]
         /\ x \notin {"(", "[", ")", "]"} => precedence' = precedence /\ open' = open
         /\ target' => x \in {"local", "attribute"} \/ (x = "]" /\ open[precedence].target)
         /\ phase = "member" => x = "object"
         /\ phase' = "member" <=> x = "."
         /\ x = "=" => target
<1>1. x \in Kinds /\ symbols \in Seq(Kinds) /\ open \in Seq(Brackets) /\ precedence = Len(open)
      /\ Len(open) \in Nat /\ Len(symbols) \in Nat
  BY SyntaxTreeAssumption DEF Typed
<1>2. WellFormed(x) /\ symbols' = Append(symbols, x) /\ open' = Opened(x) /\ phase' = NextPhase(x)
      /\ target' = NextTarget(x) /\ precedence' = NextPrecedence(x)
      /\ Len(symbols) + 1 + Missing(x) <= MaxSymbols
  BY DEF ReadSymbol
<1>3. x \in {")", "]"} => open # <<>>
  <2>1. x \in {")", "]"} => Closes(x)
    BY <1>2 DEF WellFormed, StartsExpression, Continues, Operands, Callables
  <2> QED  BY <2>1 DEF Closes, Top
<1>4. /\ open' \in Seq(Brackets) /\ precedence' = Len(open')
      /\ x \in {"(", "["} => /\ precedence' = precedence + 1 /\ open'[precedence'].target = target
                                /\ \A j \in 1 .. precedence : open'[j] = open[j]
      /\ x \in {")", "]"} => /\ precedence > 0 /\ precedence' = precedence - 1
                             /\ \A j \in 1 .. precedence - 1 : open'[j] = open[j]
      /\ x \notin {"(", "[", ")", "]"} => precedence' = precedence /\ open' = open
  <2>1. CASE x \in {"(", "["}
    <3>1. PICK kind \in {"call", "group", "list", "index"} : open' = Append(open, Bracket(kind))
      BY <1>2, <2>1 DEF Opened
    <3>2. Bracket(kind) \in Brackets /\ Bracket(kind).target = target
      BY DEF Bracket, Brackets, Typed
    <3> QED  BY <1>1, <1>2, <2>1, <3>1, <3>2 DEF NextPrecedence
  <2>2. CASE x \in {")", "]"}
    <3>1. open' = SubSeq(open, 1, Len(open) - 1) /\ Len(open) > 0
      BY <1>1, <1>2, <1>3, <2>2 DEF Opened, Front
    <3>2. open' \in Seq(Brackets) /\ Len(open') = Len(open) - 1 /\ \A j \in 1 .. Len(open) - 1 : open'[j] = open[j]
      BY <1>1, <3>1
    <3> QED  BY <1>1, <1>2, <2>2, <3>1, <3>2 DEF NextPrecedence
  <2>3. CASE x \notin {"(", "[", ")", "]"}
    BY <1>1, <1>2, <2>3 DEF Opened, NextPrecedence
  <2> QED  BY <2>1, <2>2, <2>3
<1>5. Len(symbols) + 1 \in Nodes
  <2>1. Missing(x) \in Nat
    <3>1. Len(Opened(x)) \in Nat
      BY <1>2, <1>4
    <3> QED  BY <3>1 DEF Missing
  <2> QED  BY <1>1, <1>2, <2>1, Numbers
<1>6. target' \in BOOLEAN /\ (target' => x \in {"local", "attribute"} \/ (x = "]" /\ open[precedence].target))
  <2>1. CASE x = "]"
    <3>1. Top = open[precedence] /\ open[precedence] \in Brackets
      BY <1>1, <1>3, <2>1 DEF Top, Last
    <3> QED  BY <1>2, <2>1, <3>1 DEF NextTarget, Brackets
  <2>2. CASE x \in {"local", "attribute"}
    <3>1. target' = (LastSymbol \in {"none", "=", "(", "[", "comma"})
      BY <1>2, <2>2 DEF NextTarget
    <3>2. (LastSymbol \in {"none", "=", "(", "[", "comma"}) \in BOOLEAN
      OBVIOUS
    <3> QED  BY <2>2, <3>1, <3>2
  <2>3. CASE x \notin {"local", "attribute", "]"}
    BY <1>2, <2>3 DEF NextTarget
  <2> QED  BY <2>1, <2>2, <2>3
<1>7. phase = "member" => x = "object"
  BY <1>2 DEF WellFormed, StartsExpression, Continues, Closes
<1>8. phase' = "member" <=> x = "."
  BY <1>2 DEF NextPhase, Callables, Operands
<1>9. x = "=" => target
  BY <1>2 DEF WellFormed, StartsExpression, Continues, Closes, Operands, Callables
<1>10. symbols' \in Seq(Kinds) /\ Len(symbols') = Len(symbols) + 1 /\ Last(symbols') = x
  BY <1>1, <1>2 DEF Last
<1> QED  BY <1>1, <1>2, <1>4, <1>5, <1>6, <1>7, <1>8, <1>9, <1>10
---------------------------------------------------------------------------
(* The tree and its spine while a statement is read.  The priorities on    *)
(* the spine of what may be assigned to are above those of an assignment.  *)
Fits == \A m \in Nodes : (m > Len(symbols) => node[m] = Blank) /\ node[m].index <= Len(symbols)

Pending == IF stage = "parse" /\ phase = "member" THEN {Len(symbols)} ELSE {}

Built == /\ Linked(node) /\ Below(node) /\ Dotted(node) /\ Assigned(node, {}) /\ Called(node, Pending) /\ Fits

Higher(f, s, b) == \E i \in 1 .. Len(s) : f[s[i]].priority > b

Spined(s) ==
  /\ \A i \in 1 .. Len(s) : node[s[i]].sym # "none"
  /\ target => Higher(node, s, 13 * precedence + 2)
  /\ \A j \in 1 .. precedence : open[j].target => Higher(node, s, 13 * (j - 1) + 2)
  /\ phase = "member" =>
       /\ s[Len(s)] = Len(symbols) /\ node[Len(symbols)].sym = "."
       /\ node[Len(symbols)].priority = 13 * precedence + 10
       /\ \A i \in 1 .. Len(s) : node[s[i]].priority <= 13 * precedence + 10

Untargeted == ~target /\ phase # "member" /\ \A j \in 1 .. precedence : ~open[j].target

Reading ==
  stage = "parse" =>
    /\ Form(node) /\ Unplaced(node)
    /\ root = NULL => Untargeted
    /\ root # NULL => \E s : Chain(node, root, s) /\ Spined(s)

(* A node of the spine above a bound stays there, or n replaces it.        *)
LEMMA HighKept ==
  ASSUME NEW f, NEW g, NEW r, NEW s, NEW u, NEW k, NEW n, Insertable(f, g, r, s, u, k, n), Form(f), Dotted(f),
         NEW b \in Int, NEW q \in Int, f[n].priority > b, Higher(f, s, b),
         f[n].sym = "comma" => f[n].priority = 13 * q + 1 /\ b <= 13 * (q - 1) + 2
  PROVE  Higher(g, u, b)
<1> DEFINE t == s[k]
<1>1. t \in Nodes \ {n} /\ n \in Nodes /\ f \in NodesType /\ g \in NodesType /\ k \in 1 .. Len(s) /\ Len(s) \in Nat
      /\ (\A i \in 1 .. Len(s) : s[i] \in Nodes)
  BY InsertionFacts
<1>2. \A x \in Nodes : g[x].priority = f[x].priority
  BY InsertionFields DEF Same
<1>3. PICK i \in 1 .. Len(s) : f[s[i]].priority > b
  BY DEF Higher
<1>4. ASSUME NEW j \in 1 .. Len(u), u[j] \in Nodes, f[u[j]].priority > b
      PROVE  Higher(g, u, b)
  BY <1>2, <1>4 DEF Higher
<1>5. CASE Comma(f, g, s, u, k, n)
  <2>1. Len(u) = k /\ (\A j \in 1 .. k : u[j] = s[j]) /\ TakesComma(f, t, n)
    BY <1>5 DEF Comma
  <2>2. f[t].priority > b
    <3>1. f[n].sym = "comma" /\ f[n].priority < f[t].priority + 13
      BY <2>1 DEF TakesComma, Scale
    <3>2. f[t].priority \in Int /\ f[n].priority = 13 * q + 1 /\ b <= 13 * (q - 1) + 2
      BY <1>1, <3>1, NodeFacts
    <3>3. CASE f[t].sym \in Callables \cup {"["}
      <4>1. Get_Precedence(f[t].sym) \in {11, 13, -2} /\ f[t].sym # "none"
        BY <3>3 DEF Get_Precedence, Callables, Scale
      <4>2. PICK l \in Nat : f[t].priority = Get_Precedence(f[t].sym) + 13 * l
        BY <1>1, <4>1, FormOf
      <4>3. b \in Int /\ q \in Int /\ f[t].priority \in Int /\ 13 * q + 1 < f[t].priority + 13 /\ b <= 13 * (q - 1) + 2
        BY <3>1, <3>2, <1>1
      <4> HIDE DEF t
      <4>4. CASE f[t].priority = 11 + 13 * l
        BY <4>3, <4>4
      <4>5. CASE f[t].priority = 13 + 13 * l
        BY <4>3, <4>5
      <4>6. CASE f[t].priority = -2 + 13 * l
        BY <4>3, <4>6
      <4> QED  BY <4>1, <4>2, <4>4, <4>5, <4>6
    <3>4. CASE f[t].parent # NULL /\ f[f[t].parent].sym = "."
      <4>1. k > 1 /\ f[t].parent = s[k - 1] /\ s[k - 1] \in Nodes /\ RightChild(f, s[k - 1]) = t
        BY <1>1, <3>4, InsertionFacts
      <4>2. f[t].priority = f[s[k - 1]].priority + 1
        BY <1>1, <3>4, <4>1, Numbers DEF Dotted, RightChild
      <4>3. PICK l \in Nat : f[s[k - 1]].priority = 10 + 13 * l
        BY <1>1, <3>4, <4>1, FormAt
      <4> QED  BY <3>1, <3>2, <4>2, <4>3
    <3> QED  BY <2>1, <3>3, <3>4 DEF TakesComma
  <2>3. k \in 1 .. Len(u) /\ u[k] = t
    BY <1>1, <2>1
  <2> QED  BY <1>1, <1>4, <2>2, <2>3
<1>6. CASE Right(f, g, s, u, k, n)
  <2>1. i \in 1 .. Len(u) /\ u[i] = s[i]
    BY <1>1, <1>6 DEF Right
  <2> QED  BY <1>1, <1>3, <1>4, <2>1
<1>7. CASE Left(f, g, s, u, k, n)
  <2>1. k \in 1 .. Len(u) /\ u[k] = n
    BY <1>1, <1>7 DEF Left
  <2> QED  BY <1>1, <1>4, <2>1
<1>9. Comma(f, g, s, u, k, n) \/ Right(f, g, s, u, k, n) \/ Left(f, g, s, u, k, n)
  BY DEF Insertable, Inserted
<1> QED  BY <1>5, <1>6, <1>7, <1>9

(* The nodes with that of a symbol that is read, and how it is inserted.   *)
Fresh(x, p) == [node EXCEPT ![Len(symbols) + 1] = Finalize(x, p)]

LEMMA NodeRead ==
  ASSUME Typed, Built, Reading, NEW x \in Symbols, x \notin {"(", ")", "]"}, ReadSymbol(x)
  PROVE  LET n == Len(symbols) + 1
             f == Fresh(x, precedence')
         IN /\ n \in Nodes
            /\ f \in NodesType /\ Prepared(node, f, n, Pending, x, precedence')
            /\ root = NULL => node' = [f EXCEPT ![n] = AsConstructor(f[n])] /\ root' = n
            /\ \A s : root # NULL /\ Chain(node, root, s) /\ Spined(s) =>
                 /\ \A i \in 1 .. Len(s) : s[i] # n /\ f[s[i]] = node[s[i]]
                 /\ \E k, u : Insertable(f, node', root, s, u, k, n) /\ Chain(node', root', u)
<1> DEFINE n == Len(symbols) + 1
           f == Fresh(x, precedence')
<1>1. n \in Nodes /\ Len(symbols) \in Nat /\ x \in Kinds /\ precedence' \in Nat
  BY ReadFacts
<1>2. node \in NodesType /\ stage = "parse"
  BY DEF Typed, ReadSymbol
<1>3. \A m \in Nodes : (m >= n => node[m] = Blank) /\ node[m].index < n
  <2>1. ASSUME NEW m \in Nodes PROVE (m >= n => m > Len(symbols)) /\ node[m].index < n
    BY <1>1, <1>2, NodeFacts, Numbers DEF Built, Fits
  <2> QED  BY <2>1 DEF Built, Fits
<1>4. f \in NodesType /\ Prepared(node, f, n, Pending, x, precedence')
  <2>1. Grown(node, n, Pending)
    BY <1>1, <1>2, <1>3 DEF Built, Reading, Grown
  <2>2. Joined(node, f, n, x, precedence')
    <3>1. f = [node EXCEPT ![n] = Finalize(x, precedence')]
      BY DEF Fresh
    <3>2. Finalize(x, precedence') \in NodeType
      BY <1>1, FinalizeIs
    <3> HIDE DEF n, f
    <3> QED  BY <1>1, <1>2, <3>1, <3>2 DEF NodesType, Joined
  <2> HIDE DEF n, f
  <2> QED  BY <2>1, <2>2, NewNode DEF Joined
<1>5. node' = Process(n, Finalize(x, precedence')).node /\ root' = Process(n, Finalize(x, precedence')).root
  BY ReadFacts DEF ReadSymbol
<1>6. root = NULL => Process(n, Finalize(x, precedence')) = [node |-> [f EXCEPT ![n] = AsConstructor(f[n])], root |-> n]
  BY DEF Process, Fresh
<1>7. root # NULL => Process(n, Finalize(x, precedence')) = Insert([node |-> f, root |-> root], n)
  BY DEF Process, Fresh
<1> HIDE DEF f
<1>8. ASSUME NEW s, root # NULL, Chain(node, root, s), Spined(s)
      PROVE  /\ \A i \in 1 .. Len(s) : s[i] # n /\ f[s[i]] = node[s[i]]
             /\ \E k, u : Insertable(f, node', root, s, u, k, n) /\ Chain(node', root', u)
  <2>1. \A i \in 1 .. Len(s) : node[s[i]].sym # "none"
    BY <1>8 DEF Spined
  <2>2. node[root].sym # "none"
    <3>1. s[1] = root /\ 1 \in 1 .. Len(s)
      BY <1>2, <1>8, ChainFacts DEF Chain
    <3> QED  BY <2>1, <3>1
  <2>3. Chain(f, root, s) /\ \A i \in 1 .. Len(s) : s[i] # n /\ f[s[i]] = node[s[i]]
    BY <1>4, <1>8, <2>1, <2>2 DEF Prepared
  <2>4. /\ node' \in NodesType
        /\ \E k, u : Inserted(f, node', s, u, k, n) /\ Chain(node', root', u)
    <3> DEFINE U == Insert([node |-> f, root |-> root], n)
    <3>1. U.node \in NodesType /\ \E k, u : Inserted(f, U.node, s, u, k, n) /\ Chain(U.node, U.root, u)
      BY <1>1, <1>4, <2>3, InsertIs DEF Prepared
    <3>2. node' = U.node /\ root' = U.root
      BY <1>5, <1>7, <1>8
    <3> HIDE DEF U
    <3> QED  BY <3>1, <3>2
  <2> QED  BY <1>1, <1>4, <2>3, <2>4 DEF Insertable, Prepared
<1>9. root = NULL => node' = [f EXCEPT ![n] = AsConstructor(f[n])] /\ root' = n
  <2> HIDE DEF n
  <2> QED  BY <1>5, <1>6
<1> QED  BY <1>1, <1>4, <1>8, <1>9 DEF f

(* A symbol is read: n is its node, f the nodes with it, and u the spine   *)
(* after its insertion at the k-th node of the spine s.                    *)
TreeStep(x, n, f, s, u, k) ==
  /\ Typed /\ Built /\ Reading /\ x \in Symbols /\ x \notin {"(", ")", "]"} /\ ReadSymbol(x)
  /\ n = Len(symbols) + 1 /\ n \in Nodes
  /\ f \in NodesType /\ Prepared(node, f, n, Pending, x, precedence')
  /\ root # NULL /\ Chain(node, root, s) /\ Spined(s)
  /\ \A i \in 1 .. Len(s) : s[i] # n /\ f[s[i]] = node[s[i]]
  /\ Insertable(f, node', root, s, u, k, n) /\ Chain(node', root', u)

LEMMA StepFacts ==
  ASSUME NEW x, NEW n, NEW f, NEW s, NEW u, NEW k, TreeStep(x, n, f, s, u, k)
  PROVE  /\ x \in Kinds /\ stage = "parse" /\ Len(symbols) \in Nat /\ n = Len(symbols) + 1 /\ n \in Nodes /\ n \in Nat
         /\ precedence' \in Nat /\ precedence \in Nat /\ f[n].sym = x
         /\ f[n].priority = Get_Precedence(x) + 13 * precedence' /\ Get_Precedence(x) >= -2 /\ Get_Precedence(x) \in Int
         /\ \A i \in 1 .. Len(s) : /\ s[i] \in Nodes /\ s[i] <= Len(symbols) /\ f[s[i]].sym # "none"
                                   /\ node[s[i]].sym = f[s[i]].sym /\ node[s[i]].priority = f[s[i]].priority
                                   /\ node[s[i]].priority \in Int
         /\ \A m \in Nodes : node'[m].sym = f[m].sym /\ node'[m].priority = f[m].priority /\ node'[m].place = f[m].place
         /\ \A i \in 1 .. Len(u) : u[i] \in Nodes /\ (u[i] = n \/ \E j \in 1 .. Len(s) : u[i] = s[j])
<1> USE DEF TreeStep
<1>1. /\ x \in Kinds /\ stage = "parse" /\ Len(symbols) \in Nat /\ n = Len(symbols) + 1 /\ n \in Nodes /\ n \in Nat
      /\ precedence' \in Nat /\ precedence \in Nat /\ f[n].sym = x
  BY ReadFacts, Numbers DEF Prepared, ReadSymbol
<1>2. f[n].priority = Get_Precedence(x) + 13 * precedence' /\ Get_Precedence(x) >= -2 /\ Get_Precedence(x) \in Int
  BY <1>1, Precedences DEF Prepared
<1>3. ASSUME NEW i \in 1 .. Len(s)
      PROVE  /\ s[i] \in Nodes /\ s[i] <= Len(symbols) /\ f[s[i]].sym # "none"
             /\ node[s[i]].sym = f[s[i]].sym /\ node[s[i]].priority = f[s[i]].priority
             /\ node[s[i]].priority \in Int
  <2>1. s[i] \in Nodes /\ node \in NodesType
    BY ChainFacts DEF Typed
  <2>2. node[s[i]].sym # "none"
    BY DEF Spined
  <2>3. node[s[i]] # Blank
    BY <2>2 DEF Blank
  <2>4. s[i] <= Len(symbols)
    BY <1>1, <2>1, <2>3, Numbers DEF Built, Fits
  <2> QED  BY <2>1, <2>2, <2>4, NodeFacts
<1>4. \A m \in Nodes : node'[m].sym = f[m].sym /\ node'[m].priority = f[m].priority /\ node'[m].place = f[m].place
  BY InsertionFields DEF Same
<1>5. ASSUME NEW i \in 1 .. Len(u)
      PROVE  u[i] \in Nodes /\ (u[i] = n \/ \E j \in 1 .. Len(s) : u[i] = s[j])
  <2>1. node' \in NodesType
    BY DEF Insertable
  <2>2. u[i] \in Nodes /\ Len(u) \in Nat
    BY <2>1, ChainFacts
  <2>3. k \in 1 .. Len(s) /\ Len(s) \in Nat
    BY InsertionFacts
  <2>4. CASE Comma(f, node', s, u, k, n)
    BY <2>2, <2>3, <2>4 DEF Comma
  <2>5. CASE Right(f, node', s, u, k, n)
    BY <2>2, <2>3, <2>5 DEF Right
  <2>6. CASE Left(f, node', s, u, k, n)
    <3>1. CASE i < k
      <4>1. i \in 1 .. k - 1
        BY <2>2, <2>3, <3>1
      <4> QED  BY <2>2, <2>3, <2>6, <4>1 DEF Left
    <3>2. CASE i = k
      BY <2>2, <2>6, <3>2 DEF Left
    <3>3. CASE i > k
      <4>1. Len(u) = Len(s) + 1 /\ u[(i - 1) + 1] = s[i - 1] /\ i - 1 \in 1 .. Len(s)
        BY <2>2, <2>3, <2>6, <3>3 DEF Left
      <4> QED  BY <2>2, <2>3, <4>1
    <3> QED  BY <2>2, <2>3, <3>1, <3>2, <3>3
  <2>7. Comma(f, node', s, u, k, n) \/ Right(f, node', s, u, k, n) \/ Left(f, node', s, u, k, n)
    BY DEF Insertable, Inserted
  <2> QED  BY <2>4, <2>5, <2>6, <2>7
<1> QED  BY <1>1, <1>2, <1>3, <1>4, <1>5

(* An assignment is only read where it finds what it assigns to; only the  *)
(* method of a dot is read after it.                                       *)
LEMMA AssignmentLeft ==
  ASSUME NEW x, NEW n, NEW f, NEW s, NEW u, NEW k, TreeStep(x, n, f, s, u, k)
  PROVE  x = "=" => Left(f, node', s, u, k, n)
<1> USE DEF TreeStep
<1>1. SUFFICES ASSUME x = "=" PROVE Left(f, node', s, u, k, n)
  OBVIOUS
<1>2. target /\ precedence' = precedence
  BY <1>1, ReadFacts
<1>3. PICK i \in 1 .. Len(s) : node[s[i]].priority > 13 * precedence + 2
  BY <1>2 DEF Spined, Higher
<1>4. f[n].priority = 2 + 13 * precedence /\ precedence \in Int /\ f[s[i]].priority > f[n].priority
      /\ f[s[i]].priority \in Int /\ f[n].sym = "="
  <2>1. Get_Precedence(x) = 2
    BY <1>1 DEF Get_Precedence
  <2> QED  BY <1>1, <1>2, <1>3, <2>1, StepFacts
<1>5. ~GoesRight(f, s[i], n)
  BY <1>4 DEF GoesRight, R_Assoc
<1>6. ~Comma(f, node', s, u, k, n)
  BY <1>4 DEF Comma, TakesComma
<1>7. ~Right(f, node', s, u, k, n)
  <2>1. SUFFICES ASSUME Right(f, node', s, u, k, n) PROVE FALSE
    OBVIOUS
  <2>2. k = Len(s) /\ GoesRight(f, s[k], n) /\ k \in Nat
    BY <2>1, InsertionFacts DEF Right
  <2>3. \A j \in 1 .. k - 1 : GoesRight(f, s[j], n)
    BY InsertionFacts
  <2>4. i = k \/ i \in 1 .. k - 1
    BY <2>2
  <2> QED  BY <1>5, <2>2, <2>3, <2>4
<1> QED  BY <1>6, <1>7 DEF Insertable, Inserted

LEMMA MethodRight ==
  ASSUME NEW x, NEW n, NEW f, NEW s, NEW u, NEW k, TreeStep(x, n, f, s, u, k)
  PROVE  /\ phase = "member" => /\ Right(f, node', s, u, k, n) /\ s[k] = Len(symbols)
                                /\ node'[Len(symbols)].params[1] # NULL
         /\ Right(f, node', s, u, k, n) /\ f[s[k]].sym = "." =>
              phase = "member" /\ f[n].priority = f[s[k]].priority + 1
<1> USE DEF TreeStep
<1>1. n \in Nodes /\ Len(symbols) \in Nat /\ precedence \in Nat /\ k \in 1 .. Len(s) /\ Len(s) \in Nat /\ 1 \in Slots
      /\ s[k] \in Nodes
  <2>1. n \in Nodes /\ Len(symbols) \in Nat /\ precedence \in Nat
    BY StepFacts
  <2>2. k \in 1 .. Len(s) /\ Len(s) \in Nat /\ s[k] \in Nodes
    BY InsertionFacts
  <2> QED  BY <2>1, <2>2, Numbers
<1>2. phase = "member" =>
        /\ f[n].sym = "object" /\ f[n].priority = 11 + 13 * precedence
        /\ s[Len(s)] = Len(symbols) /\ f[Len(symbols)].sym = "." /\ f[Len(symbols)].priority = 13 * precedence + 10
        /\ \A i \in 1 .. Len(s) : f[s[i]].priority <= 13 * precedence + 10 /\ f[s[i]].priority \in Int
  <2>1. SUFFICES ASSUME phase = "member"
                 PROVE  /\ f[n].sym = "object" /\ f[n].priority = 11 + 13 * precedence
                        /\ s[Len(s)] = Len(symbols) /\ f[Len(symbols)].sym = "."
                        /\ f[Len(symbols)].priority = 13 * precedence + 10
                        /\ \A i \in 1 .. Len(s) : /\ f[s[i]].priority <= 13 * precedence + 10
                                                  /\ f[s[i]].priority \in Int
    OBVIOUS
  <2>2. x = "object" /\ precedence' = precedence
    BY <2>1, ReadFacts
  <2>3. Get_Precedence(x) = 11
    BY <2>2 DEF Get_Precedence
  <2>4. s[Len(s)] = Len(symbols) /\ node[Len(symbols)].sym = "." /\ node[Len(symbols)].priority = 13 * precedence + 10
        /\ \A i \in 1 .. Len(s) : node[s[i]].priority <= 13 * precedence + 10
    BY <2>1 DEF Spined
  <2>5. Len(s) \in 1 .. Len(s)
    BY <1>1
  <2>6. f[Len(symbols)] = node[Len(symbols)]
    BY <2>4, <2>5
  <2>7. f[n].sym = "object" /\ f[n].priority = 11 + 13 * precedence
    BY <2>2, <2>3, StepFacts
  <2> QED  BY <2>4, <2>6, <2>7, StepFacts
<1>3. ASSUME phase = "member"
      PROVE  Right(f, node', s, u, k, n) /\ s[k] = Len(symbols) /\ node'[Len(symbols)].params[1] # NULL
  <2>1. GoesRight(f, s[k], n)
    BY <1>1, <1>2, <1>3 DEF GoesRight
  <2>2. ~TakesComma(f, s[k], n)
    BY <1>2, <1>3 DEF TakesComma
  <2>3. Right(f, node', s, u, k, n)
    BY <2>1, <2>2 DEF Insertable, Inserted, Left, Comma
  <2>4. s[k] = Len(symbols)
    BY <1>2, <1>3, <2>3 DEF Right
  <2>5. f[s[k]].index = 1
    BY <1>1, <1>2, <1>3, <2>4 DEF Prepared, Dotted
  <2>6. node'[s[k]].params[1] = n
    <3>1. \A y \in Nodes, j \in Slots :
            node'[y].params[j] = IF y = s[k] /\ j = f[y].index THEN n ELSE f[y].params[j]
      BY <2>3, InsertionFields
    <3> QED  BY <1>1, <2>5, <3>1
  <2> QED  BY <1>1, <2>3, <2>4, <2>6, Numbers
<1>4. ASSUME Right(f, node', s, u, k, n), f[s[k]].sym = "."
      PROVE  phase = "member" /\ f[n].priority = f[s[k]].priority + 1
  <2>1. f[s[k]].index = 1 /\ f[s[k]].params[1] = NULL
    <3>1. f[s[k]].index = 1
      BY <1>1, <1>4 DEF Prepared, Dotted
    <3> QED  BY <1>4, <3>1, InsertionFields
  <2>2. s[k] \in Pending
    BY <1>1, <1>4, <2>1 DEF Prepared, Called
  <2>3. phase = "member" /\ s[k] = Len(symbols)
    BY <2>2 DEF Pending
  <2> QED  BY <1>1, <1>2, <2>3
<1> QED  BY <1>3, <1>4

LEMMA BuiltStep ==
  ASSUME NEW x, NEW n, NEW f, NEW s, NEW u, NEW k, TreeStep(x, n, f, s, u, k)
  PROVE  Built' /\ Form(node') /\ Unplaced(node') /\ node' \in NodesType /\ root' \in Nodes
<1> USE DEF TreeStep
<1>1. n \in Nodes /\ Len(symbols) \in Nat /\ n = Len(symbols) + 1 /\ stage = "parse" /\ f[n].sym = x
  BY StepFacts
<1>2. f \in NodesType /\ node' \in NodesType /\ Form(f) /\ Dotted(f) /\ Assigned(f, {n}) /\ Called(f, Pending \cup {n})
      /\ Unplaced(f) /\ Loose(f, n)
  BY DEF Insertable, Prepared
<1>3. Linked(node') /\ Below(node')
  BY LinkedKept, BelowKept
<1>4. Dotted(node')
  <2>1. f[n].sym # "none" /\ \A i \in 1 .. Len(s) : f[s[i]].sym # "none"
    <3>1. x \in Kinds
      BY StepFacts
    <3> QED  BY <1>1, <3>1, StepFacts DEF Kinds, Operands, Callables, Binary
  <2> QED  BY <1>2, <2>1, DottedKept, MethodRight
<1>5. Form(node') /\ Assigned(node', {}) /\ Called(node', Pending \cup {n}) /\ Unplaced(node')
  <2>1. f[n].sym = "=" => Left(f, node', s, u, k, n)
    BY <1>1, AssignmentLeft
  <2> QED  BY <1>2, <2>1, FieldsKept
<1>6. Called(node', Pending')
  <2>1. symbols' = Append(symbols, x) /\ Len(symbols') = n /\ stage' = stage
    BY <1>1, ReadFacts DEF ReadSymbol
  <2>2. node'[n].sym = x
    BY <1>1, StepFacts
  <2>3. CASE x = "."
    <3>1. phase # "member" /\ phase' = "member"
      BY <2>3, ReadFacts
    <3> QED  BY <1>1, <1>5, <2>1, <3>1 DEF Pending, Called
  <2>4. CASE x # "."
    <3>1. phase = "member" => node'[Len(symbols)].params[1] # NULL
      BY MethodRight
    <3> QED  BY <1>1, <1>5, <2>2, <2>4, <3>1 DEF Pending, Called
  <2> QED  BY <2>3, <2>4
<1>7. Fits'
  <2>1. Len(symbols') = n
    BY <1>1, ReadFacts
  <2>2. s[k] \in Nodes /\ s[k] < n /\ (k > 1 => s[k - 1] \in Nodes /\ s[k - 1] < n) /\ k \in 1 .. Len(s) /\ (k = 1 \/ k > 1)
    <3>1. k \in 1 .. Len(s) /\ Len(s) \in Nat
      BY InsertionFacts
    <3>2. \A i \in 1 .. Len(s) : s[i] \in Nodes /\ s[i] <= Len(symbols) /\ s[i] \in Nat
      BY StepFacts, Numbers
    <3> QED  BY <1>1, <3>1, <3>2
  <2>3. ASSUME NEW m \in Nodes, m > n
        PROVE  node'[m] = Blank
    <3>1. f[m] = node[m] /\ m \in Nat /\ m # n /\ m > Len(symbols)
      BY <1>1, <2>3, Numbers DEF Prepared
    <3>2. node[m] = Blank
      BY <3>1 DEF Built, Fits
    <3>3. m # s[k] /\ (k > 1 => m # s[k - 1]) /\ m # NULL
      BY <1>1, <2>2, <2>3, Numbers
    <3>4. node'[m] = f[m]
      <4>1. Separated(f, node', s[k]) => node'[m] = f[m]
        BY <3>1, <3>3 DEF Separated, Others
      <4>2. Attached(f, node', s[k], n) => node'[m] = f[m]
        BY <3>1, <3>3 DEF Attached, Others
      <4>3. Raised(f, node', IF k = 1 THEN NULL ELSE s[k - 1], s[k], n) => node'[m] = f[m]
        BY <2>2, <3>1, <3>3 DEF Raised, Others
      <4> QED  BY <4>1, <4>2, <4>3 DEF Insertable, Inserted, Comma, Right, Left
    <3> QED  BY <3>1, <3>2, <3>4
  <2>4. ASSUME NEW m \in Nodes
        PROVE  node'[m].index <= n
    <3>1. f[m].index \in Nat /\ n \in Nat /\ (m # n => f[m].index <= Len(symbols)) /\ (m = n => f[m].index \in {0, 1})
      <4>1. f[m].index \in Nat /\ n \in Nat
        BY <1>1, <1>2, NodeFacts, Numbers
      <4>2. m # n => f[m] = node[m]
        BY DEF Prepared
      <4> QED  BY <1>2, <4>1, <4>2 DEF Built, Fits, Loose
    <3>2. m = s[k] => m # n
      BY <1>1, <2>2
    <3>3. Comma(f, node', s, u, k, n) \/ Right(f, node', s, u, k, n) \/ Left(f, node', s, u, k, n)
      BY DEF Insertable, Inserted
    <3>4. node'[m].index \in {0, f[m].index} \/ (m = s[k] /\ node'[m].index = f[m].index + 1)
      BY <3>3, InsertionFields
    <3> QED  BY <1>1, <3>1, <3>2, <3>4, Numbers
  <2> QED  BY <2>1, <2>3, <2>4 DEF Fits
<1>8. root' \in Nodes
  BY <1>2, ChainFacts
<1> QED  BY <1>2, <1>3, <1>4, <1>5, <1>6, <1>7, <1>8 DEF Built

LEMMA SpinedStep ==
  ASSUME NEW x, NEW n, NEW f, NEW s, NEW u, NEW k, TreeStep(x, n, f, s, u, k)
  PROVE  Spined(u)'
<1>0. /\ Typed /\ x \in Symbols /\ x \notin {"(", ")", "]"} /\ ReadSymbol(x) /\ Spined(s) /\ Chain(node', root', u)
      /\ Insertable(f, node', root, s, u, k, n) /\ \A i \in 1 .. Len(s) : f[s[i]] = node[s[i]]
  BY DEF TreeStep
<1>1. /\ n \in Nodes /\ Len(symbols) \in Nat /\ n = Len(symbols) + 1 /\ precedence' \in Nat /\ precedence \in Nat
      /\ f[n].priority = Get_Precedence(x) + 13 * precedence' /\ Get_Precedence(x) >= -2 /\ Get_Precedence(x) \in Int
      /\ f[n].sym = x /\ x \in Kinds
  BY StepFacts
<1>2. Len(symbols') = n
  BY <1>1, <1>0, ReadFacts
<1>3. Form(f) /\ Dotted(f)
  BY DEF TreeStep, Prepared
<1>4. ASSUME NEW b \in Int, Higher(node, s, b), b <= 13 * (precedence' - 1) + 2
      PROVE  Higher(node', u, b)
  <2>1. Higher(f, s, b)
    BY <1>0, <1>4 DEF Higher
  <2>2. f[n].priority > b
    <3>1. \A c, p \in Int : c >= -2 /\ b <= 13 * (p - 1) + 2 => c + 13 * p > b
      OBVIOUS
    <3>2. Get_Precedence(x) \in Int /\ precedence' \in Int /\ Get_Precedence(x) >= -2
      BY <1>1
    <3>3. b <= 13 * (precedence' - 1) + 2
      BY <1>4
    <3>4. Get_Precedence(x) + 13 * precedence' > b
      BY <3>1, <3>2, <3>3
    <3> QED  BY <1>1, <3>4
  <2>3. f[n].sym = "comma" => f[n].priority = 13 * precedence' + 1 /\ b <= 13 * (precedence' - 1) + 2
    <3>1. x = "comma" => Get_Precedence(x) = 1
      BY DEF Get_Precedence
    <3>2. b <= 13 * (precedence' - 1) + 2
      BY <1>4
    <3>3. x = "comma" => f[n].priority = 13 * precedence' + 1
      BY <1>1, <3>1
    <3>4. f[n].sym = x
      BY <1>1
    <3> QED  BY <3>2, <3>3, <3>4
  <2>4. Insertable(f, node', root, s, u, k, n) /\ precedence' \in Int
    BY <1>0, <1>1
  <2> QED  BY <1>3, <1>4, <2>1, <2>2, <2>3, <2>4, HighKept
<1>5. \A i \in 1 .. Len(u) : node'[u[i]].sym # "none"
  <2>1. \A i \in 1 .. Len(u) : f[u[i]].sym # "none"
    <3>1. f[n].sym # "none"
      BY <1>1 DEF Kinds, Operands, Callables, Binary
    <3> QED  BY <3>1, StepFacts
  <2>2. \A i \in 1 .. Len(u) : u[i] \in Nodes
    BY StepFacts
  <2>3. \A m \in Nodes : node'[m].sym = f[m].sym
    BY StepFacts
  <2> QED  BY <2>1, <2>2, <2>3
<1>6. target' => Higher(node', u, 13 * precedence' + 2)
  <2>1. SUFFICES ASSUME target' PROVE Higher(node', u, 13 * precedence' + 2)
    OBVIOUS
  <2>2. x \in {"local", "attribute"}
    BY <2>1, <1>0, ReadFacts
  <2>3. f[n].priority = 13 + 13 * precedence'
    <3>1. Get_Precedence(x) = 13
      BY <2>2 DEF Get_Precedence, Scale
    <3> QED  BY <1>1, <3>1
  <2>4. \E i \in 1 .. Len(u) : u[i] = n
    <3>1. ~Comma(f, node', s, u, k, n)
      BY <1>1, <2>2 DEF Comma, TakesComma
    <3>2. k \in 1 .. Len(s) /\ Len(s) \in Nat /\ Len(u) \in Nat
      <4>1. node' \in NodesType
        BY <1>0 DEF Insertable
      <4> QED  BY <4>1, <1>0, InsertionFacts, ChainFacts
    <3>3. Right(f, node', s, u, k, n) => k + 1 \in 1 .. Len(u) /\ u[k + 1] = n
      BY <3>2 DEF Right
    <3>4. Left(f, node', s, u, k, n) => k \in 1 .. Len(u) /\ u[k] = n
      BY <3>2 DEF Left
    <3> QED  BY <3>1, <3>3, <3>4, <1>0 DEF Insertable, Inserted
  <2>5. node'[n].priority = f[n].priority
    BY <1>1, StepFacts
  <2> QED  BY <1>1, <2>3, <2>4, <2>5 DEF Higher
<1>7. ASSUME NEW j \in 1 .. precedence', open'[j].target
      PROVE  Higher(node', u, 13 * (j - 1) + 2)
  <2>1. Higher(node, s, 13 * (j - 1) + 2)
    <3>1. CASE x = "["
      <4>1. precedence' = precedence + 1 /\ open'[precedence'].target = target
            /\ \A i \in 1 .. precedence : open'[i] = open[i]
        BY <3>1, <1>0, ReadFacts
      <4>2. CASE j = precedence'
        BY <1>0, <1>1, <1>7, <4>1, <4>2 DEF Spined
      <4>3. CASE j \in 1 .. precedence
        BY <1>0, <1>7, <4>1, <4>3 DEF Spined
      <4> QED  BY <1>1, <4>1, <4>2, <4>3
    <3>2. CASE x # "["
      <4>1. precedence' = precedence /\ open' = open
        BY <3>2, <1>0, ReadFacts
      <4> QED  BY <1>0, <1>7, <4>1 DEF Spined
    <3> QED  BY <3>1, <3>2
  <2> QED  BY <1>1, <1>4, <2>1
<1>8. ASSUME phase' = "member"
      PROVE  /\ u[Len(u)] = n /\ node'[n].sym = "." /\ node'[n].priority = 13 * precedence' + 10
             /\ \A i \in 1 .. Len(u) : node'[u[i]].priority <= 13 * precedence' + 10
  <2>1. x = "."
    BY <1>8, <1>0, ReadFacts
  <2>2. f[n].priority = 13 * precedence' + 10
    <3>1. Get_Precedence(x) = 10
      BY <2>1 DEF Get_Precedence
    <3> QED  BY <1>1, <3>1
  <2>3. node'[n].sym = "." /\ node'[n].priority = 13 * precedence' + 10
    BY <1>1, <2>1, <2>2, StepFacts
  <2>4. f[n].index = 1 /\ f[n].sym = "."
    BY <1>1, <2>1 DEF TreeStep, Prepared, Callables
  <2>5. k \in 1 .. Len(s) /\ Len(s) \in Nat /\ \A i \in 1 .. k - 1 : GoesRight(f, s[i], n)
    BY <1>0, InsertionFacts
  <2>6. ASSUME NEW i \in 1 .. Len(s), GoesRight(f, s[i], n)
        PROVE  node'[s[i]].priority <= 13 * precedence' + 10
    <3>1. node'[s[i]].priority = f[s[i]].priority /\ f[s[i]].priority \in Int
      <4>1. s[i] \in Nodes /\ node[s[i]].priority \in Int /\ node[s[i]].priority = f[s[i]].priority
        BY StepFacts
      <4> QED  BY <4>1, StepFacts
    <3>2. f[s[i]].priority < f[n].priority
      BY <2>4, <2>6 DEF GoesRight, R_Assoc
    <3> QED  BY <1>1, <2>2, <3>1, <3>2
  <2>7. CASE Right(f, node', s, u, k, n)
    <3>1. \A i \in 1 .. k : GoesRight(f, s[i], n) /\ i \in 1 .. Len(s)
      BY <2>5, <2>7 DEF Right
    <3>2. u[Len(u)] = n /\ Len(u) = k + 1 /\ \A i \in 1 .. k : u[i] = s[i]
      BY <2>7 DEF Right
    <3>3. \A i \in 1 .. Len(u) : i = k + 1 \/ i \in 1 .. k
      BY <2>5, <3>2
    <3>4. \A i \in 1 .. k : node'[u[i]].priority <= 13 * precedence' + 10
      BY <2>6, <3>1, <3>2
    <3>5. u[k + 1] = n /\ node'[n].priority <= 13 * precedence' + 10
      <4>1. 13 * precedence' + 10 \in Int
        BY <1>1
      <4> QED  BY <2>3, <3>2, <4>1
    <3>6. \A i \in 1 .. Len(u) : node'[u[i]].priority <= 13 * precedence' + 10
      BY <3>3, <3>4, <3>5
    <3> QED  BY <2>3, <3>2, <3>6
  <2>8. CASE Left(f, node', s, u, k, n)
    <3>2. u[Len(u)] = n /\ Len(u) = k /\ \A i \in 1 .. k - 1 : u[i] = s[i]
      BY <2>4, <2>5, <2>8 DEF Left
    <3>3. \A i \in 1 .. Len(u) : i = k \/ (i \in 1 .. k - 1 /\ i \in 1 .. Len(s))
      BY <2>5, <3>2
    <3>4. \A i \in 1 .. k - 1 : node'[u[i]].priority <= 13 * precedence' + 10
      BY <2>5, <2>6, <3>2, <3>3
    <3>5. u[k] = n /\ node'[n].priority <= 13 * precedence' + 10
      <4>1. 13 * precedence' + 10 \in Int
        BY <1>1
      <4> QED  BY <2>3, <3>2, <4>1
    <3>6. \A i \in 1 .. Len(u) : node'[u[i]].priority <= 13 * precedence' + 10
      BY <3>3, <3>4, <3>5
    <3> QED  BY <2>3, <3>2, <3>6
  <2>9. ~Comma(f, node', s, u, k, n)
    BY <2>4 DEF Comma, TakesComma
  <2> QED  BY <2>3, <2>7, <2>8, <2>9, <1>0 DEF Insertable, Inserted
<1> QED  BY <1>2, <1>5, <1>6, <1>7, <1>8 DEF Spined, Higher

LEMMA StepExists ==
  ASSUME Typed, Built, Reading, NEW x \in Symbols, x \notin {"(", ")", "]"}, ReadSymbol(x), root # NULL,
         NEW s, Chain(node, root, s), Spined(s)
  PROVE  \E f, u, k : TreeStep(x, Len(symbols) + 1, f, s, u, k)
<1> DEFINE n == Len(symbols) + 1
           f == Fresh(x, precedence')
<1>1. /\ n \in Nodes /\ f \in NodesType /\ Prepared(node, f, n, Pending, x, precedence')
      /\ \A i \in 1 .. Len(s) : s[i] # n /\ f[s[i]] = node[s[i]]
      /\ \E k, u : Insertable(f, node', root, s, u, k, n) /\ Chain(node', root', u)
  BY NodeRead
<1>2. PICK k, u : Insertable(f, node', root, s, u, k, n) /\ Chain(node', root', u)
  BY <1>1
<1> HIDE DEF f
<1>3. TreeStep(x, n, f, s, u, k)
  BY <1>1, <1>2 DEF TreeStep
<1> QED  BY <1>3

(* The first node is the root.                                             *)
LEMMA RootStep ==
  ASSUME Typed, Built, Reading, NEW x \in Symbols, x \notin {"(", ")", "]"}, ReadSymbol(x), root = NULL,
         NEW n, n = Len(symbols) + 1
  PROVE  /\ Built' /\ Form(node') /\ Unplaced(node') /\ node' \in NodesType
         /\ root' = n /\ n \in Nodes
         /\ LET a == node'[n]
            IN a.sym = x /\ a.priority = Get_Precedence(x) + 13 * precedence' /\ a.params = [i \in Slots |-> NULL]
                 /\ a.parent = NULL /\ a.index = (IF x \in Callables \cup {"["} THEN 0 ELSE 1)
         /\ \A m \in Nodes \ {n} : node'[m] = node[m]
         /\ Chain(node', n, <<n>>) /\ Spined(<<n>>)'
<1> DEFINE f == Fresh(x, precedence')
           a == AsConstructor(f[n])
<1>1. /\ n \in Nodes /\ f \in NodesType /\ Prepared(node, f, n, Pending, x, precedence')
      /\ node' = [f EXCEPT ![n] = a] /\ root' = n
  BY NodeRead
<1> HIDE DEF f
<1>2. /\ Linked(f) /\ Below(f) /\ Form(f) /\ Dotted(f) /\ Unplaced(f)
      /\ Loose(f, n) /\ Assigned(f, {n}) /\ Called(f, Pending \cup {n})
      /\ f[n].sym = x /\ f[n].priority = Get_Precedence(x) + 13 * precedence'
      /\ f[n].index = (IF x \in Callables THEN 0 ELSE 1)
      /\ \A m \in Nodes \ {n} : f[m] = node[m]
  BY <1>1 DEF Prepared
<1>3. f[n] \in NodeType
  BY <1>1 DEF NodesType
<1>4. a \in NodeType /\ Same(a, f[n]) /\ a.index = (IF f[n].sym = "[" THEN 0 ELSE f[n].index)
      /\ a.params = f[n].params /\ a.parent = f[n].parent
  BY <1>3, ConstructorIs
<1> HIDE DEF a
<1>5. /\ node' \in NodesType /\ node'[n] = a /\ \A m \in Nodes \ {n} : node'[m] = f[m] /\ node'[m] = node[m]
  BY <1>1, <1>2, <1>4 DEF NodesType
<1>6. /\ a.sym = x /\ a.priority = Get_Precedence(x) + 13 * precedence' /\ a.params = [i \in Slots |-> NULL]
      /\ a.parent = NULL /\ a.index = (IF x \in Callables \cup {"["} THEN 0 ELSE 1) /\ a.place = f[n].place
  BY <1>2, <1>4 DEF Same, Loose, Callables
<1>7. /\ x \in Kinds /\ Len(symbols) \in Nat /\ Len(symbols') = n /\ precedence' \in Nat /\ precedence \in Nat
      /\ x # "=" /\ stage = "parse" /\ stage' = "parse"
  <2>1. Untargeted /\ stage = "parse" /\ stage' = stage
    BY DEF Reading, ReadSymbol
  <2> QED  BY <2>1, ReadFacts DEF Untargeted
<1>8. \A m \in Nodes, i \in Slots : node'[m].params[i] = f[m].params[i] /\ node'[m].parent = f[m].parent
  BY <1>4, <1>5
<1>9. \A m \in Nodes : node'[m].sym = f[m].sym /\ node'[m].priority = f[m].priority /\ node'[m].place = f[m].place
  BY <1>4, <1>5 DEF Same
<1>10. Linked(node')
  <2>1. \A m \in Nodes, i \in Slots : f[m].params[i] \in Nodes \cup {NULL}
    BY <1>1, NodeFacts
  <2> QED  BY <1>2, <1>8, <2>1 DEF Linked
<1>11. Below(node')
  BY <1>2, <1>5, <1>6 DEF Below
<1>12. Form(node') /\ Unplaced(node')
  BY <1>2, <1>9 DEF Form, Unplaced, Localized
<1>13. Dotted(node')
  <2>1. ASSUME NEW m \in Nodes, f[m].sym = "."
        PROVE  /\ node'[m].index = 1
               /\ node'[m].params[1] # NULL => node'[node'[m].params[1]].priority = node'[m].priority + 1
    <3>1. 1 \in Slots
      BY <1>1, Numbers
    <3>2. f[m].params[1] \in Nodes \cup {NULL} /\ f[m].index = 1
      BY <1>1, <1>2, <2>1, <3>1, NodeFacts DEF Dotted
    <3>3. node'[m].index = 1
      BY <1>2, <1>4, <1>5, <2>1, <3>2
    <3> QED  BY <1>2, <1>8, <1>9, <2>1, <3>1, <3>2, <3>3 DEF Dotted
  <2> QED  BY <1>9, <2>1 DEF Dotted
<1>14. Assigned(node', {}) /\ Called(node', Pending')
  <2>1. Pending = {} /\ Pending' = IF x = "." THEN {n} ELSE {}
    <3>1. Untargeted /\ (phase' = "member" <=> x = ".")
      BY <1>7, ReadFacts DEF Reading
    <3> QED  BY <1>7, <3>1 DEF Pending, Untargeted
  <2>2. 0 \in Slots /\ 1 \in Slots
    BY <1>1, Numbers
  <2> QED  BY <1>2, <1>7, <1>8, <1>9, <2>1, <2>2 DEF Assigned, Called
<1>15. Fits'
  <2>1. ASSUME NEW m \in Nodes
        PROVE  (m > n => node'[m] = Blank) /\ node'[m].index <= n
    <3>1. CASE m = n
      BY <1>1, <1>5, <1>6, <1>7, <3>1, Numbers
    <3>2. CASE m # n
      <4>1. node[m].index \in Nat /\ node[m].index <= Len(symbols) /\ m \in Nat
        BY NodeFacts, Numbers DEF Typed, Built, Fits
      <4>2. m > n => node[m] = Blank
        BY <1>7, <4>1 DEF Built, Fits
      <4> QED  BY <1>5, <1>7, <3>2, <4>1, <4>2
    <3> QED  BY <3>1, <3>2
  <2> QED  BY <1>7, <2>1 DEF Fits
<1>16. Chain(node', n, <<n>>)
  <2>1. RightChild(node', n) = NULL
    <3>1. node'[n].index \in Slots
      BY <1>1, <1>5, NodeFacts
    <3> QED  BY <1>5, <1>6, <3>1 DEF RightChild
  <2> QED  BY <1>1, <1>5, <1>6, <2>1 DEF Chain
<1>17. Spined(<<n>>)'
  <2>1. Untargeted
    BY <1>7 DEF Reading
  <2>2. node'[n].sym # "none"
    BY <1>5, <1>6, <1>7 DEF Kinds, Operands, Callables, Binary
  <2>3. target' => 13 + 13 * precedence' = node'[n].priority
    <3>1. target' => x \in {"local", "attribute"}
      BY ReadFacts
    <3>2. x \in {"local", "attribute"} => Get_Precedence(x) = 13
      BY DEF Get_Precedence, Scale
    <3> QED  BY <1>5, <1>6, <3>1, <3>2
  <2>4. \A j \in 1 .. precedence' : ~open'[j].target
    <3>1. CASE x = "["
      <4>1. /\ precedence' = precedence + 1 /\ open'[precedence'].target = target
            /\ \A j \in 1 .. precedence : open'[j] = open[j]
        BY <3>1, ReadFacts
      <4>2. \A j \in 1 .. precedence' : j = precedence' \/ j \in 1 .. precedence
        BY <1>7, <4>1
      <4> QED  BY <2>1, <4>1, <4>2 DEF Untargeted
    <3>2. CASE x # "["
      <4>1. precedence' = precedence /\ open' = open
        BY <3>2, ReadFacts
      <4> QED  BY <2>1, <4>1 DEF Untargeted
    <3> QED  BY <3>1, <3>2
  <2>5. phase' = "member" => node'[n].sym = "." /\ node'[n].priority = 13 * precedence' + 10
    <3>1. phase' = "member" => x = "."
      BY ReadFacts
    <3>2. x = "." => Get_Precedence(x) = 10
      BY DEF Get_Precedence
    <3> QED  BY <1>5, <1>6, <1>7, <3>1, <3>2
  <2>6. Len(<<n>>) = 1 /\ <<n>>[1] = n
    OBVIOUS
  <2>7. target' => Higher(node', <<n>>, 13 * precedence' + 2)
    BY <1>7, <2>3, <2>6 DEF Higher
  <2>8. 13 * precedence' + 10 \in Int
    BY <1>7
  <2>9. \A i \in 1 .. Len(<<n>>) : <<n>>[i] = n
    BY <2>6
  <2> QED  BY <1>7, <2>2, <2>4, <2>5, <2>6, <2>7, <2>8, <2>9 DEF Spined
<1>18. Built'
  BY <1>10, <1>11, <1>13, <1>14, <1>15 DEF Built
<1> QED  BY <1>1, <1>5, <1>6, <1>12, <1>16, <1>17, <1>18

LEMMA BracketStep ==
  ASSUME Typed, Built, Reading, NEW x \in Symbols, x \in {"(", ")", "]"}, ReadSymbol(x)
  PROVE  /\ Built' /\ node' = node /\ root' = root /\ phase # "member" /\ phase' # "member"
         /\ root = NULL => Untargeted'
         /\ \A s : root # NULL /\ Chain(node, root, s) /\ Spined(s) => Spined(s)'
<1>1. node' = node /\ root' = root /\ phase # "member" /\ phase' # "member" /\ stage = "parse" /\ stage' = stage
  BY ReadFacts DEF ReadSymbol
<1>2. Len(symbols) \in Nat /\ Len(symbols') = Len(symbols) + 1 /\ precedence' \in Nat /\ precedence \in Nat
  BY ReadFacts
<1>3. Fits'
  <2>1. \A m \in Nodes : node[m].index \in Nat /\ m \in Nat
    BY NodeFacts, Numbers DEF Typed
  <2> QED  BY <1>1, <1>2, <2>1 DEF Built, Fits
<1>4. Built'
  BY <1>1, <1>3 DEF Built, Pending
<1>5. /\ x = "(" => /\ precedence' = precedence + 1 /\ open'[precedence'].target = target
                    /\ \A j \in 1 .. precedence : open'[j] = open[j]
      /\ x \in {")", "]"} => /\ precedence > 0 /\ precedence' = precedence - 1
                             /\ \A j \in 1 .. precedence - 1 : open'[j] = open[j]
      /\ target' => x = "]" /\ open[precedence].target
  BY ReadFacts
<1>6. ASSUME NEW j \in 1 .. precedence', open'[j].target
      PROVE  (j \in 1 .. precedence /\ open[j].target) \/ (j = precedence + 1 /\ target)
  <2>1. CASE x = "("
    BY <1>2, <1>5, <1>6, <2>1
  <2>2. CASE x \in {")", "]"}
    BY <1>2, <1>5, <1>6, <2>2
  <2> QED  BY <2>1, <2>2
<1>7. target' => precedence \in 1 .. precedence /\ open[precedence].target /\ precedence' = precedence - 1
  BY <1>2, <1>5
<1>8. root = NULL => Untargeted'
  <2>1. root = NULL => Untargeted
    BY <1>1 DEF Reading
  <2>2. Untargeted => Untargeted'
    BY <1>1, <1>6, <1>7 DEF Untargeted
  <2> QED  BY <2>1, <2>2
<1>9. ASSUME NEW s, Spined(s)
      PROVE  Spined(s)'
  <2>1. target' => Higher(node, s, 13 * precedence' + 2)
    BY <1>2, <1>7, <1>9 DEF Spined
  <2>2. ASSUME NEW j \in 1 .. precedence', open'[j].target
        PROVE  Higher(node, s, 13 * (j - 1) + 2)
    BY <1>2, <1>6, <1>9, <2>2 DEF Spined
  <2> QED  BY <1>1, <1>9, <2>1, <2>2 DEF Spined, Higher
<1> QED  BY <1>1, <1>4, <1>8, <1>9

LEMMA ReadTree ==
  ASSUME Typed, Built, Reading, NEW x \in Symbols, ReadSymbol(x)
  PROVE  Typed' /\ Built' /\ Reading'
<1>1. stage = "parse" /\ stage' = stage
  BY DEF ReadSymbol
<1>2. /\ symbols' \in Seq(Kinds) /\ Len(symbols') <= MaxSymbols
      /\ open' \in Seq(Brackets) /\ precedence' = Len(open') /\ target' \in BOOLEAN
  BY ReadFacts, Numbers
<1>3. CASE x \in {"(", ")", "]"}
  <2>1. /\ Built' /\ node' = node /\ root' = root
        /\ root = NULL => Untargeted'
        /\ \A s : root # NULL /\ Chain(node, root, s) /\ Spined(s) => Spined(s)'
    BY <1>3, BracketStep
  <2>2. Reading'
    BY <1>1, <2>1 DEF Reading
  <2> QED  BY <1>1, <1>2, <2>1, <2>2 DEF Typed
<1>4. CASE x \notin {"(", ")", "]"} /\ root = NULL
  <2>0. PICK n : n = Len(symbols) + 1
    OBVIOUS
  <2>1. /\ Built' /\ Form(node') /\ Unplaced(node') /\ node' \in NodesType /\ root' \in Nodes
        /\ root' = n /\ Chain(node', n, <<n>>) /\ Spined(<<n>>)'
    BY <1>4, <2>0, RootStep
  <2>2. Reading'
    BY <2>1, Numbers DEF Reading
  <2> QED  BY <1>1, <1>2, <2>1, <2>2 DEF Typed
<1>5. CASE x \notin {"(", ")", "]"} /\ root # NULL
  <2>1. PICK s : Chain(node, root, s) /\ Spined(s)
    BY <1>1, <1>5 DEF Reading
  <2>2. PICK f, u, k : TreeStep(x, Len(symbols) + 1, f, s, u, k)
    BY <1>5, <2>1, StepExists
  <2>3. Built' /\ Form(node') /\ Unplaced(node') /\ node' \in NodesType /\ root' \in Nodes
    BY <2>2, BuiltStep
  <2>4. Chain(node', root', u) /\ Spined(u)'
    BY <2>2, SpinedStep DEF TreeStep
  <2>5. Reading'
    BY <2>3, <2>4, Numbers DEF Reading
  <2> QED  BY <1>1, <1>2, <2>3, <2>5 DEF Typed
<1> QED  BY <1>3, <1>4, <1>5
---------------------------------------------------------------------------
(* Folding changes the symbol, the place and the parameters of a node.     *)
LEMMA ReduceIs ==
  ASSUME NEW f \in NodesType, NEW g, g = Reduce(f)
  PROVE  /\ g \in NodesType
         /\ \A m \in Nodes : /\ g[m].priority = f[m].priority /\ g[m].index = f[m].index /\ g[m].parent = f[m].parent
                             /\ \/ g[m] = f[m]
                                \/ /\ f[m].sym \in {"!", "+", "*", "!="} /\ g[m].sym = "const" /\ g[m].place = "const"
                                   /\ \A i \in Slots : g[m].params[i] = NULL
<1> DEFINE C == Constants(f)
           a(m) == [f[m] EXCEPT !.sym = "const", !.place = "const", !.params = Blank.params]
<1>1. \A m \in Nodes : f[m] \in NodeType
  BY DEF NodesType
<1>2. Blank.params = [i \in Slots |-> NULL]
  BY DEF Blank
<1>3. ASSUME NEW m \in Nodes
      PROVE  /\ a(m) \in NodeType /\ a(m).sym = "const" /\ a(m).place = "const" /\ a(m).params = [i \in Slots |-> NULL]
             /\ a(m).priority = f[m].priority /\ a(m).index = f[m].index /\ a(m).parent = f[m].parent
  <2>1. "const" \in Kinds
    BY DEF Kinds, Operands
  <2> QED  BY <1>1, <1>2, <2>1 DEF NodeType
<1>4. g = [m \in Nodes |-> IF Folds(f, C, m) THEN a(m) ELSE f[m]]
  BY DEF Reduce
<1> HIDE DEF a, C
<1>5. g \in NodesType
  BY <1>1, <1>3, <1>4 DEF NodesType
<1>6. ASSUME NEW m \in Nodes
      PROVE  /\ g[m].priority = f[m].priority /\ g[m].index = f[m].index /\ g[m].parent = f[m].parent
             /\ \/ g[m] = f[m]
                \/ /\ f[m].sym \in {"!", "+", "*", "!="} /\ g[m].sym = "const" /\ g[m].place = "const"
                   /\ \A i \in Slots : g[m].params[i] = NULL
  <2>1. CASE Folds(f, C, m)
    BY <1>3, <1>4, <2>1 DEF Folds
  <2>2. CASE ~Folds(f, C, m)
    BY <1>4, <2>2
  <2> QED  BY <2>1, <2>2
<1> QED  BY <1>5, <1>6

(* The registers and the places of the nodes.                              *)
Machines == [node : NodesType, registers : Seq(BOOLEAN), holds : [Nodes -> Nodes \cup {NULL}]]

Fit(M) ==
  /\ M \in Machines /\ Len(M.registers) <= MaxSymbols
  /\ \A m \in Nodes : M.node[m].place = "register" => M.node[m].reg \in 1 .. Len(M.registers)
  /\ \A r \in 1 .. Len(M.registers) : M.registers[r] =>
       /\ M.holds[r] \in Nodes /\ M.node[M.holds[r]].place = "register" /\ M.node[M.holds[r]].reg = r

Placed ==
  /\ Fit(Machine) /\ todo \in SUBSET Nodes
  /\ \A m \in todo : node[m].place \notin {"register", "const"}
  /\ stage = "parse" => todo = {} /\ \A r \in 1 .. Len(registers) : ~registers[r]
  /\ stage = "evaluate" => open = <<>>

LEMMA Appended ==
  ASSUME NEW S, NEW s \in Seq(S), NEW x \in S
  PROVE  /\ Append(s, x) \in Seq(S) /\ Len(Append(s, x)) = Len(s) + 1
         /\ Append(s, x)[Len(s) + 1] = x /\ \A q \in 1 .. Len(s) : Append(s, x)[q] = s[q]
  OBVIOUS

LEMMA ClaimIs ==
  ASSUME NEW flags \in Seq(BOOLEAN), NEW r, r = Get_Open_Reg(flags), NEW taken, taken = Claim(flags, r)
  PROVE  /\ r \in 1 .. Len(flags) + 1 /\ Len(flags) \in Nat
         /\ r <= Len(flags) => ~flags[r] /\ Len(taken) = Len(flags)
         /\ r = Len(flags) + 1 => Len(taken) = r /\ \A q \in 1 .. Len(flags) : flags[q]
         /\ taken \in Seq(BOOLEAN) /\ r \in 1 .. Len(taken) /\ taken[r]
         /\ \A q \in 1 .. Len(flags) : q # r => taken[q] = flags[q]
<1> DEFINE free == {q \in 1 .. Len(flags) : ~flags[q]}
<1>1. Len(flags) \in Nat
  OBVIOUS
<1>2. CASE free = {}
  <2>1. r = Len(flags) + 1
    BY <1>2 DEF Get_Open_Reg
  <2>2. r > Len(flags)
    BY <1>1, <2>1
  <2>3. taken = Append(flags, TRUE)
    BY <2>2, Zenon DEF Claim
  <2>4. taken \in Seq(BOOLEAN) /\ Len(taken) = r /\ taken[r] = TRUE /\ \A q \in 1 .. Len(flags) : taken[q] = flags[q]
    <3> DEFINE B == BOOLEAN
               x == TRUE
    <3>1. flags \in Seq(B) /\ x \in B
      OBVIOUS
    <3> HIDE DEF B, x
    <3>2. /\ Append(flags, x) \in Seq(B) /\ Len(Append(flags, x)) = Len(flags) + 1
          /\ Append(flags, x)[Len(flags) + 1] = x /\ \A q \in 1 .. Len(flags) : Append(flags, x)[q] = flags[q]
      BY <3>1, Appended
    <3> USE DEF B, x
    <3> DEFINE A == Append(flags, TRUE)
    <3>3. taken = A
      BY <2>3
    <3> HIDE DEF A
    <3>4. A \in Seq(BOOLEAN) /\ Len(A) = Len(flags) + 1 /\ A[Len(flags) + 1] = TRUE
      BY <3>1, <3>2, Zenon DEF A
    <3>5. \A q \in 1 .. Len(flags) : A[q] = flags[q]
      BY <3>1, <3>2, Zenon DEF A
    <3>6. taken[r] = TRUE /\ taken \in Seq(BOOLEAN) /\ Len(taken) = r
      BY <2>1, <3>3, <3>4, Zenon
    <3>7. \A q \in 1 .. Len(flags) : taken[q] = flags[q]
      BY <3>3, <3>5, Zenon
    <3> QED  BY <3>6, <3>7, Zenon
  <2>5. \A q \in 1 .. Len(flags) : flags[q]
    BY <1>2
  <2>6. r <= Len(flags) => FALSE
    BY <1>1, <2>1
  <2>7. r \in 1 .. Len(flags) + 1 /\ r \in 1 .. Len(taken)
    BY <1>1, <2>1, <2>4
  <2> HIDE DEF free
  <2> QED  BY <1>1, <2>4, <2>5, <2>6, <2>7
<1>3. CASE free # {}
  <2>1. r = CHOOSE x \in free : \A y \in free : x <= y
    BY <1>3 DEF Get_Open_Reg
  <2>2. \E x \in free : \A y \in free : x <= y
    <3>1. free \in SUBSET Nat
      BY <1>1
    <3> HIDE DEF free
    <3> QED  BY <1>3, <3>1, LeastNumber
  <2>3. r \in free
    <3> HIDE DEF free
    <3> QED  BY <2>1, <2>2
  <2>6. ~ (r > Len(flags))
    BY <1>1, <2>3
  <2>4. taken = [flags EXCEPT ![r] = TRUE]
    BY <2>6, Zenon DEF Claim
  <2>5. taken \in Seq(BOOLEAN) /\ Len(taken) = Len(flags) /\ taken[r] /\ \A q \in 1 .. Len(flags) : q # r => taken[q] = flags[q]
    BY <2>3, <2>4
  <2> QED  BY <1>1, <2>3, <2>5
<1> QED  BY <1>2, <1>3

(* Registers that are all in use hold different nodes.                     *)
LEMMA RegistersFit ==
  ASSUME NEW M, Fit(M), NEW c \in Nodes, M.node[c].place # "register",
         \A q \in 1 .. Len(M.registers) : M.registers[q]
  PROVE  Len(M.registers) + 1 <= MaxSymbols
<1> DEFINE L == Len(M.registers)
           T == Nodes \ {c}
           f == [q \in 1 .. L |-> M.holds[q]]
<1>1. M.registers \in Seq(BOOLEAN) /\ L \in Nat /\ MaxSymbols \in Nat
  BY Numbers DEF Fit, Machines
<1>2. IsFiniteSet(Nodes) /\ Cardinality(Nodes) = MaxSymbols
  <2>1. 1 \in Int /\ MaxSymbols \in Int /\ c \in 1 .. MaxSymbols
    BY <1>1 DEF Nodes
  <2>2. IsFiniteSet(1 .. MaxSymbols) /\ Cardinality(1 .. MaxSymbols) = IF 1 > MaxSymbols THEN 0 ELSE MaxSymbols - 1 + 1
    BY <2>1, FS_Interval
  <2> QED  BY <2>1, <2>2 DEF Nodes
<1>3. IsFiniteSet(T) /\ Cardinality(T) = MaxSymbols - 1
  BY <1>2, FS_RemoveElement
<1>4. Cardinality(1 .. L) = L /\ IsFiniteSet(1 .. L)
  BY <1>1, FS_Interval
<1>5. \A q \in 1 .. L : /\ M.holds[q] \in T /\ M.node[M.holds[q]].reg = q
  BY DEF Fit
<1> HIDE DEF T
<1>6. f \in [1 .. L -> T] /\ \A q \in 1 .. L : f[q] = M.holds[q]
  BY <1>5
<1> HIDE DEF f
<1>7. ~ \E x, y \in 1 .. L : x # y /\ f[x] = f[y]
  <2>1. \A x, y \in 1 .. L : f[x] = f[y] => M.node[f[x]].reg = x /\ M.node[f[x]].reg = y
    <3>1. \A x \in 1 .. L : M.node[f[x]].reg = x
      BY <1>5, <1>6
    <3> HIDE DEF L
    <3> QED  BY <3>1
  <2> HIDE DEF L
  <2> QED  BY <2>1
<1> HIDE DEF L
<1>9. f \in [1 .. L -> T]
  BY <1>6
<1>8. ~ (Cardinality(1 .. L) > Cardinality(T))
  <2> DEFINE S == 1 .. L
  <2>1. IsFiniteSet(S) /\ IsFiniteSet(T) /\ f \in [S -> T] /\ ~ \E x, y \in S : x # y /\ f[x] = f[y]
    BY <1>3, <1>4, <1>7, <1>9
  <2> HIDE DEF S
  <2>2. ~ (Cardinality(T) < Cardinality(S))
    BY <2>1, FS_PigeonHole
  <2> QED  BY <1>3, <1>4, <2>2 DEF S
<1> QED  BY <1>1, <1>3, <1>4, <1>8 DEF L
---------------------------------------------------------------------------
(* Allocation: c is the only node that moves, to a register that was free. *)
Kept(a, b) == a.sym = b.sym /\ a.priority = b.priority /\ a.index = b.index /\ a.params = b.params /\ a.parent = b.parent

InUse(M, r) == r \in 1 .. Len(M.registers) /\ M.registers[r]

Taken(M, X, c, r) ==
  /\ Len(M.registers) <= Len(X.registers) /\ r \in 1 .. Len(X.registers) /\ ~InUse(M, r)
  /\ InUse(X, r) /\ \A q \in Nat \ {r} : InUse(X, q) <=> InUse(M, q)
  /\ X.holds = [M.holds EXCEPT ![r] = c]
  /\ X.node \in NodesType /\ \A m \in Nodes \ {c} : X.node[m] = M.node[m]
  /\ Kept(X.node[c], M.node[c]) /\ X.node[c].place = "register" /\ X.node[c].reg = r
  /\ r # 1 => InUse(M, r - 1)

LEMMA InOpenIs ==
  ASSUME NEW M, Fit(M), NEW c \in Nodes, M.node[c].place # "register", NEW X, X = InOpenRegister(M, c)
  PROVE  Fit(X) /\ \E r \in Nodes : Taken(M, X, c, r)
<1> DEFINE r == Get_Open_Reg(M.registers)
<1>1. /\ M.node \in NodesType /\ M.registers \in Seq(BOOLEAN) /\ M.holds \in [Nodes -> Nodes \cup {NULL}]
      /\ Len(M.registers) <= MaxSymbols /\ Len(M.registers) \in Nat
  BY DEF Fit, Machines
<1>2. /\ X.registers = Claim(M.registers, r) /\ X.holds = [M.holds EXCEPT ![r] = c]
      /\ X.node = [M.node EXCEPT ![c].place = "register", ![c].reg = r]
      /\ X = [node |-> X.node, registers |-> X.registers, holds |-> X.holds]
  BY DEF InOpenRegister
<1>3. /\ r \in 1 .. Len(M.registers) + 1
      /\ r <= Len(M.registers) => ~M.registers[r] /\ Len(X.registers) = Len(M.registers)
      /\ r = Len(M.registers) + 1 => Len(X.registers) = r /\ \A q \in 1 .. Len(M.registers) : M.registers[q]
      /\ X.registers \in Seq(BOOLEAN) /\ r \in 1 .. Len(X.registers) /\ X.registers[r]
      /\ \A q \in 1 .. Len(M.registers) : q # r => X.registers[q] = M.registers[q]
  BY <1>1, <1>2, ClaimIs
<1> HIDE DEF r
<1>4. Len(M.registers) <= Len(X.registers) /\ Len(X.registers) \in Nat /\ Len(X.registers) <= MaxSymbols
      /\ r \in 1 .. MaxSymbols /\ r \in Nat
  <2>1. MaxSymbols \in Nat
    BY Numbers
  <2>2. r = Len(M.registers) + 1 => r <= MaxSymbols
    BY <1>3, RegistersFit
  <2> QED  BY <1>1, <1>3, <2>1, <2>2
<1>5. r \in Nodes
  BY <1>4 DEF Nodes
<1>6. ~InUse(M, r) /\ InUse(X, r)
  BY <1>1, <1>3 DEF InUse
<1>7. ASSUME NEW q \in Nat \ {r}
      PROVE  InUse(X, q) <=> InUse(M, q)
  <2>1. q \in 1 .. Len(X.registers) <=> q \in 1 .. Len(M.registers)
    BY <1>1, <1>3
  <2> QED  BY <1>3, <2>1 DEF InUse
<1>8. X.node \in NodesType /\ (\A m \in Nodes \ {c} : X.node[m] = M.node[m])
      /\ Kept(X.node[c], M.node[c]) /\ X.node[c].place = "register" /\ X.node[c].reg = r
  <2>1. M.node[c] \in NodeType
    BY <1>1 DEF NodesType
  <2>2. X.node = [M.node EXCEPT ![c] = [M.node[c] EXCEPT !.place = "register", !.reg = r]]
    BY <1>1, <1>2 DEF NodesType
  <2> DEFINE a == [M.node[c] EXCEPT !.place = "register", !.reg = r]
  <2>3. a \in NodeType /\ Kept(a, M.node[c]) /\ a.place = "register" /\ a.reg = r
    BY <1>4, <2>1 DEF NodeType, Kept
  <2> HIDE DEF a
  <2> QED  BY <1>1, <2>2, <2>3 DEF NodesType, a
<1>9. r # 1 => InUse(M, r - 1)
  <2>1. ASSUME r # 1, ~InUse(M, r - 1) PROVE FALSE
    <3>1. r - 1 \in 1 .. Len(M.registers) /\ ~M.registers[r - 1]
      BY <1>1, <1>3, <2>1 DEF InUse
    <3>2. r = CHOOSE x \in {q \in 1 .. Len(M.registers) : ~M.registers[q]} :
                \A y \in {q \in 1 .. Len(M.registers) : ~M.registers[q]} : x <= y
      BY <3>1 DEF Get_Open_Reg, r
    <3> DEFINE free == {q \in 1 .. Len(M.registers) : ~M.registers[q]}
    <3>3. \E x \in free : \A y \in free : x <= y
      <4>1. free \in SUBSET Nat /\ free # {}
        BY <1>1, <3>1
      <4> HIDE DEF free
      <4> QED  BY <4>1, LeastNumber
    <3>4. \A y \in free : r <= y
      <4> HIDE DEF free
      <4>1. r = CHOOSE x \in free : \A y \in free : x <= y
        BY <3>2 DEF free
      <4> QED  BY <3>3, <4>1
    <3>5. r - 1 \in free
      BY <3>1
    <3> HIDE DEF free
    <3> QED  BY <1>4, <3>4, <3>5
  <2> QED  BY <2>1
<1>10. Taken(M, X, c, r)
  BY <1>2, <1>3, <1>4, <1>6, <1>7, <1>8, <1>9 DEF Taken
<1>11. Fit(X)
  <2>1. X.holds \in [Nodes -> Nodes \cup {NULL}] /\ X.holds[r] = c /\ \A q \in Nodes \ {r} : X.holds[q] = M.holds[q]
    BY <1>1, <1>2, <1>5
  <2>2. X \in Machines
    BY <1>2, <1>3, <1>8, <2>1 DEF Machines
  <2>3. ASSUME NEW m \in Nodes, X.node[m].place = "register"
        PROVE  X.node[m].reg \in 1 .. Len(X.registers)
    <3>1. CASE m = c
      BY <1>3, <1>8, <3>1
    <3>2. CASE m # c
      <4>1. M.node[m].reg \in 1 .. Len(M.registers) /\ X.node[m] = M.node[m]
        BY <1>8, <2>3, <3>2 DEF Fit
      <4> QED  BY <1>1, <1>4, <4>1
    <3> QED  BY <3>1, <3>2
  <2>4. ASSUME NEW q \in 1 .. Len(X.registers), X.registers[q]
        PROVE  X.holds[q] \in Nodes /\ X.node[X.holds[q]].place = "register" /\ X.node[X.holds[q]].reg = q
    <3>1. CASE q = r
      BY <1>8, <2>1, <3>1
    <3>2. CASE q # r
      <4>0. InUse(X, q)
        BY <2>4, Zenon DEF InUse
      <4>1. q \in Nodes /\ q \in Nat \ {r}
        BY <1>4, <3>2, Numbers
      <4>3. InUse(M, q)
        BY <1>7, <4>0, <4>1
      <4>2. M.holds[q] \in Nodes /\ M.node[M.holds[q]].place = "register" /\ M.node[M.holds[q]].reg = q
        BY <4>3 DEF InUse, Fit
      <4> QED  BY <1>8, <2>1, <3>2, <4>1, <4>2
    <3> QED  BY <3>1, <3>2
  <2> QED  BY <1>4, <2>2, <2>3, <2>4 DEF Fit
<1> QED  BY <1>5, <1>10, <1>11

(* Constants of C move to registers that were free, and nothing else.      *)
Moved(M, X, C) ==
  /\ Len(M.registers) <= Len(X.registers)
  /\ \A q \in Nat : InUse(M, q) => InUse(X, q) /\ X.holds[q] = M.holds[q]
  /\ \A q \in Nat : InUse(X, q) => InUse(M, q) \/ (X.holds[q] \in C /\ M.node[X.holds[q]].place = "const")
  /\ \A m \in Nodes : /\ Kept(X.node[m], M.node[m])
                      /\ \/ X.node[m] = M.node[m]
                         \/ /\ m \in C /\ M.node[m].place = "const" /\ X.node[m].place = "register"
                            /\ InUse(X, X.node[m].reg) /\ X.holds[X.node[m].reg] = m

LEMMA MovedOn ==
  ASSUME NEW M, NEW X, NEW Y, NEW C, NEW D, NEW E, Fit(M), Fit(X), Fit(Y),
         Moved(M, X, C), Moved(X, Y, D), C \subseteq E, D \subseteq E, C \subseteq Nodes, D \subseteq Nodes
  PROVE  Moved(M, Y, E)
<1>1. Len(M.registers) <= Len(Y.registers)
  BY DEF Moved, Fit, Machines
<1>2. \A q \in Nat : InUse(M, q) => InUse(Y, q) /\ Y.holds[q] = M.holds[q]
  BY DEF Moved
<1>3. ASSUME NEW q \in Nat, InUse(Y, q)
      PROVE  InUse(M, q) \/ (Y.holds[q] \in E /\ M.node[Y.holds[q]].place = "const")
  <2>1. CASE InUse(X, q)
    BY <2>1 DEF Moved
  <2>2. CASE ~InUse(X, q)
    <3>1. Y.holds[q] \in D /\ X.node[Y.holds[q]].place = "const" /\ Y.holds[q] \in Nodes
      BY <1>3, <2>2 DEF Moved
    <3>2. M.node[Y.holds[q]].place = "const"
      BY <3>1 DEF Moved
    <3> QED  BY <3>1, <3>2
  <2> QED  BY <2>1, <2>2
<1>4. ASSUME NEW m \in Nodes
      PROVE  /\ Kept(Y.node[m], M.node[m])
             /\ \/ Y.node[m] = M.node[m]
                \/ /\ m \in E /\ M.node[m].place = "const" /\ Y.node[m].place = "register"
                   /\ InUse(Y, Y.node[m].reg) /\ Y.holds[Y.node[m].reg] = m
  <2>1. Kept(X.node[m], M.node[m]) /\ Kept(Y.node[m], X.node[m])
    BY DEF Moved
  <2>2. Kept(Y.node[m], M.node[m])
    BY <2>1 DEF Kept
  <2>3. CASE X.node[m] = M.node[m]
    BY <2>2, <2>3 DEF Moved
  <2>4. CASE X.node[m] # M.node[m]
    <3>1. /\ m \in C /\ M.node[m].place = "const" /\ X.node[m].place = "register"
          /\ InUse(X, X.node[m].reg) /\ X.holds[X.node[m].reg] = m
      BY <2>4 DEF Moved
    <3>2. Y.node[m] = X.node[m]
      BY <3>1 DEF Moved
    <3>3. X.node[m].reg \in Nat
      BY DEF Fit, Machines, NodesType, NodeType
    <3> QED  BY <2>2, <3>1, <3>2, <3>3 DEF Moved
  <2> QED  BY <2>3, <2>4
<1> QED  BY <1>1, <1>2, <1>3, <1>4 DEF Moved

LEMMA MovedNot ==
  ASSUME NEW M, Fit(M), NEW C
  PROVE  Moved(M, M, C)
BY DEF Moved, Kept, Fit, Machines

LEMMA ForceIs ==
  ASSUME NEW M, Fit(M), NEW c \in Nodes \cup {NULL}, NEW X, X = ForceConstant(M, c), NEW C \in SUBSET Nodes, c # NULL => c \in C
  PROVE  Fit(X) /\ Moved(M, X, C)
<1>1. CASE c # NULL /\ M.node[c].place = "const"
  <2>1. X = InOpenRegister(M, c) /\ c \in Nodes /\ M.node[c].place # "register"
    BY <1>1 DEF ForceConstant
  <2>2. PICK r \in Nodes : Taken(M, X, c, r)
    BY <2>1, InOpenIs
  <2>3. Fit(X)
    BY <2>1, InOpenIs
  <2>4. X.holds[r] = c /\ \A q \in Nodes \ {r} : X.holds[q] = M.holds[q]
    BY <2>1, <2>2 DEF Taken, Fit, Machines
  <2>5. ASSUME NEW q \in Nat, InUse(M, q)
        PROVE  InUse(X, q) /\ X.holds[q] = M.holds[q]
    <3>1. q # r /\ q \in Nodes
      <4>1. q \in 1 .. Len(M.registers) /\ Len(M.registers) \in Nat /\ Len(M.registers) <= MaxSymbols
        BY <2>5 DEF InUse, Fit, Machines
      <4> QED  BY <2>2, <2>5, <4>1, Numbers DEF Taken
    <3> QED  BY <2>2, <2>4, <2>5, <3>1 DEF Taken
  <2>6. ASSUME NEW q \in Nat, InUse(X, q)
        PROVE  InUse(M, q) \/ (X.holds[q] \in C /\ M.node[X.holds[q]].place = "const")
    BY <1>1, <2>2, <2>4, <2>6 DEF Taken
  <2>7. ASSUME NEW m \in Nodes
        PROVE  /\ Kept(X.node[m], M.node[m])
               /\ \/ X.node[m] = M.node[m]
                  \/ /\ m \in C /\ M.node[m].place = "const" /\ X.node[m].place = "register"
                     /\ InUse(X, X.node[m].reg) /\ X.holds[X.node[m].reg] = m
    <3>1. CASE m = c
      BY <1>1, <2>2, <2>4, <3>1 DEF Taken
    <3>2. CASE m # c
      BY <2>2, <3>2 DEF Taken, Kept
    <3> QED  BY <3>1, <3>2
  <2> QED  BY <2>2, <2>3, <2>5, <2>6, <2>7 DEF Moved, Taken
<1>2. CASE ~ (c # NULL /\ M.node[c].place = "const")
  BY <1>2, MovedNot DEF ForceConstant
<1> QED  BY <1>1, <1>2
---------------------------------------------------------------------------
(* The recursion of Force_Memory.                                          *)
ForcedTo(M, ps, k, F) ==
  /\ F = [i \in 0 .. k |-> F[i]]
  /\ F[0] = M /\ \A i \in 1 .. k : F[i] = ForceConstant(F[i - 1], ps[i - 1])

LEMMA ForcedExists ==
  ASSUME NEW M, NEW ps, NEW k \in Nat
  PROVE  \E F : ForcedTo(M, ps, k, F)
<1> DEFINE Bad == {i \in Nat : ~ \E F : ForcedTo(M, ps, i, F)}
<1>1. SUFFICES ASSUME Bad # {} PROVE FALSE
  OBVIOUS
<1>2. PICK x \in Bad : \A y \in Bad : x <= y
  <2>1. Bad \in SUBSET Nat
    OBVIOUS
  <2> HIDE DEF Bad
  <2> QED  BY <1>1, <2>1, LeastNumber
<1>3. x # 0
  <2>1. ForcedTo(M, ps, 0, [i \in 0 .. 0 |-> M])
    BY DEF ForcedTo
  <2> QED  BY <1>2, <2>1
<1>4. x - 1 \in Nat /\ x - 1 \notin Bad /\ x \in Nat
  BY <1>2, <1>3
<1>5. PICK F : ForcedTo(M, ps, x - 1, F)
  BY <1>4
<1> DEFINE v == ForceConstant(F[x - 1], ps[x - 1])
           G == [i \in 0 .. x |-> IF i = x THEN v ELSE F[i]]
<1>6. G[x] = v /\ \A i \in 0 .. x - 1 : G[i] = F[i]
  BY <1>4
<1>7. G = [i \in 0 .. x |-> G[i]]
  OBVIOUS
<1>8. F[0] = M /\ \A i \in 1 .. x - 1 : F[i] = ForceConstant(F[i - 1], ps[i - 1])
  BY <1>5 DEF ForcedTo
<1> HIDE DEF G
<1>9. G[0] = M
  BY <1>3, <1>4, <1>6, <1>8
<1>10. ASSUME NEW i \in 1 .. x
       PROVE  G[i] = ForceConstant(G[i - 1], ps[i - 1])
  <2>1. CASE i = x
    <3>1. G[x - 1] = F[x - 1]
      BY <1>3, <1>4, <1>6
    <3> QED  BY <1>6, <2>1, <3>1
  <2>2. CASE i # x
    <3>1. i \in 1 .. x - 1 /\ i \in 0 .. x - 1 /\ i - 1 \in 0 .. x - 1
      BY <1>4, <2>2
    <3> QED  BY <1>6, <1>8, <3>1
  <2> QED  BY <2>1, <2>2
<1>11. ForcedTo(M, ps, x, G)
  BY <1>7, <1>9, <1>10 DEF ForcedTo
<1> QED  BY <1>2, <1>11

LEMMA ForceMemoryIs ==
  ASSUME node \in NodesType, NEW M, Fit(M), NEW n \in Nodes, NEW X, X = Force_Memory(M, n),
         NEW C \in SUBSET Nodes, Children(node, n) \subseteq C
  PROVE  Fit(X) /\ Moved(M, X, C)
<1> DEFINE ps == node[n].params
           N == MaxParams + 1
<1>1. N \in Nat /\ MaxParams \in Nat /\ \A i \in 1 .. N : i - 1 \in Slots /\ i - 1 \in 0 .. N /\ i \in 0 .. N
  BY Numbers
<1>2. \E F : ForcedTo(M, ps, N, F)
  <2> HIDE DEF N
  <2> QED  BY <1>1, ForcedExists
<1> DEFINE Rec(F) == F = [i \in 0 .. N |-> IF i = 0 THEN M ELSE ForceConstant(F[i - 1], ps[i - 1])]
<1>3. ASSUME NEW F, ForcedTo(M, ps, N, F)
      PROVE  Rec(F)
  <2>1. ASSUME NEW i \in 0 .. N
        PROVE  F[i] = IF i = 0 THEN M ELSE ForceConstant(F[i - 1], ps[i - 1])
    <3>1. i # 0 => i \in 1 .. N
      BY <1>1
    <3> QED  BY <1>3, <3>1 DEF ForcedTo
  <2>2. F = [i \in 0 .. N |-> F[i]]
    BY <1>3 DEF ForcedTo
  <2> QED  BY <2>1, <2>2
<1> DEFINE Forced == CHOOSE F : Rec(F)
<1>4. Rec(Forced)
  <2> HIDE DEF Rec
  <2> QED  BY <1>2, <1>3
<1>5. X = Forced[N]
  BY DEF Force_Memory
<1>6. Forced[0] = M /\ \A i \in 1 .. N : Forced[i] = ForceConstant(Forced[i - 1], ps[i - 1])
  <2> HIDE DEF Forced
  <2>1. \A i \in 0 .. N : Forced[i] = IF i = 0 THEN M ELSE ForceConstant(Forced[i - 1], ps[i - 1])
    BY <1>4
  <2>2. 0 \in 0 .. N /\ \A i \in 1 .. N : i \in 0 .. N /\ i # 0
    BY <1>1
  <2> QED  BY <2>1, <2>2
<1> HIDE DEF Rec, Forced
<1> DEFINE Bad == {i \in 0 .. N : ~ (Fit(Forced[i]) /\ Moved(M, Forced[i], C))}
<1>7. Bad = {}
  <2>1. SUFFICES ASSUME Bad # {} PROVE FALSE
    OBVIOUS
  <2>2. PICK x \in Bad : \A y \in Bad : x <= y
    <3>1. Bad \in SUBSET Nat
      BY <1>1
    <3> HIDE DEF Bad
    <3> QED  BY <2>1, <3>1, LeastNumber
  <2>3. x # 0
    BY <1>6, <2>2, MovedNot
  <2>4. x \in 1 .. N /\ x - 1 \in 0 .. N /\ x - 1 \notin Bad
    BY <1>1, <2>2, <2>3
  <2>5. Fit(Forced[x - 1]) /\ Moved(M, Forced[x - 1], C)
    BY <2>4
  <2>6. Forced[x] = ForceConstant(Forced[x - 1], ps[x - 1]) /\ x - 1 \in Slots
    BY <1>1, <1>6, <2>4
  <2>7. ps[x - 1] \in Nodes \cup {NULL}
    BY <2>6, NodeFacts
  <2>8. ps[x - 1] # NULL => ps[x - 1] \in C
    BY <2>6 DEF Children
  <2>9. Fit(Forced[x]) /\ Moved(Forced[x - 1], Forced[x], C)
    BY <2>5, <2>6, <2>7, <2>8, ForceIs
  <2> QED  BY <2>2, <2>5, <2>9, MovedOn
<1>8. N \in 0 .. N
  BY <1>1
<1> QED  BY <1>5, <1>7, <1>8

LEMMA MappedIs ==
  ASSUME node \in NodesType, NEW M, Fit(M), NEW n \in Nodes, NEW X, X = Mapped(M, n),
         node[n].sym = "." => Method(n) \in Nodes
  PROVE  Fit(X) /\ Moved(M, X, Parameters(n)) /\ Parameters(n) \in SUBSET Nodes
<1>1. Parameters(n) \in SUBSET Nodes /\ Children(node, n) \subseteq Parameters(n)
      /\ (node[n].sym = "." => Children(node, Method(n)) \subseteq Parameters(n))
  BY NodeFacts DEF Parameters
<1>2. ASSUME NEW A, Fit(A), NEW m \in Nodes, Children(node, m) \subseteq Parameters(n), NEW Y, Y = Map_Parameters(A, m)
      PROVE  Fit(Y) /\ Moved(A, Y, Parameters(n))
  <2>1. CASE Y = Force_Memory(A, m)
    BY <1>1, <1>2, <2>1, ForceMemoryIs
  <2>2. CASE Y = ForceConstant(A, node[m].params[0])
    <3>1. node[m].params[0] \in Nodes \cup {NULL} /\ (node[m].params[0] # NULL => node[m].params[0] \in Children(node, m))
      BY Numbers, NodeFacts DEF Children
    <3> QED  BY <1>1, <1>2, <2>2, <3>1, ForceIs
  <2>3. CASE Y = A
    BY <1>2, <2>3, MovedNot
  <2> QED  BY <1>2, <2>1, <2>2, <2>3 DEF Map_Parameters
<1> DEFINE Y == Map_Parameters(M, n)
<1>3. Fit(Y) /\ Moved(M, Y, Parameters(n))
  BY <1>1, <1>2
<1>4. CASE node[n].sym = "."
  <2>1. X = Map_Parameters(Y, Method(n))
    BY <1>4 DEF Mapped
  <2> HIDE DEF Y
  <2>2. Fit(X) /\ Moved(Y, X, Parameters(n))
    BY <1>1, <1>2, <1>3, <1>4, <2>1
  <2> QED  BY <1>1, <1>3, <2>2, MovedOn
<1>5. CASE node[n].sym # "."
  <2>1. X = Y
    BY <1>5 DEF Mapped
  <2> QED  BY <1>1, <1>3, <2>1
<1> QED  BY <1>4, <1>5
---------------------------------------------------------------------------
(* Evaluation keeps the nodes in their registers.                          *)
LEMMA ClearIs ==
  ASSUME NEW M, Fit(M), NEW n, NEW X, X = Clear_Registry(M, n)
  PROVE  /\ Fit(X) /\ X.node = M.node /\ X.holds = M.holds /\ Len(X.registers) = Len(M.registers)
         /\ \A q \in Nat : InUse(X, q) => InUse(M, q)
         /\ node[n].sym # "class" => \A q \in Nat : InUse(X, q) <=>
              InUse(M, q) /\ ~ \E c \in Parameters(n) : InRegister(M, c) /\ M.node[c].reg = q
<1> DEFINE cleared == {M.node[c].reg : c \in {c \in Parameters(n) : InRegister(M, c)}}
           flags == [r \in DOMAIN M.registers |-> M.registers[r] /\ r \notin cleared]
           Y == [M EXCEPT !.registers = flags]
<1>1. M \in Machines /\ M.registers \in Seq(BOOLEAN) /\ Len(M.registers) \in Nat /\ DOMAIN M.registers = 1 .. Len(M.registers)
  BY DEF Fit, Machines
<1>2. X = IF node[n].sym = "class" THEN M ELSE Y
  BY DEF Clear_Registry
<1>3. flags \in Seq(BOOLEAN) /\ Len(flags) = Len(M.registers)
  <2>1. flags \in [1 .. Len(M.registers) -> BOOLEAN]
    BY <1>1
  <2> HIDE DEF flags
  <2> QED  BY <1>1, <2>1
<1>4. \A q \in 1 .. Len(M.registers) : flags[q] <=> M.registers[q] /\ q \notin cleared
  BY <1>1
<1> HIDE DEF flags
<1>5. Y \in Machines /\ Y.node = M.node /\ Y.holds = M.holds /\ Y.registers = flags
  BY <1>1, <1>3 DEF Machines
<1> HIDE DEF Y
<1>6. \A q \in Nat : InUse(Y, q) <=> InUse(M, q) /\ q \notin cleared
  <2>1. ASSUME NEW q \in Nat
        PROVE  InUse(Y, q) <=> InUse(M, q) /\ q \notin cleared
    <3>1. CASE q \in 1 .. Len(M.registers)
      <4>1. flags[q] <=> M.registers[q] /\ q \notin cleared
        BY <1>4, <3>1
      <4> HIDE DEF cleared
      <4> QED  BY <1>3, <1>5, <3>1, <4>1, Zenon DEF InUse
    <3>2. CASE q \notin 1 .. Len(M.registers)
      BY <1>3, <1>5, <3>2 DEF InUse
    <3> QED  BY <3>1, <3>2
  <2> QED  BY <2>1
<1>7. \A q : q \in cleared <=> \E c \in Parameters(n) : InRegister(M, c) /\ M.node[c].reg = q
  OBVIOUS
<1> HIDE DEF cleared
<1>8. Fit(Y)
  <2>1. ASSUME NEW q \in 1 .. Len(Y.registers), Y.registers[q]
        PROVE  Y.holds[q] \in Nodes /\ Y.node[Y.holds[q]].place = "register" /\ Y.node[Y.holds[q]].reg = q
    <3>1. InUse(Y, q)
      BY <2>1, Zenon DEF InUse
    <3>2. q \in Nat
      BY <1>1, <1>3, <1>5
    <3>3. InUse(M, q)
      BY <1>6, <3>1, <3>2
    <3> QED  BY <1>5, <3>3 DEF Fit, InUse
  <2> QED  BY <1>3, <1>5, <2>1 DEF Fit
<1>9. CASE node[n].sym = "class"
  BY <1>2, <1>9
<1>10. CASE node[n].sym # "class"
  <2>1. X = Y
    BY <1>2, <1>10
  <2> QED  BY <1>3, <1>5, <1>6, <1>7, <1>8, <2>1
<1> QED  BY <1>9, <1>10

(* An assignment inside an expression: n has the place of what it assigns. *)
Aliased(M, X, n, to) ==
  /\ X.registers = M.registers
  /\ X.node[n].place = M.node[to].place /\ X.node[n].reg = M.node[to].reg
  /\ X.holds = IF InRegister(M, to) THEN [M.holds EXCEPT ![M.node[to].reg] = n] ELSE M.holds

LEMMA ResultIs ==
  ASSUME node \in NodesType, NEW M, Fit(M), NEW n \in Nodes, M.node[n].place # "register", NEW X, X = Result(M, n),
         node[n].sym = "=" => node[n].params[0] \in Nodes
  PROVE  /\ Fit(X) /\ \A m \in Nodes : Kept(X.node[m], M.node[m]) /\ (m # n => X.node[m] = M.node[m])
         /\ \/ \E r \in Nodes : Taken(M, X, n, r)
            \/ node[n].sym = "=" /\ node[n].parent # NULL /\ Aliased(M, X, n, node[n].params[0])
<1> DEFINE to == node[n].params[0]
<1>1. CASE node[n].sym # "=" \/ node[n].parent = NULL
  <2>1. X = InOpenRegister(M, n)
    BY <1>1 DEF Result
  <2>2. PICK r \in Nodes : Taken(M, X, n, r)
    BY <2>1, InOpenIs
  <2>3. Fit(X)
    BY <2>1, InOpenIs
  <2>4. \A m \in Nodes : Kept(X.node[m], M.node[m]) /\ (m # n => X.node[m] = M.node[m])
    BY <2>2 DEF Taken, Kept
  <2> QED  BY <2>2, <2>3, <2>4
<1>2. CASE node[n].sym = "=" /\ node[n].parent # NULL
  <2> DEFINE a == [M.node[n] EXCEPT !.place = M.node[to].place, !.reg = M.node[to].reg]
             f == [M.node EXCEPT ![n] = a]
             h == IF InRegister(M, to) THEN [M.holds EXCEPT ![M.node[to].reg] = n] ELSE M.holds
  <2>1. to \in Nodes /\ M \in Machines /\ M.node \in NodesType /\ M.holds \in [Nodes -> Nodes \cup {NULL}]
    BY <1>2 DEF Fit, Machines
  <2>2. M.node[n] \in NodeType /\ M.node[to] \in NodeType
    BY <2>1 DEF NodesType
  <2>3. X = [M EXCEPT !.node[n].place = M.node[to].place, !.node[n].reg = M.node[to].reg, !.holds = h]
    BY <1>2 DEF Result
  <2>4. a \in NodeType /\ Kept(a, M.node[n]) /\ a.place = M.node[to].place /\ a.reg = M.node[to].reg
    BY <2>2 DEF NodeType, Kept
  <2>5. f \in NodesType /\ f[n] = a /\ \A m \in Nodes \ {n} : f[m] = M.node[m]
    <3> HIDE DEF a
    <3> QED  BY <2>1, <2>4 DEF NodesType
  <2>6. M.node[to].place = "register" => M.node[to].reg \in 1 .. Len(M.registers) /\ M.node[to].reg \in Nodes
    <3>1. \A q \in 1 .. Len(M.registers) : q \in Nodes
      BY Numbers DEF Fit, Machines, Nodes
    <3> QED  BY <2>1, <3>1 DEF Fit
  <2>7. h \in [Nodes -> Nodes \cup {NULL}]
    BY <2>1, <2>6 DEF InRegister
  <2>8. X.node = f /\ X.registers = M.registers /\ X.holds = h /\ X \in Machines
    <3>1. X = [M EXCEPT !.node = f, !.holds = h]
      <4>1. [M.node EXCEPT ![n].place = M.node[to].place, ![n].reg = M.node[to].reg] = f
        BY <2>1 DEF NodesType
      <4> HIDE DEF f, h
      <4> QED  BY <2>1, <2>3, <4>1 DEF Machines
    <3> HIDE DEF f, h
    <3> QED  BY <2>1, <2>5, <2>7, <3>1 DEF Machines
  <2> HIDE DEF a, f
  <2>9. ASSUME NEW m \in Nodes, X.node[m].place = "register"
        PROVE  X.node[m].reg \in 1 .. Len(X.registers)
    <3>1. CASE m = n
      BY <2>4, <2>5, <2>6, <2>8, <2>9, <3>1
    <3>2. CASE m # n
      BY <2>5, <2>8, <2>9, <3>2 DEF Fit
    <3> QED  BY <3>1, <3>2
  <2>10. ASSUME NEW q \in 1 .. Len(X.registers), X.registers[q]
         PROVE  X.holds[q] \in Nodes /\ X.node[X.holds[q]].place = "register" /\ X.node[X.holds[q]].reg = q
    <3>1. M.holds[q] \in Nodes /\ M.node[M.holds[q]].place = "register" /\ M.node[M.holds[q]].reg = q
      BY <2>8, <2>10 DEF Fit
    <3>2. q \in Nodes
      BY <2>8, <2>10, Numbers DEF Fit, Machines, Nodes
    <3>3. CASE h[q] = M.holds[q]
      <4>1. M.holds[q] # n
        BY <3>1
      <4> QED  BY <2>5, <2>8, <3>1, <3>3, <4>1
    <3>4. CASE h[q] # M.holds[q]
      <4>1. InRegister(M, to) /\ q = M.node[to].reg /\ h[q] = n
        BY <2>1, <3>2, <3>4
      <4> QED  BY <2>4, <2>5, <2>8, <4>1 DEF InRegister
    <3> QED  BY <3>3, <3>4
  <2>11. Fit(X)
    BY <2>8, <2>9, <2>10 DEF Fit
  <2>12. \A m \in Nodes : Kept(X.node[m], M.node[m]) /\ (m # n => X.node[m] = M.node[m])
    BY <2>4, <2>5, <2>8 DEF Kept
  <2>13. Aliased(M, X, n, to)
    BY <2>4, <2>5, <2>8 DEF Aliased
  <2> QED  BY <1>2, <2>11, <2>12, <2>13
<1> QED  BY <1>1, <1>2
---------------------------------------------------------------------------
(* The inductive invariant of the types.                                   *)
Settled == Linked(node) /\ Below(node) /\ Assigned(node, {}) /\ Called(node, {})

IInv ==
  /\ Typed /\ Placed /\ Reading
  /\ stage = "parse" => Built
  /\ stage = "evaluate" => Settled

LEMMA BlankIs ==
  /\ Blank \in NodeType /\ Blank.sym = "none" /\ Blank.parent = NULL /\ Blank.place = "none" /\ Blank.index = 0
  /\ \A i \in Slots : Blank.params[i] = NULL
  /\ [n \in Nodes |-> Blank] \in NodesType
<1>1. [i \in Slots |-> NULL] \in [Slots -> Nodes \cup {NULL}] /\ 0 \in Slots
  BY Numbers
<1>2. Blank \in NodeType
  BY <1>1 DEF Blank, NodeType, Kinds, NULL
<1>3. Blank.params = [i \in Slots |-> NULL] /\ Blank.sym = "none" /\ Blank.parent = NULL /\ Blank.place = "none" /\ Blank.index = 0
  BY DEF Blank
<1> QED  BY <1>2, <1>3 DEF NodesType

(* A state between two statements.                                         *)
Between ==
  /\ symbols = <<>> /\ open = <<>> /\ phase = "operand" /\ target = FALSE /\ precedence = 0
  /\ node = [n \in Nodes |-> Blank] /\ root = NULL /\ stage = "parse" /\ todo = {}
  /\ registers \in Seq(BOOLEAN) /\ Len(registers) <= MaxSymbols /\ \A r \in 1 .. Len(registers) : ~registers[r]
  /\ holds = [r \in Nodes |-> NULL]

LEMMA BlankState == Between => IInv
<1> SUFFICES ASSUME Between PROVE IInv
  OBVIOUS
<1> USE DEF Between
<1>1. node \in NodesType /\ \A m \in Nodes : node[m] = Blank
  BY BlankIs
<1>2. symbols \in Seq(Kinds) /\ open \in Seq(Brackets) /\ Len(symbols) = 0 /\ Len(open) = 0
  BY Zenon, EmptySeq
<1>3. Typed
  <2>1. target \in BOOLEAN
    BY Zenon
  <2>2. Len(symbols) <= MaxSymbols
    BY <1>2, Numbers
  <2> QED  BY <1>1, <1>2, <2>1, <2>2 DEF Typed
<1>4. holds \in [Nodes -> Nodes \cup {NULL}]
  OBVIOUS
<1>5. Fit(Machine)
  <2>1. Machine.node = node /\ Machine.registers = registers /\ Machine.holds = holds /\ Machine \in Machines
    BY <1>1, <1>4 DEF Machine, Machines
  <2> QED  BY <1>1, <2>1, BlankIs DEF Fit
<1>6. Placed
  BY <1>5 DEF Placed
<1>7. Form(node) /\ Unplaced(node)
  BY <1>1, BlankIs DEF Form, Unplaced, Localized
<1>8. Untargeted
  BY DEF Untargeted
<1>9. Reading
  BY <1>7, <1>8 DEF Reading
<1>10. Built
  <2>1. Linked(node) /\ Below(node) /\ Dotted(node) /\ Assigned(node, {}) /\ Called(node, Pending)
    BY <1>1, BlankIs DEF Linked, Below, Dotted, Assigned, Called
  <2>2. Fits
    BY <1>1, <1>2, BlankIs DEF Fits
  <2> QED  BY <2>1, <2>2 DEF Built
<1> QED  BY <1>3, <1>6, <1>9, <1>10 DEF IInv

LEMMA InitBetween == Init => Between
<1> SUFFICES ASSUME Init PROVE Between
  OBVIOUS
<1>1. registers \in Seq(BOOLEAN) /\ Len(registers) = 0
  BY EmptySeq, Zenon DEF Init
<1>2. Len(registers) <= MaxSymbols /\ \A r \in 1 .. Len(registers) : ~registers[r]
  BY <1>1, Numbers
<1> QED  BY <1>1, <1>2 DEF Init, Between

LEMMA InitInv == Init => IInv
BY InitBetween, BlankState

LEMMA ReadInv ==
  ASSUME IInv, NEW x \in Symbols, ReadSymbol(x)
  PROVE  IInv'
<1>1. stage = "parse" /\ stage' = stage /\ todo' = todo /\ registers' = registers /\ holds' = holds
  BY DEF ReadSymbol
<1>2. Typed' /\ Built' /\ Reading'
  BY <1>1, ReadTree DEF IInv
<1>3. Placed'
  <2>1. Machine' \in Machines /\ Machine'.node = node' /\ Machine'.registers = registers /\ Machine'.holds = holds
    BY <1>1, <1>2 DEF Machine, Machines, Typed, IInv, Placed, Fit
  <2>2. /\ registers \in Seq(BOOLEAN) /\ Len(registers) <= MaxSymbols /\ todo = {}
        /\ \A r \in 1 .. Len(registers) : ~registers[r]
    BY <1>1 DEF IInv, Placed, Fit, Machines, Machine
  <2>3. \A m \in Nodes : node'[m].place # "register"
    BY <1>1, <1>2 DEF Reading, Unplaced, Localized
  <2>4. Fit(Machine')
    BY <2>1, <2>2, <2>3 DEF Fit
  <2> QED  BY <1>1, <2>2, <2>4 DEF Placed, Fit
<1> QED  BY <1>1, <1>2, <1>3 DEF IInv

LEMMA NewLineInv ==
  ASSUME IInv, NewLine
  PROVE  IInv'
<1>1. /\ stage = "parse" /\ stage' = "evaluate" /\ open = <<>> /\ phase \in {"operator", "method"}
      /\ node' = Reduce(node) /\ todo' = {n \in Subtree(node', root) : Evaluable(node'[n].sym)}
      /\ symbols' = symbols /\ open' = open /\ target' = target /\ precedence' = precedence /\ root' = root
      /\ registers' = registers /\ holds' = holds
  BY DEF NewLine
<1>2. Typed /\ Placed /\ Built /\ node \in NodesType /\ root \in Nodes \cup {NULL}
  BY <1>1 DEF IInv, Typed
<1>3. Unplaced(node) /\ Called(node, {})
  BY <1>1, <1>2 DEF IInv, Reading, Built, Pending
<1>4. /\ node' \in NodesType
      /\ \A m \in Nodes : /\ node'[m].priority = node[m].priority /\ node'[m].index = node[m].index /\ node'[m].parent = node[m].parent
                          /\ \/ node'[m] = node[m]
                             \/ /\ node[m].sym \in {"!", "+", "*", "!="} /\ node'[m].sym = "const" /\ node'[m].place = "const"
                                /\ \A i \in Slots : node'[m].params[i] = NULL
  BY <1>1, <1>2, ReduceIs
<1>5. Typed'
  BY <1>1, <1>2, <1>4 DEF Typed
<1>6. todo' \in SUBSET Nodes
  <2>1. CASE root = NULL
    BY <1>1, <2>1 DEF Subtree
  <2>2. CASE root # NULL
    <3>1. root \in Nodes
      BY <1>2, <2>2
    <3>2. PICK g : g = node'
      OBVIOUS
    <3>3. Subtree(g, root) \in SUBSET Nodes
      BY <1>4, <3>1, <3>2, SubtreeFacts
    <3> QED  BY <1>1, <3>2, <3>3
  <2> QED  BY <2>1, <2>2
<1>7. \A m \in Nodes : node'[m].place # "register" /\ (node'[m].place = "const" => node'[m].sym = "const")
  BY <1>3, <1>4 DEF Unplaced, Localized
<1>8. Placed'
  <2>1. Machine' \in Machines /\ Machine'.node = node' /\ Machine'.registers = registers /\ Machine'.holds = holds
    BY <1>1, <1>2, <1>4 DEF Machine, Machines, Placed, Fit
  <2>2. /\ registers \in Seq(BOOLEAN) /\ Len(registers) <= MaxSymbols
        /\ \A r \in 1 .. Len(registers) : ~registers[r]
    BY <1>1, <1>2 DEF Placed, Fit, Machines, Machine
  <2>3. Fit(Machine')
    BY <1>7, <2>1, <2>2 DEF Fit
  <2>4. \A m \in todo' : node'[m].place \notin {"register", "const"}
    BY <1>1, <1>6, <1>7 DEF Evaluable
  <2> QED  BY <1>1, <1>6, <2>3, <2>4 DEF Placed, Fit
<1>9. Settled'
  <2>1. Linked(node')
    BY <1>2, <1>4 DEF Built, Linked, NodesType, NodeType
  <2>2. Below(node')
    BY <1>2, <1>4 DEF Built, Below
  <2>3. Assigned(node', {}) /\ Called(node', {})
    BY <1>2, <1>3, <1>4 DEF Built, Assigned, Called
  <2> QED  BY <2>1, <2>2, <2>3 DEF Settled
<1> QED  BY <1>1, <1>5, <1>8, <1>9 DEF IInv, Reading

(* The state in which an operation is evaluated, and what follows.         *)
LEMMA EvaluateIs ==
  ASSUME IInv, NEW n \in todo, Evaluate(n), NEW A, A = Mapped(Machine, n), NEW B, B = Clear_Registry(A, n),
         NEW X, X = Result(B, n)
  PROVE  /\ n \in Nodes /\ node \in NodesType /\ Fit(Machine) /\ node[n].place \notin {"register", "const"}
         /\ node[n].sym = "=" => node[n].params[0] \in Nodes
         /\ node[n].sym = "." => Method(n) \in Nodes
         /\ Fit(A) /\ Moved(Machine, A, Parameters(n)) /\ Parameters(n) \in SUBSET Nodes
         /\ Fit(B) /\ B.node = A.node /\ B.node[n].place # "register" /\ A.node[n] = node[n]
         /\ Fit(X) /\ node' = X.node /\ registers' = X.registers /\ holds' = X.holds /\ Machine' = X
         /\ todo' = todo \ {n}
<1>1. /\ stage = "evaluate" /\ node' = X.node /\ registers' = X.registers /\ holds' = X.holds /\ todo' = todo \ {n}
  BY DEF Evaluate
<1>2. n \in Nodes /\ node \in NodesType /\ Fit(Machine) /\ node[n].place \notin {"register", "const"} /\ Settled
  BY <1>1 DEF IInv, Typed, Placed
<1>3. (node[n].sym = "=" => node[n].params[0] \in Nodes) /\ (node[n].sym = "." => Method(n) \in Nodes)
  <2>1. 0 \in Slots /\ 1 \in Slots
    BY <1>2, Numbers
  <2> QED  BY <1>2, <2>1, NodeFacts DEF Settled, Assigned, Called, Method
<1>4. Fit(A) /\ Moved(Machine, A, Parameters(n)) /\ Parameters(n) \in SUBSET Nodes
  BY <1>2, <1>3, MappedIs
<1>5. Fit(B) /\ B.node = A.node
  BY <1>4, ClearIs
<1>6. A.node[n] = node[n]
  BY <1>2, <1>4 DEF Moved, Machine
<1>7. B.node[n].place # "register"
  BY <1>2, <1>5, <1>6
<1>8. Fit(X)
  BY <1>2, <1>3, <1>5, <1>7, ResultIs
<1>9. Machine' = X
  BY <1>1, <1>8 DEF Machine, Fit, Machines
<1> QED  BY <1>1, <1>2, <1>3, <1>4, <1>5, <1>6, <1>7, <1>8, <1>9

LEMMA EvaluateKeeps ==
  ASSUME IInv, NEW n \in todo, Evaluate(n)
  PROVE  \A m \in Nodes : Kept(node'[m], node[m]) /\ (m # n /\ node[m].place # "const" => node'[m] = node[m])
<1>1. PICK A : A = Mapped(Machine, n)
  OBVIOUS
<1>2. PICK B : B = Clear_Registry(A, n)
  OBVIOUS
<1>3. PICK X : X = Result(B, n)
  OBVIOUS
<1>4. /\ n \in Nodes /\ node \in NodesType /\ Fit(B) /\ B.node = A.node /\ B.node[n].place # "register"
      /\ Moved(Machine, A, Parameters(n)) /\ node' = X.node
      /\ node[n].sym = "=" => node[n].params[0] \in Nodes
  BY <1>1, <1>2, <1>3, EvaluateIs
<1>5. \A m \in Nodes : Kept(X.node[m], B.node[m]) /\ (m # n => X.node[m] = B.node[m])
  BY <1>3, <1>4, ResultIs
<1>6. \A m \in Nodes : Kept(A.node[m], node[m]) /\ (node[m].place # "const" => A.node[m] = node[m])
  BY <1>4 DEF Moved, Machine
<1> QED  BY <1>4, <1>5, <1>6 DEF Kept

LEMMA EvaluateInv ==
  ASSUME IInv, NEW n \in todo, Evaluate(n)
  PROVE  IInv'
<1>1. PICK A : A = Mapped(Machine, n)
  OBVIOUS
<1>2. PICK B : B = Clear_Registry(A, n)
  OBVIOUS
<1>3. PICK X : X = Result(B, n)
  OBVIOUS
<1>4. Fit(X) /\ node' = X.node /\ Machine' = X /\ todo' = todo \ {n}
  BY <1>1, <1>2, <1>3, EvaluateIs
<1>5. /\ stage = "evaluate" /\ stage' = stage /\ symbols' = symbols /\ open' = open /\ phase' = phase
      /\ target' = target /\ precedence' = precedence /\ root' = root
  BY DEF Evaluate
<1>6. node' \in NodesType
  BY <1>4 DEF Fit, Machines
<1>7. Typed'
  BY <1>5, <1>6 DEF IInv, Typed
<1>8. \A m \in Nodes : Kept(node'[m], node[m]) /\ (m # n /\ node[m].place # "const" => node'[m] = node[m])
  BY EvaluateKeeps
<1>9. Placed'
  BY <1>4, <1>5, <1>8 DEF IInv, Placed
<1>10. Settled'
  <2>1. Linked(node')
    BY <1>5, <1>8 DEF IInv, Typed, NodesType, NodeType, Settled, Linked, Kept
  <2>2. Below(node')
    BY <1>5, <1>8 DEF IInv, Settled, Below, Kept
  <2>3. Assigned(node', {}) /\ Called(node', {})
    BY <1>5, <1>8 DEF IInv, Settled, Assigned, Called, Kept
  <2> QED  BY <2>1, <2>2, <2>3 DEF Settled
<1> QED  BY <1>5, <1>7, <1>9, <1>10 DEF IInv, Reading

LEMMA EndBetween ==
  ASSUME IInv, EndStatement
  PROVE  Between'
<1>1. /\ stage = "evaluate" /\ todo = {} /\ todo' = {} /\ open' = <<>>
      /\ registers \in Seq(BOOLEAN) /\ Len(registers) <= MaxSymbols
      /\ registers' = [r \in DOMAIN registers |-> FALSE]
  BY DEF EndStatement, IInv, Placed, Fit, Machines, Machine
<1>2. registers' \in Seq(BOOLEAN) /\ Len(registers') <= MaxSymbols /\ \A r \in 1 .. Len(registers') : ~registers'[r]
  <2>3. DOMAIN registers = 1 .. Len(registers) /\ Len(registers) \in Nat
    BY <1>1
  <2>1. registers' \in [1 .. Len(registers) -> BOOLEAN]
    <3>1. registers' = [r \in 1 .. Len(registers) |-> FALSE]
      BY <1>1, <2>3, Zenon
    <3> QED  BY <3>1, Zenon
  <2>2. registers' \in Seq(BOOLEAN) /\ Len(registers') = Len(registers)
    BY <2>1, <2>3
  <2>4. \A r \in 1 .. Len(registers) : ~registers'[r]
    BY <1>1, <2>3, Zenon
  <2> QED  BY <1>1, <2>2, <2>4
<1>3. /\ symbols' = <<>> /\ open' = <<>> /\ phase' = "operand" /\ target' = FALSE /\ precedence' = 0
      /\ node' = [m \in Nodes |-> Blank] /\ root' = NULL /\ stage' = "parse" /\ todo' = {}
      /\ holds' = [r \in Nodes |-> NULL]
  BY <1>1 DEF EndStatement
<1> QED  BY <1>2, <1>3 DEF Between

LEMMA EndInv ==
  ASSUME IInv, EndStatement
  PROVE  IInv'
<1>1. Between' => IInv'
  BY BlankState, PTL
<1> QED  BY <1>1, EndBetween

LEMMA SameInv ==
  ASSUME IInv, UNCHANGED vars
  PROVE  IInv'
BY DEF vars, IInv, Typed, Placed, Machine, Reading, Spined, Untargeted, Built, Pending, Fits, Settled

LEMMA NextInv ==
  ASSUME IInv, [Next]_vars
  PROVE  IInv'
BY ReadInv, NewLineInv, EvaluateInv, EndInv, SameInv DEF Next

LEMMA TypesFollow == IInv => TypeOK
<1> SUFFICES ASSUME IInv PROVE TypeOK
  OBVIOUS
<1>1. /\ symbols \in Seq(Kinds) /\ Len(symbols) <= MaxSymbols /\ precedence = Len(open)
      /\ root \in Nodes \cup {NULL} /\ node \in NodesType
  BY DEF IInv, Typed
<1>2. /\ registers \in Seq(BOOLEAN) /\ Len(registers) <= MaxSymbols /\ holds \in [Nodes -> Nodes \cup {NULL}]
      /\ \A m \in Nodes : node[m].place = "register" => node[m].reg \in 1 .. Len(registers)
  BY DEF IInv, Placed, Fit, Machines, Machine
<1>3. DOMAIN registers = 1 .. Len(registers)
  BY <1>2
<1>4. ASSUME NEW m \in Nodes
      PROVE  /\ node[m].index \in 0 .. MaxParams /\ node[m].parent \in Nodes \cup {NULL}
             /\ \A i \in Slots : node[m].params[i] \in Nodes \cup {NULL}
  BY <1>1, NodeFacts DEF Slots
<1> QED  BY <1>1, <1>2, <1>3, <1>4 DEF TypeOK

(* Every variable has its type, whatever statements the program has        *)
(* (Syntax_Tree::Process, Evaluate and the register mapping).              *)
THEOREM TypeCorrect == Spec => []TypeOK
BY InitInv, NextInv, TypesFollow, PTL DEF Spec
---------------------------------------------------------------------------
(* Registers, for a program that neither compares with != nor indexes the  *)
(* result of a method.                                                     *)
Plain == Allowed \subseteq {"element"}

Takes(f, t) == f[t].sym \in Callables \cup {"["} \/ (f[t].parent # NULL /\ f[f[t].parent].sym = ".")

(* The priority of a node above that of the brackets around it.            *)
Rank(x) == IF x = "[" THEN 11 ELSE Get_Precedence(x)

LEMMA Ranks ==
  /\ \A x \in Kinds : Rank(x) \in 1 .. 13
  /\ Rank("function") = 11 /\ Rank("object") = 11 /\ Rank("[") = 11 /\ Rank("class") = 13
  /\ Rank("local") = 13 /\ Rank("attribute") = 13 /\ Rank("const") = 13
  /\ Rank("!") = 9 /\ Rank(".") = 10 /\ Rank("*") = 7 /\ Rank("+") = 6 /\ Rank("=") = 2 /\ Rank("comma") = 1
  /\ Rank("return") = 1
BY DEF Rank, Get_Precedence, Kinds, Operands, Callables, Binary, Scale

Starting == phase \in {"operand", "first"}
Ending   == phase \in {"operator", "method"}
Indexed  == phase = "operator" /\ LastSymbol \in {"local", "attribute", "]"}

(* The phases around a symbol.                                             *)
LEMMA ReadPhase ==
  ASSUME Typed, Plain, NEW x \in Symbols, ReadSymbol(x)
  PROVE  /\ x \in Operands => Starting /\ phase' = "operator"
         /\ x \in Callables => Starting /\ phase' = "callee"
         /\ x \in {"!", "return"} => Starting /\ phase' = "operand"
         /\ x = "return" => symbols = <<>>
         /\ x = "object" => phase = "member" /\ phase' = "method"
         /\ x \in {"+", "*", ".", "=", "comma"} => Ending /\ phase' = IF x = "." THEN "member" ELSE "operand"
         /\ x = "comma" => precedence > 0 /\ open[precedence].kind \in {"call", "list"}
         /\ x # "!=" /\ LastSymbol' = x
<1>1. x \in Kinds /\ open \in Seq(Brackets) /\ precedence = Len(open) /\ Len(open) \in Nat
  BY ReadFacts DEF Typed
<1>2. WellFormed(x) /\ phase' = NextPhase(x)
  BY DEF ReadSymbol
<1>3. x \in Operands => Starting /\ phase' = "operator"
  BY <1>2 DEF WellFormed, StartsExpression, Continues, Closes, NextPhase, Operands, Callables, Starting
<1>4. x \in Callables => Starting /\ phase' = "callee"
  BY <1>2 DEF WellFormed, StartsExpression, Continues, Closes, NextPhase, Operands, Callables, Starting
<1>5. x \in {"!", "return"} => Starting /\ phase' = "operand"
  BY <1>2 DEF WellFormed, StartsExpression, Continues, Closes, NextPhase, Operands, Callables, Starting
<1>6. x = "return" => symbols = <<>>
  BY <1>2 DEF WellFormed, StartsExpression, Continues, Closes, Operands, Callables
<1>7. x = "object" => phase = "member" /\ phase' = "method"
  BY <1>2 DEF WellFormed, StartsExpression, Continues, Closes, NextPhase, Operands, Callables
<1>8. x \in {"+", "*", ".", "=", "comma"} => Ending /\ phase' = IF x = "." THEN "member" ELSE "operand"
  BY <1>2 DEF WellFormed, StartsExpression, Continues, Closes, NextPhase, Operands, Callables, Ending
<1>9. x = "comma" => precedence > 0 /\ open[precedence].kind \in {"call", "list"}
  <2>1. x = "comma" => Top.kind \in {"call", "list"}
    BY <1>2 DEF WellFormed, StartsExpression, Continues, Closes, Operands, Callables
  <2>2. Top.kind \in {"call", "list"} => open # <<>>
    BY DEF Top
  <2>3. open # <<>> => Len(open) > 0 /\ Top = open[Len(open)]
    BY <1>1 DEF Top, Last
  <2> QED  BY <1>1, <2>1, <2>2, <2>3
<1>10. x # "!="
  BY <1>2 DEF WellFormed, StartsExpression, Continues, Closes, Operands, Callables, Plain
<1>11. LastSymbol' = x
  <2>1. Len(symbols') = Len(symbols) + 1 /\ Len(symbols) \in Nat /\ Last(symbols') = x /\ symbols' \in Seq(Kinds)
    BY ReadFacts
  <2>2. symbols' # <<>>
    BY <2>1
  <2> QED  BY <2>1, <2>2 DEF LastSymbol
<1> QED  BY <1>3, <1>4, <1>5, <1>6, <1>7, <1>8, <1>9, <1>10, <1>11

(* The brackets that open and close.                                       *)
LEMMA BracketPhase ==
  ASSUME Typed, Plain, NEW x \in Symbols, ReadSymbol(x)
  PROVE  /\ x = "[" => /\ phase' = "first"
                       /\ \/ Starting /\ open'[precedence'].kind = "list"
                          \/ Indexed /\ open'[precedence'].kind = "index"
         /\ x = "(" => /\ phase' \in {"operand", "first"}
                       /\ \/ Starting /\ open'[precedence'].kind = "group"
                          \/ phase \in {"callee", "method"} /\ open'[precedence'].kind = "call"
         /\ x \in {")", "]"} => /\ phase' = "operator" /\ precedence > 0
                                /\ Ending \/ (phase = "first" /\ open[precedence].kind \in {"call", "list"})
         /\ x = "]" => open[precedence].kind \in {"list", "index"}
<1>1. x \in Kinds /\ open \in Seq(Brackets) /\ precedence = Len(open) /\ Len(open) \in Nat
  BY ReadFacts DEF Typed
<1>2. WellFormed(x) /\ phase' = NextPhase(x) /\ open' = Opened(x)
  BY DEF ReadSymbol
<1>3. open # <<>> => Len(open) > 0 /\ Top = open[Len(open)]
  BY <1>1 DEF Top, Last
<1>4. \A kind : open' = Append(open, Bracket(kind)) /\ precedence' = Len(open') => open'[precedence'].kind = kind
  BY <1>1 DEF Bracket
<1>5. precedence' = Len(open')
  BY ReadFacts
<1>6. ASSUME x = "["
      PROVE  /\ phase' = "first"
             /\ \/ Starting /\ open'[precedence'].kind = "list"
                \/ Indexed /\ open'[precedence'].kind = "index"
  <2>1. phase' = "first"
    BY <1>2, <1>6 DEF NextPhase, Operands, Callables
  <2>2. Starting \/ Indexed
    BY <1>2, <1>6 DEF WellFormed, StartsExpression, Continues, Closes, Operands, Callables, Plain, Starting, Indexed
  <2>3. open' = Append(open, Bracket(IF Starting THEN "list" ELSE "index"))
    BY <1>2, <1>6 DEF Opened, Starting
  <2>4. open'[precedence'].kind = IF Starting THEN "list" ELSE "index"
    BY <1>4, <1>5, <2>3
  <2> QED  BY <2>1, <2>2, <2>4 DEF Starting, Indexed
<1>7. ASSUME x = "("
      PROVE  /\ phase' \in {"operand", "first"}
             /\ \/ Starting /\ open'[precedence'].kind = "group"
                \/ phase \in {"callee", "method"} /\ open'[precedence'].kind = "call"
  <2>1. phase' \in {"operand", "first"}
    BY <1>2, <1>7 DEF NextPhase, Operands, Callables
  <2>2. Starting \/ phase \in {"callee", "method"}
    BY <1>2, <1>7 DEF WellFormed, StartsExpression, Continues, Closes, Operands, Callables, Starting
  <2>3. open' = Append(open, Bracket(IF phase \in {"callee", "method"} THEN "call" ELSE "group"))
    BY <1>2, <1>7 DEF Opened
  <2>4. open'[precedence'].kind = IF phase \in {"callee", "method"} THEN "call" ELSE "group"
    BY <1>4, <1>5, <2>3
  <2> QED  BY <2>1, <2>2, <2>4 DEF Starting
<1>8. ASSUME x \in {")", "]"}
      PROVE  /\ phase' = "operator" /\ precedence > 0
             /\ Ending \/ (phase = "first" /\ open[precedence].kind \in {"call", "list"})
             /\ x = "]" => open[precedence].kind \in {"list", "index"}
  <2>1. phase' = "operator" /\ precedence > 0
    BY <1>2, <1>8, ReadFacts DEF NextPhase, Operands, Callables
  <2>2. Closes(x)
    BY <1>2, <1>8 DEF WellFormed, StartsExpression, Continues, Operands, Callables
  <2>3. Top = open[precedence]
    <3>1. open # <<>>
      BY <1>1, <2>1
    <3> QED  BY <1>1, <1>3, <3>1
  <2>4. Ending \/ (phase = "first" /\ open[precedence].kind \in {"call", "list"})
    BY <2>2, <2>3 DEF Closes, Ending
  <2>5. x = "]" => open[precedence].kind \in {"list", "index"}
    BY <2>2, <2>3 DEF Closes
  <2> QED  BY <2>1, <2>4, <2>5
<1> QED  BY <1>6, <1>7, <1>8
---------------------------------------------------------------------------
(* The spine while a statement is read, by the precedence p, the phase ph, *)
(* the last symbol and the open brackets o.                                *)
Room(ph, last) ==
  CASE ph = "method" -> 11
    [] ph = "callee" -> 13
    [] ph = "member" -> 10
    [] last \in {"=", "(", "[", "comma"} -> 2
    [] OTHER -> 9

Sorted(f, s) == \A i, j \in 1 .. Len(s) : i <= j => f[s[i]].priority <= f[s[j]].priority

Bounded(f, s, p, ph, last) ==
  ph # "operator" => \A i \in 1 .. Len(s) : f[s[i]].priority <= 13 * p + Room(ph, last)

Ended(a, p, ph) ==
  /\ a.sym \in {"local", "const"} => ph = "operator" /\ a.priority >= 13 * p + 13
  /\ ph = "callee" => a.sym \in Callables /\ a.priority \in {13 * p + 11, 13 * p + 13}
  /\ ph = "method" => a.sym = "object" /\ a.priority = 13 * p + 11

(* The commas inside the j-th bracket find the node they belong to.        *)
TakenBy(f, s, j) == \E i \in 1 .. Len(s) : f[s[i]].priority \in {13 * j - 2, 13 * j} /\ Takes(f, s[i])

Takers(f, s, p, o) == \A j \in 1 .. p : o[j].kind \in {"call", "list"} => TakenBy(f, s, j)

(* No index replaces a method.                                             *)
Objects(f, s, p, last, o) ==
  \A i \in 1 .. Len(s) : f[s[i]].sym = "object" =>
    /\ last \in {"local", "attribute", "]"} => f[s[i]].priority # 13 * p + 11
    /\ \A j \in 1 .. p : o[j].kind \in {"index", "list"} => f[s[i]].priority # 13 * j - 2

Shaped(f, s, p, ph, last, o) ==
  /\ Sorted(f, s) /\ Bounded(f, s, p, ph, last) /\ Ended(f[s[Len(s)]], p, ph)
  /\ Takers(f, s, p, o) /\ Objects(f, s, p, last, o)

(* Leaves have nothing below them, methods belong to dots.                 *)
Leafy(f, S) ==
  \A m \in Nodes \ S :
    /\ f[m].sym \in {"local", "const"} => \A i \in Slots : f[m].params[i] = NULL
    /\ f[m].sym = "object" => f[m].parent # NULL /\ f[f[m].parent].sym = "." /\ f[f[m].parent].params[1] = m
    /\ f[m].sym = "." /\ f[m].params[1] # NULL => f[f[m].params[1]].sym = "object"

(* Where a symbol may come.                                                *)
Follows(x, ph, last) ==
  /\ x \in Operands \cup Callables \cup {"!"} => ph \in {"operand", "first"}
  /\ x = "object" => ph = "member"
  /\ x = "[" => ph \in {"operand", "first"} \/ (ph = "operator" /\ last \in {"local", "attribute", "]"})
  /\ x \in {"+", "*", ".", "=", "comma"} => ph \in {"operator", "method"}

(* The insertion of the symbol x, the spine before it, and what is known.  *)
Added(f, g, r, s, u, k, n, x, p, ph, last, o) ==
  /\ Insertable(f, g, r, s, u, k, n) /\ Form(f) /\ Dotted(f)
  /\ x \in Kinds \ {"!=", "return", "(", ")", "]"} /\ f[n].sym = x /\ f[n].priority = 13 * p + Rank(x)
  /\ f[n].index = (IF x \in Callables THEN 0 ELSE 1)
  /\ p \in Nat /\ Follows(x, ph, last) /\ \A i \in 1 .. Len(s) : f[s[i]].sym # "none"
  /\ Shaped(f, s, p, ph, last, o) /\ Leafy(f, {n})

LEMMA AddedFacts ==
  ASSUME NEW f, NEW g, NEW r, NEW s, NEW u, NEW k, NEW n, NEW x, NEW p, NEW ph, NEW last, NEW o,
         Added(f, g, r, s, u, k, n, x, p, ph, last, o)
  PROVE  /\ p \in Nat /\ Len(s) \in Nat /\ Len(s) > 0 /\ k \in 1 .. Len(s) /\ n \in Nodes /\ Rank(x) \in 1 .. 13
         /\ f[n].priority \in Int /\ f[n].priority = 13 * p + Rank(x)
         /\ \A i \in 1 .. Len(s) : s[i] \in Nodes \ {n} /\ f[s[i]].priority \in Int
         /\ \A i \in 1 .. Len(s) - 1 : RightChild(f, s[i]) # NULL
<1>1. /\ f \in NodesType /\ Len(s) \in Nat /\ Len(s) > 0 /\ k \in 1 .. Len(s) /\ n \in Nodes
      /\ \A i \in 1 .. Len(s) : s[i] \in Nodes /\ s[i] # n
  BY InsertionFacts DEF Added, Insertable
<1>2. \A m \in Nodes : f[m].priority \in Int
  BY <1>1, NodeFacts
<1>3. \A i \in 1 .. Len(s) - 1 : RightChild(f, s[i]) # NULL
  <2>1. Chain(f, r, s)
    BY DEF Added, Insertable
  <2>2. \A i \in 1 .. Len(s) - 1 : RightChild(f, s[i]) = s[i + 1] /\ i + 1 \in 1 .. Len(s)
    BY <1>1, <2>1 DEF Chain
  <2> QED  BY <1>1, <2>2, Numbers
<1>4. Rank(x) \in 1 .. 13
  BY Ranks DEF Added
<1> QED  BY <1>1, <1>2, <1>3, <1>4 DEF Added

(* What starts an expression goes to the end of the spine.                 *)
LEMMA StartGoesRight ==
  ASSUME NEW f, NEW g, NEW r, NEW s, NEW u, NEW k, NEW n, NEW x, NEW p, NEW ph, NEW last, NEW o,
         Added(f, g, r, s, u, k, n, x, p, ph, last, o), ph \in {"operand", "first", "member"}
  PROVE  /\ Right(f, g, s, u, k, n) /\ ~Left(f, g, s, u, k, n)
         /\ \A i \in 1 .. Len(s) : f[s[i]].priority <= f[n].priority
<1>1. /\ p \in Nat /\ Len(s) \in Nat /\ k \in 1 .. Len(s) /\ f[n].priority = 13 * p + Rank(x)
      /\ \A i \in 1 .. Len(s) : f[s[i]].priority \in Int
  BY AddedFacts
<1>2. \A i \in 1 .. Len(s) : f[s[i]].priority <= 13 * p + Room(ph, last)
  BY DEF Added, Shaped, Bounded
<1>3. x # "comma" /\ f[n].sym = x /\ (x = "!" \/ (Rank(x) \in Int /\ Rank(x) > Room(ph, last))) /\ Room(ph, last) \in Int
      /\ Rank(x) \in Int /\ Rank(x) >= Room(ph, last)
  <2>1. x \in Operands \cup Callables \cup {"!", "["} \/ (x = "object" /\ ph = "member")
    BY DEF Added, Follows, Kinds, Binary
  <2>2. Room(ph, last) \in Int /\ Room(ph, last) <= 10 /\ (ph # "member" => Room(ph, last) <= 9)
    BY DEF Room
  <2>3. x = "!" => ph # "member"
    BY DEF Added, Follows
  <2>4. /\ x \in Operands \cup {"class"} => Rank(x) = 13
        /\ x \in {"[", "function", "object"} => Rank(x) = 11
        /\ x = "!" => Rank(x) = 9
    BY Ranks DEF Operands
  <2>5. x # "comma" /\ f[n].sym = x
    BY <2>1 DEF Added, Operands, Callables
  <2>6. x = "!" \/ Rank(x) = 13 \/ Rank(x) = 11
    BY <2>1, <2>4 DEF Callables
  <2> QED  BY <2>2, <2>3, <2>4, <2>5, <2>6
<1>4. \A i \in 1 .. Len(s) : GoesRight(f, s[i], n) /\ f[s[i]].priority <= f[n].priority
  <2>1. ASSUME NEW i \in 1 .. Len(s), NEW a, a = f[s[i]].priority, NEW b, b = f[n].priority
        PROVE  (x = "!" \/ b > a) /\ a <= b
    BY <1>1, <1>2, <1>3, <2>1
  <2> QED  BY <1>3, <2>1 DEF GoesRight
<1>5. ~Comma(f, g, s, u, k, n)
  BY <1>3 DEF Comma, TakesComma
<1>6. ~Left(f, g, s, u, k, n)
  BY <1>1, <1>4 DEF Left
<1>7. Inserted(f, g, s, u, k, n)
  BY DEF Added, Insertable
<1> QED  BY <1>4, <1>5, <1>6, <1>7 DEF Inserted

(* No symbol takes the place of a method.                                  *)
LEMMA NoMethodReplaced ==
  ASSUME NEW f, NEW g, NEW r, NEW s, NEW u, NEW k, NEW n, NEW x, NEW p, NEW ph, NEW last, NEW o,
         Added(f, g, r, s, u, k, n, x, p, ph, last, o), Left(f, g, s, u, k, n)
  PROVE  f[s[k]].sym # "object"
<1> DEFINE m == s[k]
           d == s[k - 1]
<1> SUFFICES ASSUME f[m].sym = "object" PROVE FALSE
  OBVIOUS
<1>1. /\ p \in Nat /\ Len(s) \in Nat /\ k \in 1 .. Len(s) /\ f[n].priority = 13 * p + Rank(x) /\ Rank(x) \in 1 .. 13
      /\ m \in Nodes \ {n} /\ f[m].priority \in Int /\ f[n].priority \in Int
  BY AddedFacts
<1>2. f[m].parent # NULL /\ f[f[m].parent].sym = "." /\ f[f[m].parent].params[1] = m
  BY <1>1 DEF Added, Leafy
<1>3. k > 1 /\ d \in Nodes /\ f[m].parent = d /\ GoesRight(f, d, n) /\ f \in NodesType
  <2>1. Insertable(f, g, r, s, u, k, n)
    BY DEF Added
  <2>2. k = 1 => f[m].parent = NULL
    BY <2>1, InsertionFacts
  <2>3. k > 1 => d \in Nodes /\ GoesRight(f, d, n) /\ f[m].parent = d
    BY <2>1, InsertionFacts
  <2> QED  BY <1>1, <1>2, <2>1, <2>2, <2>3 DEF Insertable
<1>4. f[m].priority = f[d].priority + 1 /\ f[d].sym = "."
  <2>1. Dotted(f)
    BY DEF Added
  <2> QED  BY <1>1, <1>2, <1>3, <2>1, Numbers DEF Dotted
<1>5. PICK l \in Nat : f[d].priority = 10 + 13 * l
  BY <1>3, <1>4, FormAt DEF Added
<1>6. f[n].sym = x /\ x \in Kinds \ {"!=", "return", "(", ")", "]"}
  BY DEF Added
<1>7. ~GoesRight(f, m, n)
  BY DEF Left
<1>8. x # "!" /\ x # "!=" /\ f[n].priority <= f[m].priority
  BY <1>1, <1>6, <1>7 DEF GoesRight
<1>9. f[n].priority > f[d].priority \/ (x = "=" /\ f[n].priority = f[d].priority)
  BY <1>3, <1>6, <1>8 DEF GoesRight, R_Assoc
<1>10. Rank("=") = 2
  BY Ranks
<1>11. Rank(x) = 11 /\ p = l
  <2>1. ASSUME NEW a \in 1 .. 13, 13 * p + a <= 11 + 13 * l, 13 * p + a > 10 + 13 * l
        PROVE  a = 11 /\ p = l
    BY <1>1, <2>1
  <2>2. ~(13 * p + 2 = 10 + 13 * l)
    BY <1>1
  <2>3. f[n].priority <= 11 + 13 * l
    BY <1>1, <1>4, <1>5, <1>8
  <2> QED  BY <1>1, <1>5, <1>9, <1>10, <2>1, <2>2, <2>3
<1>12. x \in {"function", "object", "["}
  BY <1>6, <1>11 DEF Rank, Get_Precedence, Kinds, Operands, Callables, Binary, Scale
<1>13. ph \notin {"operand", "first", "member"}
  BY StartGoesRight
<1>14. x = "[" /\ last \in {"local", "attribute", "]"}
  BY <1>12, <1>13 DEF Added, Follows, Callables
<1>15. Objects(f, s, p, last, o)
  BY DEF Added, Shaped
<1>16. f[m].priority = 13 * p + 11
  BY <1>4, <1>5, <1>11
<1> QED  BY <1>1, <1>14, <1>15, <1>16 DEF Objects

(* What is not a comma comes after the nodes of lower priority.            *)
Extends(f, g, s, u, l, n) ==
  /\ l \in 0 .. Len(s) /\ Len(u) = l + 1 /\ u[l + 1] = n
  /\ \A i \in 1 .. l : u[i] = s[i] /\ f[s[i]].priority <= f[n].priority /\ g[s[i]].parent = f[s[i]].parent
  /\ \A i \in l + 1 .. Len(s) : f[n].priority <= f[s[i]].priority

LEMMA PassedOver ==
  ASSUME NEW f, NEW g, NEW r, NEW s, NEW u, NEW k, NEW n, NEW x, NEW p, NEW ph, NEW last, NEW o,
         Added(f, g, r, s, u, k, n, x, p, ph, last, o), NEW i \in 1 .. Len(s), GoesRight(f, s[i], n)
  PROVE  f[s[i]].priority <= f[n].priority
<1>1. f[n].sym = x /\ x # "!="
  BY DEF Added
<1>2. f[n].priority \in Int /\ f[s[i]].priority \in Int
  BY AddedFacts
<1>3. CASE x = "!"
  <2>1. ph \in {"operand", "first"}
    BY <1>3 DEF Added, Follows
  <2> QED  BY <2>1, StartGoesRight
<1>4. CASE x # "!"
  BY <1>1, <1>2, <1>4 DEF GoesRight
<1> QED  BY <1>3, <1>4

LEMMA ExtendsSpine ==
  ASSUME NEW f, NEW g, NEW r, NEW s, NEW u, NEW k, NEW n, NEW x, NEW p, NEW ph, NEW last, NEW o,
         Added(f, g, r, s, u, k, n, x, p, ph, last, o), x # "comma"
  PROVE  \E l \in 0 .. Len(s) : /\ Extends(f, g, s, u, l, n)
                                /\ (Right(f, g, s, u, k, n) /\ l = k) \/ (Left(f, g, s, u, k, n) /\ l = k - 1)
<1>1. /\ Len(s) \in Nat /\ k \in 1 .. Len(s) /\ f[n].priority \in Int /\ n \in Nodes
      /\ \A i \in 1 .. Len(s) : s[i] \in Nodes \ {n} /\ f[s[i]].priority \in Int
  BY AddedFacts
<1>2. Insertable(f, g, r, s, u, k, n) /\ f[n].sym = x /\ Sorted(f, s)
  BY DEF Added, Shaped
<1>3. \A i \in 1 .. k - 1 : GoesRight(f, s[i], n) /\ i \in 1 .. Len(s) /\ s[i] # s[k] /\ f[s[i]].priority <= f[n].priority
  BY <1>1, <1>2, InsertionFacts, PassedOver
<1>4. CASE Right(f, g, s, u, k, n)
  <2>1. k = Len(s) /\ GoesRight(f, s[k], n) /\ Len(u) = k + 1 /\ u[k + 1] = n /\ \A i \in 1 .. k : u[i] = s[i]
    BY <1>4 DEF Right
  <2>2. \A i \in 1 .. k : f[s[i]].priority <= f[n].priority
    BY <1>1, <2>1, <1>3, PassedOver
  <2>3. \A i \in 1 .. k : g[s[i]].parent = f[s[i]].parent
    BY <1>1, <1>2, <1>4, <2>1, InsertionFields
  <2>4. Extends(f, g, s, u, k, n)
    BY <1>1, <2>1, <2>2, <2>3 DEF Extends
  <2> QED  BY <1>1, <1>4, <2>4
<1>5. CASE Left(f, g, s, u, k, n)
  <2>1. ~GoesRight(f, s[k], n) /\ u[k] = n /\ \A i \in 1 .. k - 1 : u[i] = s[i]
    BY <1>5 DEF Left
  <2>2. Len(u) = k
    <3>1. ph \notin {"operand", "first", "member"}
      BY <1>5, StartGoesRight
    <3>2. x \notin Callables
      BY <3>1 DEF Added, Follows
    <3>3. f[n].index # 0
      BY <1>2, <3>2 DEF Added
    <3> QED  BY <1>5, <3>3 DEF Left
  <2>3. f[n].priority <= f[s[k]].priority
    BY <1>1, <2>1 DEF GoesRight
  <2>4. \A i \in k .. Len(s) : f[n].priority <= f[s[i]].priority
    <3>1. \A i \in k .. Len(s) : i \in 1 .. Len(s) /\ f[s[k]].priority <= f[s[i]].priority
      BY <1>1, <1>2 DEF Sorted
    <3> QED  BY <1>1, <2>3, <3>1
  <2>5. \A i \in 1 .. k - 1 : g[s[i]].parent = f[s[i]].parent
    BY <1>1, <1>2, <1>3, <1>5, InsertionFields
  <2>6. Extends(f, g, s, u, k - 1, n)
    BY <1>1, <1>3, <2>1, <2>2, <2>4, <2>5 DEF Extends
  <2> QED  BY <1>1, <1>5, <2>6
<1>6. ~Comma(f, g, s, u, k, n)
  BY <1>2 DEF Comma, TakesComma
<1> QED  BY <1>2, <1>4, <1>5, <1>6 DEF Insertable, Inserted

(* A comma finds the call or the list that it separates.                   *)
LEMMA CommaFinds ==
  ASSUME NEW f, NEW g, NEW r, NEW s, NEW u, NEW k, NEW n, NEW p, NEW ph, NEW last, NEW o,
         Added(f, g, r, s, u, k, n, "comma", p, ph, last, o), TakenBy(f, s, p)
  PROVE  /\ Comma(f, g, s, u, k, n) /\ Takes(f, s[k]) /\ f[s[k]].priority \in {13 * p - 2, 13 * p}
         /\ f[s[k]].sym \in {"function", "class", "[", "object"}
<1>1. /\ p \in Nat /\ Len(s) \in Nat /\ k \in 1 .. Len(s) /\ f[n].priority = 13 * p + 1 /\ f[n].sym = "comma"
      /\ f \in NodesType
      /\ \A i \in 1 .. Len(s) : s[i] \in Nodes /\ f[s[i]].priority \in Int
      /\ \A i \in 1 .. Len(s) - 1 : RightChild(f, s[i]) # NULL
  <2>1. Rank("comma") = 1
    BY Ranks
  <2> QED  BY <2>1, AddedFacts DEF Added, Insertable
<1>2. PICK i \in 1 .. Len(s) : f[s[i]].priority \in {13 * p - 2, 13 * p} /\ Takes(f, s[i])
  BY DEF TakenBy
<1>3. TakesComma(f, s[i], n)
  BY <1>1, <1>2 DEF Takes, TakesComma, Scale
<1>4. k <= i
  <2>1. \A j \in 1 .. k - 1 : ~TakesComma(f, s[j], n)
    BY InsertionFacts DEF Added
  <2> QED  BY <1>1, <1>3, <2>1
<1>5. f[s[k]].priority <= 13 * p
  <2>1. f[s[k]].priority <= f[s[i]].priority
    BY <1>1, <1>4 DEF Added, Shaped, Sorted
  <2> QED  BY <1>1, <1>2, <2>1
<1>6. TakesComma(f, s[k], n)
  <2>1. CASE k = i
    BY <1>3, <2>1
  <2>2. CASE k # i
    <3>1. k \in 1 .. Len(s) - 1 /\ k # Len(s)
      BY <1>1, <1>4, <2>2
    <3>2. GoesRight(f, s[k], n)
      <4>1. 13 * p + 1 > f[s[k]].priority
        BY <1>1, <1>5
      <4> QED  BY <1>1, <4>1 DEF GoesRight
    <3>3. ~Right(f, g, s, u, k, n) /\ ~Left(f, g, s, u, k, n)
      BY <3>1, <3>2 DEF Right, Left
    <3> QED  BY <3>3 DEF Added, Insertable, Inserted, Comma
  <2> QED  BY <2>1, <2>2
<1>7. Comma(f, g, s, u, k, n)
  BY <1>6 DEF Added, Insertable, Inserted, Right, Left
<1>8. Takes(f, s[k]) /\ 13 * p + 1 < f[s[k]].priority + 13
  BY <1>1, <1>6 DEF TakesComma, Takes, Scale
<1>11. f[s[k]].sym \in {"function", "class", "[", "object"}
  <2>1. CASE f[s[k]].sym \in Callables \cup {"["}
    BY <2>1 DEF Callables
  <2>2. CASE f[s[k]].sym \notin Callables \cup {"["}
    <3> DEFINE d == f[s[k]].parent
    <3>1. d # NULL /\ f[d].sym = "."
      BY <1>8, <2>2 DEF Takes
    <3>2. k > 1 /\ RightChild(f, s[k - 1]) = s[k] /\ d = s[k - 1]
      <4>1. Insertable(f, g, r, s, u, k, n)
        BY DEF Added
      <4>2. k = 1 => d = NULL
        BY <4>1, InsertionFacts
      <4>3. k > 1 => RightChild(f, s[k - 1]) = s[k] /\ d = s[k - 1]
        BY <4>1, InsertionFacts
      <4> QED  BY <1>1, <3>1, <4>2, <4>3
    <3>3. d \in Nodes /\ d # n
      <4>1. k - 1 \in 1 .. Len(s)
        BY <1>1, <3>2
      <4> QED  BY <3>2, <4>1, AddedFacts
    <3>4. f[d].index = 1 /\ f[d].params[1] = s[k]
      BY <3>1, <3>2, <3>3 DEF Added, Dotted, RightChild
    <3>5. s[k] # NULL
      BY <1>1, Numbers
    <3> QED  BY <3>1, <3>3, <3>4, <3>5 DEF Added, Leafy
  <2> QED  BY <2>1, <2>2
<1>9. \E l \in Nat : f[s[k]].priority \in {13 * l + 11, 13 * l + 13, 13 * l - 2}
  <2>1. f[s[k]].sym # "none" /\ Form(f)
    BY <1>1 DEF Added
  <2>2. PICK l \in Nat : f[s[k]].priority = Get_Precedence(f[s[k]].sym) + 13 * l
    BY <1>1, <2>1, FormOf
  <2>4. Get_Precedence(f[s[k]].sym) \in {11, 13, -2}
    BY <1>11, Precedences
  <2> QED  BY <1>1, <2>2, <2>4
<1>10. ASSUME NEW a \in Int, a <= 13 * p, 13 * p + 1 < a + 13, \E l \in Nat : a \in {13 * l + 11, 13 * l + 13, 13 * l - 2}
       PROVE  a \in {13 * p - 2, 13 * p}
  <2>1. PICK l \in Nat : a \in {13 * l + 11, 13 * l + 13, 13 * l - 2}
    BY <1>10
  <2>2. p \in Nat /\ a \in Int
    BY <1>1
  <2>3. CASE a = 13 * l + 11
    <3>1. l = p - 1
      BY <1>10, <2>2, <2>3
    <3> QED  BY <2>2, <2>3, <3>1
  <2>4. CASE a = 13 * l + 13
    <3>1. l = p - 1
      BY <1>10, <2>2, <2>4
    <3> QED  BY <2>2, <2>4, <3>1
  <2>5. CASE a = 13 * l - 2
    <3>1. l = p
      BY <1>10, <2>2, <2>5
    <3> QED  BY <2>2, <2>5, <3>1
  <2> QED  BY <2>1, <2>3, <2>4, <2>5
<1> QED  BY <1>1, <1>5, <1>7, <1>8, <1>9, <1>10, <1>11

(* The nodes after an insertion.                                           *)
LEMMA LeafyKept ==
  ASSUME NEW f, NEW g, NEW r, NEW s, NEW u, NEW k, NEW n, NEW x, NEW p, NEW ph, NEW last, NEW o,
         Added(f, g, r, s, u, k, n, x, p, ph, last, o),
         x = "comma" => TakenBy(f, s, p),
         Right(f, g, s, u, k, n) => (f[s[k]].sym = "." <=> x = "object")
  PROVE  Leafy(g, {})
<1> DEFINE t == s[k]
<1>1. /\ p \in Nat /\ Len(s) \in Nat /\ k \in 1 .. Len(s) /\ f[n].priority = 13 * p + Rank(x) /\ Rank(x) \in 1 .. 13
      /\ t \in Nodes \ {n} /\ n \in Nodes /\ f[t].priority \in Int /\ f[n].priority \in Int
  BY AddedFacts
<1>2. Insertable(f, g, r, s, u, k, n) /\ f \in NodesType /\ Dotted(f) /\ f[n].sym = x /\ Loose(f, n) /\ x # "!="
  BY DEF Added, Insertable
<1>3. \A m \in Nodes : g[m].sym = f[m].sym
  BY <1>2, InsertionFields DEF Same
<1>4. \A m \in Nodes \ {n} :
        /\ f[m].sym \in {"local", "const"} => \A i \in Slots : f[m].params[i] = NULL
        /\ f[m].sym = "object" => f[m].parent # NULL /\ f[f[m].parent].sym = "." /\ f[f[m].parent].params[1] = m
        /\ f[m].sym = "." /\ f[m].params[1] # NULL => f[f[m].params[1]].sym = "object"
  BY DEF Added, Leafy
<1>5. \A i \in Slots : f[n].params[i] = NULL
  BY <1>2 DEF Loose
<1>6. \A m \in Nodes : /\ f[m].parent # NULL => f[m].parent \in Nodes
                       /\ \A i \in Slots : f[m].params[i] # NULL => f[m].params[i] \in Nodes
  BY <1>2, NodeFacts
<1>7. 0 \in Slots /\ 1 \in Slots /\ 1 # 0 /\ n # NULL /\ t # NULL /\ NULL \notin Nodes
  BY <1>1, Numbers
<1>8. CASE Comma(f, g, s, u, k, n)
  <2>1. \A m \in Nodes : g[m].params = f[m].params /\ g[m].parent = f[m].parent
    BY <1>2, <1>8, InsertionFields
  <2>2. f[n].sym = "comma"
    BY <1>8 DEF Comma, TakesComma
  <2> QED  BY <1>3, <1>4, <1>6, <1>7, <2>1, <2>2 DEF Leafy
<1>9. CASE Right(f, g, s, u, k, n)
  <2>1. /\ f[t].params[f[t].index] = NULL
        /\ \A m \in Nodes :
             /\ g[m].parent = IF m = n THEN t ELSE f[m].parent
             /\ \A j \in Slots : g[m].params[j] = IF m = t /\ j = f[m].index THEN n ELSE f[m].params[j]
    BY <1>2, <1>9, InsertionFields
  <2>2. f[t].sym \notin {"local", "const"}
    <3> SUFFICES ASSUME f[t].sym \in {"local", "const"} PROVE FALSE
      OBVIOUS
    <3>1. k = Len(s) /\ GoesRight(f, t, n)
      BY <1>9 DEF Right
    <3>2. ph = "operator" /\ f[t].priority >= 13 * p + 13
      BY <3>1 DEF Added, Shaped, Ended
    <3>3. x # "!"
      BY <3>2 DEF Added, Follows
    <3>4. ~(f[n].priority > f[t].priority)
      <4>1. PICK a \in Int : a = f[n].priority
        BY <1>1
      <4>2. PICK b \in Int : b = f[t].priority
        BY <1>1
      <4>3. PICK rank \in 1 .. 13 : rank = Rank(x)
        BY <1>1
      <4>4. p \in Int /\ a = 13 * p + rank
        BY <1>1, <4>1, <4>3
      <4>5. b >= 13 * p + 13
        BY <3>2, <4>2
      <4>6. ~(a > b)
        BY <4>4, <4>5
      <4> QED  BY <4>1, <4>2, <4>6
    <3>5. x = "=" /\ f[n].priority = f[t].priority
      BY <1>2, <3>1, <3>3, <3>4 DEF GoesRight, R_Assoc
    <3>6. Rank("=") = 2
      BY Ranks
    <3> QED  BY <1>1, <3>2, <3>5, <3>6
  <2>3. f[t].sym = "." <=> x = "object"
    BY <1>9
  <2>4. f[t].sym = "." => f[t].index = 1
    BY <1>1, <1>2 DEF Dotted
  <2>5. ASSUME NEW m \in Nodes, g[m].sym \in {"local", "const"}, NEW i \in Slots
        PROVE  g[m].params[i] = NULL
    BY <1>3, <1>4, <1>5, <2>1, <2>2, <2>5
  <2>6. ASSUME NEW m \in Nodes, g[m].sym = "object"
        PROVE  g[m].parent # NULL /\ g[g[m].parent].sym = "." /\ g[g[m].parent].params[1] = m
    <3>1. CASE m = n
      <4>1. f[t].sym = "." /\ g[n].parent = t /\ g[t].sym = "." /\ g[t].params[1] = n
        BY <1>1, <1>2, <1>3, <1>7, <2>1, <2>3, <2>4, <2>6, <3>1
      <4> QED  BY <1>7, <3>1, <4>1
    <3>2. CASE m # n
      <4> DEFINE d == f[m].parent
      <4>1. d # NULL /\ d \in Nodes /\ f[d].sym = "." /\ f[d].params[1] = m /\ g[m].parent = d
        BY <1>3, <1>4, <1>6, <2>1, <2>6, <3>2
      <4>2. ~(d = t /\ 1 = f[d].index)
        BY <1>7, <2>1, <4>1
      <4> QED  BY <1>3, <1>7, <2>1, <4>1, <4>2
    <3> QED  BY <3>1, <3>2
  <2>7. ASSUME NEW m \in Nodes, g[m].sym = ".", g[m].params[1] # NULL
        PROVE  g[g[m].params[1]].sym = "object"
    <3>1. CASE m = t
      <4>1. x = "object" /\ g[m].params[1] = n
        BY <1>3, <1>7, <2>1, <2>3, <2>4, <2>7, <3>1
      <4> QED  BY <1>1, <1>2, <1>3, <4>1
    <3>2. CASE m # t
      <4>1. g[m].params[1] = f[m].params[1] /\ m # n
        BY <1>5, <1>7, <2>1, <2>7, <3>2
      <4> QED  BY <1>3, <1>4, <1>6, <1>7, <2>7, <4>1
    <3> QED  BY <3>1, <3>2
  <2> QED  BY <2>5, <2>6, <2>7 DEF Leafy
<1>10. CASE Left(f, g, s, u, k, n)
  <2> DEFINE up == s[k - 1]
  <2>1. /\ k > 1 => f[up].params[f[up].index] = t
        /\ \A m \in Nodes :
             /\ g[m].parent = IF m = n THEN f[t].parent ELSE IF m = t THEN n ELSE f[m].parent
             /\ \A j \in Slots : g[m].params[j] = IF m = n THEN IF j = 0 THEN t ELSE NULL
                                                  ELSE IF k > 1 /\ m = up /\ j = f[m].index THEN n ELSE f[m].params[j]
    BY <1>2, <1>10, InsertionFields
  <2>2. f[t].sym # "object" /\ f[n].sym \notin {"object", "local", "const"}
    <3>1. ph \notin {"operand", "first", "member"}
      BY <1>10, StartGoesRight
    <3>2. x \notin {"object", "local", "const"}
      BY <3>1 DEF Added, Follows, Operands
    <3> QED  BY <1>2, <1>10, <3>2, NoMethodReplaced
  <2>3. k > 1 => up \in Nodes /\ up # n /\ f[up].index \in Slots
    BY <1>2, InsertionFacts, NodeFacts
  <2>5. ASSUME NEW m \in Nodes, g[m].sym \in {"local", "const"}, NEW i \in Slots
        PROVE  g[m].params[i] = NULL
    <3>1. m # n /\ f[m].params[i] = NULL /\ \A j \in Slots : f[m].params[j] = NULL
      BY <1>3, <1>4, <2>2, <2>5
    <3>2. ~(k > 1 /\ m = up)
      BY <1>7, <2>1, <2>3, <3>1
    <3> QED  BY <2>1, <3>1, <3>2
  <2>6. ASSUME NEW m \in Nodes, g[m].sym = "object"
        PROVE  g[m].parent # NULL /\ g[g[m].parent].sym = "." /\ g[g[m].parent].params[1] = m
    <3> DEFINE d == f[m].parent
    <3>1. m # n /\ m # t /\ f[m].sym = "object" /\ m # NULL
      BY <1>3, <1>7, <2>2, <2>6
    <3>2. d # NULL /\ d \in Nodes /\ f[d].sym = "." /\ f[d].params[1] = m /\ g[m].parent = d
      BY <1>4, <1>6, <2>1, <3>1
    <3>3. d # n /\ ~(k > 1 /\ d = up /\ 1 = f[d].index)
      BY <1>5, <1>7, <2>1, <3>1, <3>2
    <3>4. g[d].params[1] = m
      BY <1>7, <2>1, <3>2, <3>3
    <3> QED  BY <1>3, <3>2, <3>4
  <2>7. ASSUME NEW m \in Nodes, g[m].sym = ".", g[m].params[1] # NULL
        PROVE  g[g[m].params[1]].sym = "object"
    <3>1. m # n
      BY <1>7, <2>1, <2>7
    <3>2. ~(k > 1 /\ m = up /\ 1 = f[m].index)
      <4> SUFFICES ASSUME k > 1, m = up, 1 = f[m].index PROVE FALSE
        OBVIOUS
      <4>1. f[m].params[1] = t
        BY <2>1
      <4> QED  BY <1>3, <1>4, <1>7, <2>2, <2>7, <3>1, <4>1
    <3>3. g[m].params[1] = f[m].params[1]
      BY <1>7, <2>1, <3>1, <3>2
    <3> QED  BY <1>3, <1>4, <1>6, <1>7, <2>7, <3>1, <3>3
  <2> QED  BY <2>5, <2>6, <2>7 DEF Leafy
<1> QED  BY <1>2, <1>8, <1>9, <1>10 DEF Insertable, Inserted

(* What a symbol that becomes a node changes besides the tree.             *)
Becomes(x, p, ph, o, p2, ph2, o2) ==
  /\ p \in Nat /\ p2 \in Nat
  /\ x \in Operands => ph2 = "operator"
  /\ x \in Callables => ph2 = "callee"
  /\ x \in {"!", "+", "*", "=", "comma"} => ph2 = "operand"
  /\ x = "." => ph2 = "member"
  /\ x = "object" => ph2 = "method"
  /\ x # "[" => p2 = p /\ o2 = o
  /\ x = "[" => /\ ph2 = "first" /\ p2 = p + 1 /\ \A j \in 1 .. p : o2[j] = o[j]
  /\ x = "comma" => p > 0 /\ o[p].kind \in {"call", "list"}

LEMMA BecomesFacts ==
  ASSUME NEW x \in Kinds \ {"!=", "return", "(", ")", "]"}, NEW p, NEW ph, NEW o, NEW p2, NEW ph2, NEW o2,
         Becomes(x, p, ph, o, p2, ph2, o2)
  PROVE  /\ p \in Nat /\ p2 \in Nat
         /\ ph2 # "operator" => 13 * p + Rank(x) <= 13 * p2 + Room(ph2, x) /\ Room(ph2, x) \in Int
         /\ x \in {"local", "const"} => ph2 = "operator"
         /\ x # "[" => p2 = p /\ o2 = o
         /\ x = "[" => p2 = p + 1 /\ \A j \in 1 .. p : o2[j] = o[j]
         /\ ph2 = "callee" <=> x \in Callables
         /\ ph2 = "method" <=> x = "object"
<1>1. Rank(x) \in 1 .. 13 /\ p \in Nat /\ p2 \in Nat
  BY Ranks DEF Becomes
<1>2. ph2 # "operator" => 13 * p + Rank(x) <= 13 * p2 + Room(ph2, x) /\ Room(ph2, x) \in Int
  <2>1. CASE x \in Operands
    BY <2>1 DEF Becomes
  <2>2. CASE x \in Callables
    <3>1. p2 = p /\ Room(ph2, x) = 13
      BY <2>2 DEF Becomes, Room, Callables
    <3> QED  BY <1>1, <3>1
  <2>3. CASE x \in {"!", "+", "*", "=", "comma"}
    <3>1. p2 = p /\ ph2 = "operand"
      BY <2>3 DEF Becomes
    <3>2. Room(ph2, x) \in Int /\ Rank(x) <= Room(ph2, x)
      BY <2>3, <3>1, Ranks DEF Room
    <3> QED  BY <1>1, <3>1, <3>2
  <2>4. CASE x = "."
    <3>1. p2 = p /\ Room(ph2, x) = 10 /\ Rank(x) = 10
      BY <2>4, Ranks DEF Becomes, Room
    <3> QED  BY <1>1, <3>1
  <2>5. CASE x = "object"
    <3>1. p2 = p /\ Room(ph2, x) = 11 /\ Rank(x) = 11
      BY <2>5, Ranks DEF Becomes, Room
    <3> QED  BY <1>1, <3>1
  <2>6. CASE x = "["
    <3>1. p2 = p + 1 /\ Room(ph2, x) = 2
      BY <2>6 DEF Becomes, Room
    <3> QED  BY <1>1, <3>1
  <2> QED  BY <2>1, <2>2, <2>3, <2>4, <2>5, <2>6 DEF Kinds, Binary
<1>3. x \in {"local", "const"} => ph2 = "operator"
  BY DEF Becomes, Operands
<1>4. /\ x # "[" => p2 = p /\ o2 = o
      /\ x = "[" => p2 = p + 1 /\ \A j \in 1 .. p : o2[j] = o[j]
  BY DEF Becomes
<1>5. /\ ph2 = "callee" <=> x \in Callables
      /\ ph2 = "method" <=> x = "object"
  BY DEF Becomes, Kinds, Operands, Callables, Binary
<1> QED  BY <1>1, <1>2, <1>3, <1>4, <1>5

(* The shape after an insertion: a comma.                                  *)
LEMMA ShapedComma ==
  ASSUME NEW f, NEW g, NEW r, NEW s, NEW u, NEW k, NEW n, NEW p, NEW ph, NEW last, NEW o, NEW p2, NEW ph2, NEW o2,
         Added(f, g, r, s, u, k, n, "comma", p, ph, last, o), Becomes("comma", p, ph, o, p2, ph2, o2)
  PROVE  Shaped(g, u, p2, ph2, "comma", o2)
<1>1. /\ p \in Nat /\ Len(s) \in Nat /\ k \in 1 .. Len(s) /\ n \in Nodes
      /\ \A i \in 1 .. Len(s) : s[i] \in Nodes \ {n} /\ f[s[i]].priority \in Int
  BY AddedFacts
<1>2. p2 = p /\ o2 = o /\ ph2 = "operand" /\ p > 0 /\ o[p].kind \in {"call", "list"} /\ p \in 1 .. p
  BY <1>1 DEF Becomes
<1>3. Sorted(f, s) /\ Takers(f, s, p, o) /\ Objects(f, s, p, last, o) /\ Insertable(f, g, r, s, u, k, n)
  BY DEF Added, Shaped
<1>4. /\ Comma(f, g, s, u, k, n) /\ Takes(f, s[k]) /\ f[s[k]].priority \in {13 * p - 2, 13 * p}
      /\ f[s[k]].sym \in {"function", "class", "[", "object"}
  <2>1. TakenBy(f, s, p)
    BY <1>2, <1>3 DEF Takers
  <2> QED  BY <2>1, CommaFinds
<1>5. /\ Len(u) = k /\ \A i \in 1 .. k : u[i] = s[i] /\ i \in 1 .. Len(s)
      /\ \A m \in Nodes : g[m].sym = f[m].sym /\ g[m].priority = f[m].priority /\ g[m].parent = f[m].parent
  BY <1>1, <1>3, <1>4, InsertionFields DEF Comma, Same
<1>6. Sorted(g, u)
  BY <1>1, <1>3, <1>5 DEF Sorted
<1>7. Bounded(g, u, p2, ph2, "comma")
  <2>1. Room(ph2, "comma") = 2
    BY <1>2 DEF Room
  <2>2. \A i \in 1 .. k : f[s[i]].priority <= f[s[k]].priority
    BY <1>1, <1>3, <1>5 DEF Sorted
  <2>3. \A i \in 1 .. k : f[s[i]].priority <= 13 * p + 2
    BY <1>1, <1>4, <1>5, <2>2
  <2> QED  BY <1>1, <1>2, <1>5, <2>1, <2>3 DEF Bounded
<1>8. Ended(g[u[Len(u)]], p2, ph2)
  BY <1>1, <1>2, <1>4, <1>5 DEF Ended
<1>9. Takers(g, u, p2, o2)
  <2>0. \A m \in Nodes : Takes(f, m) => Takes(g, m)
    <3>1. \A m \in Nodes : f[m].parent # NULL => f[m].parent \in Nodes
      BY <1>3, NodeFacts DEF Insertable
    <3> QED  BY <1>5, <3>1 DEF Takes
  <2>1. ASSUME NEW j \in 1 .. p, o[j].kind \in {"call", "list"} PROVE TakenBy(g, u, j)
    <3>1. CASE j = p
      <4>1. k \in 1 .. Len(u) /\ u[k] = s[k] /\ g[s[k]].priority \in {13 * j - 2, 13 * j} /\ Takes(g, s[k])
        BY <1>1, <1>4, <1>5, <2>0, <3>1
      <4> QED  BY <4>1 DEF TakenBy
    <3>2. CASE j # p
      <4>1. PICK i \in 1 .. Len(s) : f[s[i]].priority \in {13 * j - 2, 13 * j} /\ Takes(f, s[i])
        BY <1>3, <2>1 DEF Takers, TakenBy
      <4>2. f[s[i]].priority < f[s[k]].priority
        BY <1>1, <1>4, <3>2, <4>1
      <4>3. i \in 1 .. Len(u)
        BY <1>1, <1>3, <1>5, <4>2 DEF Sorted
      <4> QED  BY <1>1, <1>5, <2>0, <4>1, <4>3 DEF TakenBy
    <3> QED  BY <3>1, <3>2
  <2> QED  BY <1>2, <2>1 DEF Takers
<1>10. Objects(g, u, p2, "comma", o2)
  BY <1>1, <1>2, <1>3, <1>5 DEF Objects
<1> QED  BY <1>6, <1>7, <1>8, <1>9, <1>10 DEF Shaped

(* The shape after an insertion: any other symbol.                         *)
LEMMA ShapedNode ==
  ASSUME NEW f, NEW g, NEW r, NEW s, NEW u, NEW k, NEW n, NEW x, NEW p, NEW ph, NEW last, NEW o, NEW p2, NEW ph2, NEW o2,
         Added(f, g, r, s, u, k, n, x, p, ph, last, o), x # "comma", Becomes(x, p, ph, o, p2, ph2, o2)
  PROVE  Shaped(g, u, p2, ph2, x, o2)
<1>1. /\ p \in Nat /\ Len(s) \in Nat /\ k \in 1 .. Len(s) /\ n \in Nodes /\ Rank(x) \in 1 .. 13
      /\ f[n].priority \in Int /\ f[n].priority = 13 * p + Rank(x)
      /\ \A i \in 1 .. Len(s) : s[i] \in Nodes \ {n} /\ f[s[i]].priority \in Int
  BY AddedFacts
<1>2. /\ Sorted(f, s) /\ Takers(f, s, p, o) /\ Objects(f, s, p, last, o) /\ Insertable(f, g, r, s, u, k, n)
      /\ Bounded(f, s, p, ph, last) /\ Follows(x, ph, last) /\ f[n].sym = x /\ x \in Kinds \ {"!=", "return", "(", ")", "]"}
  BY DEF Added, Shaped
<1>3. PICK l \in 0 .. Len(s) : Extends(f, g, s, u, l, n)
  BY ExtendsSpine
<1>4. /\ Len(u) = l + 1 /\ u[l + 1] = n /\ l \in Nat
      /\ \A i \in 1 .. l : /\ u[i] = s[i] /\ f[s[i]].priority <= f[n].priority /\ g[s[i]].parent = f[s[i]].parent
                           /\ i \in 1 .. Len(s)
      /\ \A i \in l + 1 .. Len(s) : f[n].priority <= f[s[i]].priority
  BY <1>1, <1>3 DEF Extends
<1>5. \A m \in Nodes : g[m].sym = f[m].sym /\ g[m].priority = f[m].priority
  BY <1>2, InsertionFields DEF Same
<1>6. \A i \in 1 .. Len(u) : \/ i = l + 1 /\ u[i] = n /\ g[u[i]].priority = f[n].priority
                             \/ i \in 1 .. l /\ u[i] = s[i] /\ g[u[i]].priority = f[s[i]].priority
  BY <1>1, <1>4, <1>5
<1>7. /\ p2 \in Nat
      /\ ph2 # "operator" => 13 * p + Rank(x) <= 13 * p2 + Room(ph2, x) /\ Room(ph2, x) \in Int
      /\ x \in {"local", "const"} => ph2 = "operator"
      /\ x # "[" => p2 = p /\ o2 = o
      /\ x = "[" => p2 = p + 1 /\ \A j \in 1 .. p : o2[j] = o[j]
      /\ ph2 = "callee" <=> x \in Callables
      /\ ph2 = "method" <=> x = "object"
  BY <1>2, BecomesFacts
<1>8. Sorted(g, u)
  <2>1. ASSUME NEW i \in 1 .. Len(u), NEW j \in 1 .. Len(u), i <= j
        PROVE  g[u[i]].priority <= g[u[j]].priority
    <3>1. CASE j = l + 1
      BY <1>1, <1>4, <1>6, <3>1
    <3>2. CASE j # l + 1
      <4>1. i \in 1 .. l /\ j \in 1 .. l
        BY <1>4, <2>1, <3>2
      <4>2. f[s[i]].priority <= f[s[j]].priority
        BY <1>2, <1>4, <2>1, <4>1 DEF Sorted
      <4> QED  BY <1>4, <1>6, <2>1, <4>1, <4>2
    <3> QED  BY <3>1, <3>2
  <2> QED  BY <2>1 DEF Sorted
<1>9. Bounded(g, u, p2, ph2, x)
  <2>1. \A i \in 1 .. Len(u) : g[u[i]].priority <= 13 * p + Rank(x) /\ g[u[i]].priority \in Int
    <3>1. ASSUME NEW i \in 1 .. Len(u)
          PROVE  \E m \in Nodes : g[u[i]].priority = f[m].priority /\ f[m].priority \in Int /\ f[m].priority <= f[n].priority
      <4>1. CASE i = l + 1
        BY <1>1, <1>6, <4>1
      <4>2. CASE i \in 1 .. l
        <5>1. i \in 1 .. Len(s) /\ g[u[i]].priority = f[s[i]].priority /\ f[s[i]].priority <= f[n].priority
          BY <1>4, <1>6, <4>2
        <5>2. s[i] \in Nodes /\ f[s[i]].priority \in Int
          BY <1>1, <5>1
        <5> QED  BY <5>1, <5>2
      <4> QED  BY <1>6, <3>1, <4>1, <4>2
    <3> QED  BY <1>1, <3>1
  <2> QED  BY <1>1, <1>7, <2>1 DEF Bounded
<1>10. Ended(g[u[Len(u)]], p2, ph2)
  <2>1. g[u[Len(u)]].sym = x /\ g[u[Len(u)]].priority = 13 * p + Rank(x)
    BY <1>1, <1>2, <1>4, <1>5
  <2>2. /\ x \in {"local", "const", "class"} => Rank(x) = 13
        /\ x \in {"function", "object"} => Rank(x) = 11
    BY Ranks
  <2>3. x \in {"local", "const"} \cup Callables \cup {"object"} => p2 = p
    BY <1>7 DEF Callables
  <2> DEFINE a == g[u[Len(u)]]
  <2>4. a.sym \in {"local", "const"} => ph2 = "operator" /\ a.priority >= 13 * p2 + 13
    <3>1. x \in {"local", "const"} => a.priority = 13 * p2 + 13
      BY <2>1, <2>2, <2>3
    <3> HIDE DEF a
    <3>2. a.sym = x
      BY <2>1 DEF a
    <3> QED  BY <1>7, <3>1, <3>2
  <2>5. ph2 = "callee" => a.sym \in Callables /\ a.priority \in {13 * p2 + 11, 13 * p2 + 13}
    BY <1>7, <2>1, <2>2, <2>3 DEF Callables
  <2>6. ph2 = "method" => a.sym = "object" /\ a.priority = 13 * p2 + 11
    BY <1>7, <2>1, <2>2, <2>3
  <2> QED  BY <2>4, <2>5, <2>6 DEF Ended
<1>11. Takers(g, u, p2, o2)
  <2>0. \A m \in Nodes : f[m].parent # NULL => f[m].parent \in Nodes
    BY <1>2, NodeFacts DEF Insertable
  <2>1. ASSUME NEW j \in 1 .. p, o[j].kind \in {"call", "list"} PROVE TakenBy(g, u, j)
    <3>1. PICK i \in 1 .. Len(s) : f[s[i]].priority \in {13 * j - 2, 13 * j} /\ Takes(f, s[i])
      BY <1>2, <2>1 DEF Takers, TakenBy
    <3>2. f[s[i]].priority < f[n].priority
      <4>1. f[n].priority > 13 * p /\ 13 * p \in Int /\ 13 * j \in Int /\ 13 * j <= 13 * p
        <5>1. p \in Nat /\ Rank(x) >= 1 /\ Rank(x) \in Int /\ f[n].priority = 13 * p + Rank(x)
          BY <1>1
        <5>2. j \in Int /\ j <= p
          BY <5>1
        <5>3. f[n].priority > 13 * p /\ 13 * p \in Int
          BY <5>1
        <5> QED  BY <5>1, <5>2, <5>3
      <4>2. f[s[i]].priority <= 13 * j /\ f[s[i]].priority \in Int
        BY <1>1, <3>1
      <4> QED  BY <1>1, <4>1, <4>2
    <3>3. i \in 1 .. l
      BY <1>1, <1>4, <3>2
    <3>4. i \in 1 .. Len(u) /\ u[i] = s[i] /\ g[s[i]].priority = f[s[i]].priority /\ Takes(g, s[i])
      BY <1>1, <1>4, <1>5, <2>0, <3>1, <3>3 DEF Takes
    <3> QED  BY <3>1, <3>4 DEF TakenBy
  <2>2. CASE x # "["
    BY <1>7, <2>1, <2>2 DEF Takers
  <2>3. CASE x = "["
    <3>1. TakenBy(g, u, p2)
      <4>1. Rank(x) = 11
        BY <2>3, Ranks
      <4>2. l + 1 \in 1 .. Len(u) /\ g[u[l + 1]].priority = 13 * p2 - 2
        BY <1>1, <1>4, <1>5, <1>7, <2>3, <4>1
      <4>3. Takes(g, u[l + 1])
        BY <1>1, <1>2, <1>4, <1>5, <2>3 DEF Takes
      <4> QED  BY <4>2, <4>3 DEF TakenBy
    <3>2. \A j \in 1 .. p2 : j = p2 \/ (j \in 1 .. p /\ o2[j] = o[j])
      BY <1>1, <1>7, <2>3
    <3> QED  BY <2>1, <3>1, <3>2 DEF Takers
  <2> QED  BY <2>2, <2>3
<1>12. Objects(g, u, p2, x, o2)
  <2>1. ASSUME NEW i \in 1 .. l, f[s[i]].sym = "object", NEW j \in 1 .. p, o[j].kind \in {"index", "list"}
        PROVE  f[s[i]].priority # 13 * j - 2
    BY <1>2, <1>4, <2>1 DEF Objects
  <2>2. ASSUME NEW i \in 1 .. l, f[s[i]].sym = "object", x \in {"local", "attribute", "["}
        PROVE  f[s[i]].priority # 13 * p + 11
    <3>1. CASE ph \in {"operand", "first"}
      <4>1. Room(ph, last) \in Int /\ Room(ph, last) <= 9 /\ ph # "operator"
        BY <3>1 DEF Room
      <4>2. f[s[i]].priority <= 13 * p + Room(ph, last)
        BY <1>2, <1>4, <4>1 DEF Bounded
      <4> QED  BY <1>1, <1>4, <4>1, <4>2
    <3>2. CASE ph \notin {"operand", "first"}
      <4>1. last \in {"local", "attribute", "]"}
        BY <1>2, <2>2, <3>2 DEF Follows, Operands
      <4> QED  BY <1>2, <1>4, <2>2, <4>1 DEF Objects
    <3> QED  BY <3>1, <3>2
  <2>3. ASSUME NEW i \in 1 .. Len(u), g[u[i]].sym = "object"
        PROVE  /\ x \in {"local", "attribute", "]"} => g[u[i]].priority # 13 * p2 + 11
               /\ \A j \in 1 .. p2 : o2[j].kind \in {"index", "list"} => g[u[i]].priority # 13 * j - 2
    <3>1. CASE i = l + 1
      <4>1. x = "object" /\ g[u[i]].priority = 13 * p + 11 /\ p2 = p
        BY <1>1, <1>2, <1>4, <1>5, <1>7, <2>3, <3>1, Ranks
      <4> QED  BY <1>1, <4>1
    <3>2. CASE i \in 1 .. l
      <4>1. f[s[i]].sym = "object" /\ g[u[i]].priority = f[s[i]].priority
        BY <1>1, <1>4, <1>5, <2>3, <3>2
      <4>2. CASE x # "["
        BY <1>7, <2>1, <2>2, <3>2, <4>1, <4>2, <1>2
      <4>3. CASE x = "["
        <5>1. \A j \in 1 .. p2 : (j = p2 /\ 13 * j - 2 = 13 * p + 11) \/ (j \in 1 .. p /\ o2[j] = o[j])
          BY <1>1, <1>7, <4>3
        <5> QED  BY <2>1, <2>2, <3>2, <4>1, <4>3, <5>1
      <4> QED  BY <4>2, <4>3
    <3> QED  BY <1>6, <3>1, <3>2
  <2> QED  BY <2>3 DEF Objects
<1> QED  BY <1>8, <1>9, <1>10, <1>11, <1>12 DEF Shaped

(* The first node.                                                         *)
LEMMA ShapedRoot ==
  ASSUME NEW g, NEW n, NEW x \in Kinds \ {"!=", "object", "comma", "(", ")", "]"}, NEW p, NEW ph, NEW o, NEW p2, NEW ph2, NEW o2,
         g[n].sym = x, g[n].priority = 13 * p + Rank(x), Becomes(x, p, ph, o, p2, ph2, o2),
         x = "return" => ph2 = "operand" /\ p2 = p /\ o2 = o,
         \A j \in 1 .. p : o[j].kind = "group"
  PROVE  Shaped(g, <<n>>, p2, ph2, x, o2)
<1> DEFINE u == <<n>>
<1>1. Len(u) = 1 /\ u[1] = n /\ u[Len(u)] = n /\ \A i \in 1 .. Len(u) : i = 1
  OBVIOUS
<1>2. p \in Nat /\ p2 \in Nat /\ Rank(x) \in 1 .. 13 /\ g[n].priority \in Int
  BY Ranks DEF Becomes
<1>3. /\ ph2 # "operator" => 13 * p + Rank(x) <= 13 * p2 + Room(ph2, x) /\ Room(ph2, x) \in Int
      /\ x \in {"local", "const"} => ph2 = "operator"
      /\ x # "[" => p2 = p /\ o2 = o
      /\ x = "[" => p2 = p + 1 /\ \A j \in 1 .. p : o2[j] = o[j]
      /\ ph2 = "callee" => x \in Callables
      /\ ph2 # "method"
  <2>1. CASE x = "return"
    <3>1. Rank(x) = 1 /\ Room(ph2, x) = 9 /\ p2 = p /\ o2 = o /\ ph2 = "operand"
      BY <2>1, Ranks DEF Room
    <3> QED  BY <1>2, <2>1, <3>1
  <2>2. CASE x # "return"
    BY <2>2, BecomesFacts
  <2> QED  BY <2>1, <2>2
<1> HIDE DEF u
<1>4. Sorted(g, u)
  BY <1>1, <1>2 DEF Sorted
<1>5. Bounded(g, u, p2, ph2, x)
  BY <1>1, <1>2, <1>3 DEF Bounded
<1>6. Ended(g[u[Len(u)]], p2, ph2)
  <2>1. /\ x \in {"local", "const", "class"} => Rank(x) = 13
        /\ x = "function" => Rank(x) = 11
        /\ x # "[" => 13 * p + 13 = 13 * p2 + 13 /\ 13 * p + 11 = 13 * p2 + 11
    BY <1>2, <1>3, Ranks
  <2> DEFINE a == g[u[Len(u)]]
  <2>2. a.sym = x /\ a.priority = 13 * p + Rank(x)
    BY <1>1
  <2> HIDE DEF a
  <2>3. a.sym \in {"local", "const"} => ph2 = "operator" /\ a.priority >= 13 * p2 + 13
    BY <1>2, <1>3, <2>1, <2>2
  <2>4. ph2 = "callee" => a.sym \in Callables /\ a.priority \in {13 * p2 + 11, 13 * p2 + 13}
    BY <1>3, <2>1, <2>2 DEF Callables
  <2> QED  BY <1>3, <2>3, <2>4 DEF Ended, a
<1>7. Takers(g, u, p2, o2)
  <2>1. CASE x # "["
    BY <1>3, <2>1 DEF Takers
  <2>2. CASE x = "["
    <3>1. Rank(x) = 11 /\ g[n].priority = 13 * p2 - 2
      BY <1>2, <1>3, <2>2, Ranks
    <3>2. TakenBy(g, u, p2)
      BY <1>1, <2>2, <3>1 DEF TakenBy, Takes
    <3>3. \A j \in 1 .. p2 : j = p2 \/ (j \in 1 .. p /\ o2[j] = o[j])
      BY <1>2, <1>3, <2>2
    <3> QED  BY <3>2, <3>3 DEF Takers
  <2> QED  BY <2>1, <2>2
<1>8. Objects(g, u, p2, x, o2)
  BY <1>1 DEF Objects
<1> QED  BY <1>4, <1>5, <1>6, <1>7, <1>8 DEF Shaped, u

(* A parenthesis or a closing bracket.                                     *)
Bracketed(x, p, ph, o, p2, ph2, o2) ==
  /\ p \in Nat /\ p2 \in Nat
  /\ x = "(" => /\ ph2 \in {"operand", "first"} /\ p2 = p + 1 /\ \A j \in 1 .. p : o2[j] = o[j]
                /\ \/ ph \in {"operand", "first"} /\ o2[p2].kind = "group"
                   \/ ph \in {"callee", "method"} /\ o2[p2].kind = "call"
  /\ x \in {")", "]"} => /\ ph2 = "operator" /\ p > 0 /\ p2 = p - 1 /\ \A j \in 1 .. p2 : o2[j] = o[j]
                         /\ ph \in {"operator", "method"} \/ (ph = "first" /\ o[p].kind \in {"call", "list"})
  /\ x = "]" => o[p].kind \in {"list", "index"}

LEMMA ShapedBracket ==
  ASSUME NEW f, NEW s, Len(s) \in Nat, Len(s) > 0, \A i \in 1 .. Len(s) : f[s[i]].priority \in Int,
         NEW x \in {"(", ")", "]"}, NEW p, NEW ph, NEW last, NEW o, NEW p2, NEW ph2, NEW o2,
         Bracketed(x, p, ph, o, p2, ph2, o2), Shaped(f, s, p, ph, last, o),
         f[s[Len(s)]].sym = "object" => Takes(f, s[Len(s)])
  PROVE  Shaped(f, s, p2, ph2, x, o2)
<1>1. p \in Nat /\ p2 \in Nat /\ Len(s) \in 1 .. Len(s)
  BY DEF Bracketed
<1>2. /\ Sorted(f, s) /\ Bounded(f, s, p, ph, last) /\ Ended(f[s[Len(s)]], p, ph)
      /\ Takers(f, s, p, o) /\ Objects(f, s, p, last, o)
  BY DEF Shaped
<1> DEFINE a == f[s[Len(s)]]
<1>3. CASE x = "("
  <2>1. /\ ph2 \in {"operand", "first"} /\ p2 = p + 1 /\ \A j \in 1 .. p : o2[j] = o[j]
        /\ \/ ph \in {"operand", "first"} /\ o2[p2].kind = "group"
           \/ ph \in {"callee", "method"} /\ o2[p2].kind = "call"
    BY <1>3 DEF Bracketed
  <2>2. \A j \in 1 .. p2 : j = p2 \/ (j \in 1 .. p /\ o2[j] = o[j])
    BY <1>1, <2>1
  <2>3. Bounded(f, s, p2, ph2, x)
    <3>1. ph # "operator" /\ Room(ph, last) \in Int /\ Room(ph, last) <= 13 /\ Room(ph2, x) = 2
      BY <1>3, <2>1 DEF Room
    <3>2. ASSUME NEW i \in 1 .. Len(s) PROVE f[s[i]].priority <= 13 * p2 + 2
      <4>1. f[s[i]].priority <= 13 * p + Room(ph, last) /\ f[s[i]].priority \in Int
        BY <1>2, <3>1 DEF Bounded
      <4> QED  BY <1>1, <2>1, <3>1, <4>1
    <3> QED  BY <3>1, <3>2 DEF Bounded
  <2>4. Ended(a, p2, ph2)
    BY <1>2, <2>1 DEF Ended
  <2>5. Takers(f, s, p2, o2)
    <3>1. o2[p2].kind \in {"call", "list"} => TakenBy(f, s, p2)
      <4> SUFFICES ASSUME o2[p2].kind \in {"call", "list"} PROVE TakenBy(f, s, p2)
        OBVIOUS
      <4>1. ph \in {"callee", "method"}
        BY <2>1
      <4>2. a.priority \in {13 * p + 11, 13 * p + 13} /\ a.sym \in Callables \cup {"object"}
        BY <1>2, <4>1 DEF Ended
      <4>3. a.priority \in {13 * p2 - 2, 13 * p2}
        <5>1. p2 = p + 1
          BY <2>1
        <5>2. 13 * p + 11 = 13 * p2 - 2 /\ 13 * p + 13 = 13 * p2
          BY <1>1, <5>1
        <5> QED  BY <4>2, <5>2
      <4>4. Takes(f, s[Len(s)])
        BY <4>2 DEF Takes
      <4> QED  BY <1>1, <4>3, <4>4 DEF TakenBy
    <3> QED  BY <1>2, <2>2, <3>1 DEF Takers
  <2>6. Objects(f, s, p2, x, o2)
    BY <1>2, <1>3, <2>1, <2>2 DEF Objects
  <2> QED  BY <1>2, <2>3, <2>4, <2>5, <2>6 DEF Shaped
<1>4. CASE x \in {")", "]"}
  <2>1. /\ ph2 = "operator" /\ p > 0 /\ p2 = p - 1 /\ \A j \in 1 .. p2 : o2[j] = o[j] /\ j \in 1 .. p
        /\ x = "]" => o[p].kind \in {"list", "index"}
    BY <1>1, <1>4 DEF Bracketed
  <2>2. Bounded(f, s, p2, ph2, x)
    BY <2>1 DEF Bounded
  <2>3. Ended(a, p2, ph2)
    <3>1. a.priority \in Int
      BY <1>1
    <3> HIDE DEF a
    <3>2. Ended(a, p, ph)
      BY <1>2 DEF a
    <3> QED  BY <1>1, <2>1, <3>1, <3>2 DEF Ended
  <2>4. Takers(f, s, p2, o2)
    BY <1>2, <2>1 DEF Takers
  <2>5. Objects(f, s, p2, x, o2)
    <3>1. ASSUME NEW i \in 1 .. Len(s), f[s[i]].sym = "object", x = "]"
          PROVE  f[s[i]].priority # 13 * p2 + 11
      <4>1. p \in 1 .. p /\ 13 * p - 2 = 13 * p2 + 11
        BY <1>1, <2>1
      <4> QED  BY <1>2, <2>1, <3>1, <4>1 DEF Objects
    <3> QED  BY <1>2, <1>4, <2>1, <3>1 DEF Objects
  <2> QED  BY <1>2, <2>2, <2>3, <2>4, <2>5 DEF Shaped
<1> QED  BY <1>3, <1>4

(* The invariant of the shape while a statement is read.                   *)
Shape ==
  /\ root = NULL => Starting /\ \A j \in 1 .. precedence : open[j].kind = "group"
  /\ root # NULL => \E s : /\ Chain(node, root, s) /\ Spined(s)
                           /\ Shaped(node, s, precedence, phase, LastSymbol, open)

LEMMA BecomesRead ==
  ASSUME Typed, Plain, NEW x \in Symbols, x \notin {"(", ")", "]"}, ReadSymbol(x)
  PROVE  /\ x # "return" => Becomes(x, precedence, phase, open, precedence', phase', open') /\ Follows(x, phase, LastSymbol)
         /\ x # "!=" /\ LastSymbol' = x
<1>1. /\ precedence \in Nat /\ precedence' \in Nat
      /\ x = "[" => precedence' = precedence + 1 /\ \A j \in 1 .. precedence : open'[j] = open[j]
      /\ x # "[" => precedence' = precedence /\ open' = open
  BY ReadFacts
<1>2. /\ x \in Operands => Starting /\ phase' = "operator"
      /\ x \in Callables => Starting /\ phase' = "callee"
      /\ x = "!" => Starting /\ phase' = "operand"
      /\ x = "object" => phase = "member" /\ phase' = "method"
      /\ x \in {"+", "*", ".", "=", "comma"} => Ending /\ phase' = IF x = "." THEN "member" ELSE "operand"
      /\ x = "comma" => precedence > 0 /\ open[precedence].kind \in {"call", "list"}
      /\ x # "!=" /\ LastSymbol' = x
  BY ReadPhase
<1>3. x = "[" => phase' = "first" /\ (Starting \/ Indexed)
  BY BracketPhase
<1>4. Becomes(x, precedence, phase, open, precedence', phase', open')
  BY <1>1, <1>2, <1>3 DEF Becomes
<1>5. Follows(x, phase, LastSymbol)
  BY <1>2, <1>3 DEF Follows, Starting, Ending, Indexed
<1> QED  BY <1>2, <1>4, <1>5

LEMMA BracketedRead ==
  ASSUME Typed, Plain, NEW x \in Symbols, x \in {"(", ")", "]"}, ReadSymbol(x)
  PROVE  Bracketed(x, precedence, phase, open, precedence', phase', open') /\ LastSymbol' = x
<1>1. /\ precedence \in Nat /\ precedence' \in Nat
      /\ x = "(" => precedence' = precedence + 1 /\ \A j \in 1 .. precedence : open'[j] = open[j]
      /\ x \in {")", "]"} => /\ precedence' = precedence - 1 /\ \A j \in 1 .. precedence - 1 : open'[j] = open[j]
  BY ReadFacts
<1>2. /\ x = "(" => /\ phase' \in {"operand", "first"}
                    /\ \/ Starting /\ open'[precedence'].kind = "group"
                       \/ phase \in {"callee", "method"} /\ open'[precedence'].kind = "call"
      /\ x \in {")", "]"} => /\ phase' = "operator" /\ precedence > 0
                             /\ Ending \/ (phase = "first" /\ open[precedence].kind \in {"call", "list"})
      /\ x = "]" => open[precedence].kind \in {"list", "index"}
  BY BracketPhase
<1>3. LastSymbol' = x
  BY ReadPhase
<1> QED  BY <1>1, <1>2, <1>3 DEF Bracketed, Starting, Ending

(* The hypotheses of the lemmas on insertions.                             *)
LEMMA StepAdds ==
  ASSUME NEW x, NEW n, NEW f, NEW s, NEW u, NEW k, TreeStep(x, n, f, s, u, k), Plain, Leafy(node, {}),
         Shaped(node, s, precedence, phase, LastSymbol, open)
  PROVE  /\ Added(f, node', root, s, u, k, n, x, precedence, phase, LastSymbol, open)
         /\ Becomes(x, precedence, phase, open, precedence', phase', open') /\ LastSymbol' = x
         /\ Right(f, node', s, u, k, n) => (f[s[k]].sym = "." <=> x = "object")
<1>1. /\ x \in Kinds /\ Len(symbols) \in Nat /\ n = Len(symbols) + 1 /\ n \in Nodes
      /\ precedence' \in Nat /\ precedence \in Nat /\ f[n].sym = x
      /\ f[n].priority = Get_Precedence(x) + 13 * precedence' /\ Get_Precedence(x) \in Int
      /\ \A i \in 1 .. Len(s) : s[i] \in Nodes /\ s[i] <= Len(symbols) /\ f[s[i]].sym # "none"
  BY StepFacts
<1>2. /\ Typed /\ Built /\ x \in Symbols /\ x \notin {"(", ")", "]"} /\ ReadSymbol(x) /\ Prepared(node, f, n, Pending, x, precedence')
      /\ Insertable(f, node', root, s, u, k, n) /\ Chain(node, root, s) /\ Spined(s)
      /\ \A i \in 1 .. Len(s) : s[i] # n /\ f[s[i]] = node[s[i]]
  BY DEF TreeStep
<1>3. Len(s) \in Nat /\ Len(s) > 0 /\ k \in 1 .. Len(s)
  BY <1>2, InsertionFacts, ChainFacts DEF Typed
<1>4. x # "return"
  <2>1. symbols # <<>>
    <3>1. s[1] \in Nodes /\ s[1] <= Len(symbols)
      BY <1>1, <1>3
    <3>2. Len(symbols) > 0
      BY <1>1, <3>1, Numbers
    <3> QED  BY <3>2
  <2> QED  BY <1>2, <2>1, ReadPhase
<1>5. Becomes(x, precedence, phase, open, precedence', phase', open') /\ Follows(x, phase, LastSymbol) /\ x # "!=" /\ LastSymbol' = x
  BY <1>2, <1>4, BecomesRead
<1>6. f[n].priority = 13 * precedence + Rank(x)
  <2>1. CASE x = "["
    <3>1. precedence' = precedence + 1 /\ Get_Precedence(x) = -2 /\ Rank(x) = 11
      BY <1>5, <2>1, Precedences, Ranks DEF Becomes
    <3> QED  BY <1>1, <3>1
  <2>2. CASE x # "["
    <3>1. precedence' = precedence /\ Get_Precedence(x) = Rank(x)
      BY <1>5, <2>2 DEF Becomes, Rank
    <3> QED  BY <1>1, <3>1
  <2> QED  BY <2>1, <2>2
<1>7. Form(f) /\ Dotted(f) /\ f[n].index = (IF x \in Callables THEN 0 ELSE 1) /\ \A m \in Nodes \ {n} : f[m] = node[m]
  BY <1>2 DEF Prepared
<1>8. node[n].sym = "none" /\ node \in NodesType
  <2>1. n > Len(symbols)
    BY <1>1
  <2> QED  BY <1>1, <1>2, <2>1, BlankIs DEF Built, Fits, Typed
<1>9. \A m \in Nodes : /\ node[m].parent # NULL => node[m].parent \in Nodes
                       /\ \A i \in Slots : node[m].params[i] # NULL => node[m].params[i] \in Nodes
  BY <1>8, NodeFacts
<1>10. 1 \in Slots
  <2>1. 1 \in Nodes
    BY <1>1, Numbers
  <2> QED  BY <2>1, Numbers
<1>11. Leafy(f, {n})
  BY <1>7, <1>8, <1>9, <1>10 DEF Leafy
<1>12. Shaped(f, s, precedence, phase, LastSymbol, open)
  <2>1. \A i \in 1 .. Len(s) : Takes(node, s[i]) => Takes(f, s[i])
    <3>1. ASSUME NEW i \in 1 .. Len(s), node[s[i]].parent # NULL, node[node[s[i]].parent].sym = "."
          PROVE  f[s[i]].parent # NULL /\ f[f[s[i]].parent].sym = "."
      <4>1. node[s[i]].parent \in Nodes /\ node[s[i]].parent # n
        BY <1>1, <1>8, <1>9, <3>1
      <4> QED  BY <1>2, <1>7, <3>1, <4>1
    <3> QED  BY <1>2, <3>1 DEF Takes
  <2>2. Sorted(f, s) /\ Bounded(f, s, precedence, phase, LastSymbol) /\ Objects(f, s, precedence, LastSymbol, open)
    BY <1>2 DEF Shaped, Sorted, Bounded, Objects
  <2>3. Ended(f[s[Len(s)]], precedence, phase)
    BY <1>2, <1>3 DEF Shaped
  <2>4. Takers(f, s, precedence, open)
    BY <1>2, <2>1 DEF Shaped, Takers, TakenBy
  <2> QED  BY <2>2, <2>3, <2>4 DEF Shaped
<1>13. Added(f, node', root, s, u, k, n, x, precedence, phase, LastSymbol, open)
  BY <1>1, <1>2, <1>4, <1>5, <1>6, <1>7, <1>11, <1>12 DEF Added
<1>14. Right(f, node', s, u, k, n) => (f[s[k]].sym = "." <=> x = "object")
  <2>1. phase = "member" => x = "object" /\ s[k] = Len(symbols)
    BY <1>2, MethodRight, ReadFacts
  <2>2. x = "object" => phase = "member"
    BY <1>5 DEF Follows
  <2>3. phase = "member" => node[Len(symbols)].sym = "."
    BY <1>2 DEF Spined
  <2>4. Right(f, node', s, u, k, n) /\ f[s[k]].sym = "." => phase = "member"
    BY MethodRight
  <2> QED  BY <1>2, <1>3, <2>1, <2>2, <2>3, <2>4
<1> QED  BY <1>5, <1>13, <1>14

(* The first symbol that becomes a node.                                   *)
LEMMA FirstFacts ==
  ASSUME Typed, Built, Reading, stage = "parse", Plain, Leafy(node, {}), Shape, NEW x \in Symbols, ReadSymbol(x),
         x \notin {"(", ")", "]"}, root = NULL, NEW n, n = Len(symbols) + 1
  PROVE  /\ root' = n /\ n \in Nodes /\ Chain(node', n, <<n>>) /\ Spined(<<n>>)'
         /\ \A m \in Nodes \ {n} : node'[m] = node[m]
         /\ node'[n].sym = x /\ \A i \in Slots : node'[n].params[i] = NULL
         /\ node'[n].priority = 13 * precedence + Rank(x)
         /\ precedence \in Nat /\ x \in Kinds /\ node \in NodesType /\ Starting /\ LastSymbol' = x
         /\ x \notin {"object", "comma", "!=", "=", "+", "*", "."}
         /\ Becomes(x, precedence, phase, open, precedence', phase', open')
         /\ x = "return" => phase' = "operand" /\ precedence' = precedence /\ open' = open
         /\ \A j \in 1 .. precedence : open[j].kind = "group"
<1>1. /\ root' = n /\ n \in Nodes /\ Chain(node', n, <<n>>) /\ Spined(<<n>>)'
      /\ \A m \in Nodes \ {n} : node'[m] = node[m]
  BY RootStep
<1>2. /\ node'[n].sym = x /\ node'[n].priority = Get_Precedence(x) + 13 * precedence'
      /\ \A i \in Slots : node'[n].params[i] = NULL
  <2>1. /\ node'[n].sym = x /\ node'[n].priority = Get_Precedence(x) + 13 * precedence'
        /\ node'[n].params = [i \in Slots |-> NULL]
    BY RootStep
  <2> QED  BY <2>1
<1>3. Starting /\ \A j \in 1 .. precedence : open[j].kind = "group"
  BY DEF Shape
<1>4. /\ precedence \in Nat /\ precedence' \in Nat /\ x \in Kinds /\ node \in NodesType
  BY ReadFacts DEF Typed
<1>5. x # "!=" /\ LastSymbol' = x
  BY BecomesRead
<1>6. x \notin {"object", "comma", "!=", "=", "+", "*", "."}
  BY <1>3, <1>5, ReadPhase DEF Starting, Ending
<1>7. Becomes(x, precedence, phase, open, precedence', phase', open')
  <2>1. CASE x = "return"
    <3>1. precedence' = precedence /\ open' = open
      BY <2>1, ReadFacts
    <3> QED  BY <1>4, <2>1, <3>1 DEF Becomes, Operands, Callables
  <2>2. CASE x # "return"
    BY <2>2, BecomesRead
  <2> QED  BY <2>1, <2>2
<1>8. x = "return" => phase' = "operand" /\ precedence' = precedence /\ open' = open
  BY ReadFacts, ReadPhase
<1>9. node'[n].priority = 13 * precedence + Rank(x)
  <2>1. CASE x = "["
    <3>1. precedence' = precedence + 1 /\ Get_Precedence(x) = -2 /\ Rank(x) = 11
      BY <1>7, <2>1, Precedences, Ranks DEF Becomes
    <3> QED  BY <1>2, <1>4, <3>1
  <2>2. CASE x # "["
    <3>1. precedence' = precedence /\ Get_Precedence(x) = Rank(x) /\ Get_Precedence(x) \in Int
      BY <1>4, <1>7, <2>2, Precedences DEF Becomes, Rank
    <3> QED  BY <1>2, <1>4, <3>1
  <2> QED  BY <2>1, <2>2
<1> QED  BY <1>1, <1>2, <1>3, <1>4, <1>5, <1>6, <1>7, <1>8, <1>9

LEMMA ShapeFirst ==
  ASSUME Typed, Built, Reading, stage = "parse", Plain, Leafy(node, {}), Shape, NEW x \in Symbols, ReadSymbol(x),
         x \notin {"(", ")", "]"}, root = NULL, NEW n, n = Len(symbols) + 1
  PROVE  Shape' /\ Leafy(node', {})
<1>1. /\ root' = n /\ n \in Nodes /\ Chain(node', n, <<n>>) /\ Spined(<<n>>)'
      /\ \A m \in Nodes \ {n} : node'[m] = node[m]
      /\ node'[n].sym = x /\ \A i \in Slots : node'[n].params[i] = NULL
      /\ precedence \in Nat /\ x \in Kinds /\ node \in NodesType /\ LastSymbol' = x
      /\ x \notin {"object", "comma", "!=", "=", "+", "*", "."}
  BY FirstFacts
<1>10. Shaped(node', <<n>>, precedence', phase', x, open')
  <2>1. /\ node'[n].sym = x /\ node'[n].priority = 13 * precedence + Rank(x)
        /\ Becomes(x, precedence, phase, open, precedence', phase', open')
        /\ x = "return" => phase' = "operand" /\ precedence' = precedence /\ open' = open
        /\ \A j \in 1 .. precedence : open[j].kind = "group"
    BY FirstFacts
  <2> QED  BY <1>1, <2>1, ShapedRoot
<1>11. Leafy(node', {})
  <2>1. node[n].sym = "none"
    <3>1. n > Len(symbols)
      BY <1>1 DEF Typed
    <3> QED  BY <1>1, <3>1, BlankIs DEF Built, Fits
  <2>2. \A m \in Nodes : /\ node[m].parent # NULL => node[m].parent \in Nodes
                         /\ \A i \in Slots : node[m].params[i] # NULL => node[m].params[i] \in Nodes
    BY <1>1, NodeFacts
  <2>3. 1 \in Slots
    <3>1. 1 \in Nodes
      BY <1>1, Numbers
    <3> QED  BY <3>1, Numbers
  <2>4. \A m \in Nodes : \/ m = n /\ node'[m].sym = x /\ \A i \in Slots : node'[m].params[i] = NULL
                         \/ m # n /\ node'[m] = node[m]
    BY <1>1
  <2>5. x # "object" /\ x # "."
    BY <1>1
  <2> QED  BY <2>1, <2>2, <2>3, <2>4, <2>5 DEF Leafy
<1>12. root' # NULL
  BY <1>1, Numbers
<1> QED  BY <1>1, <1>10, <1>11, <1>12 DEF Shape

LEMMA ShapeRead ==
  ASSUME Typed, Built, Reading, stage = "parse", Plain, Leafy(node, {}), Shape, NEW x \in Symbols, ReadSymbol(x)
  PROVE  Shape' /\ Leafy(node', {})
<1>1. CASE x \in {"(", ")", "]"}
  <2>1. /\ node' = node /\ root' = root
        /\ \A s : root # NULL /\ Chain(node, root, s) /\ Spined(s) => Spined(s)'
    BY <1>1, BracketStep
  <2>2. Bracketed(x, precedence, phase, open, precedence', phase', open') /\ LastSymbol' = x
    BY <1>1, BracketedRead
  <2>3. CASE root = NULL
    <3>1. Starting /\ \A j \in 1 .. precedence : open[j].kind = "group"
      BY <2>3 DEF Shape
    <3>2. precedence \in Nat /\ precedence' \in Nat
      BY <2>2 DEF Bracketed
    <3>3. x = "("
      <4>1. precedence > 0 => precedence \in 1 .. precedence
        BY <3>2
      <4> QED  BY <1>1, <2>2, <3>1, <4>1 DEF Bracketed, Starting
    <3>4. /\ phase' \in {"operand", "first"} /\ precedence' = precedence + 1
          /\ open'[precedence'].kind = "group" /\ \A j \in 1 .. precedence : open'[j] = open[j]
      BY <2>2, <3>1, <3>3 DEF Bracketed, Starting
    <3>5. \A j \in 1 .. precedence' : j = precedence' \/ (j \in 1 .. precedence /\ open'[j] = open[j])
      BY <3>2, <3>4
    <3> QED  BY <2>1, <2>3, <3>1, <3>4, <3>5 DEF Shape, Starting
  <2>4. CASE root # NULL
    <3>1. PICK s : /\ Chain(node, root, s) /\ Spined(s)
                   /\ Shaped(node, s, precedence, phase, LastSymbol, open)
      BY <2>4 DEF Shape
    <3>2. Len(s) \in Nat /\ Len(s) > 0 /\ Len(s) \in 1 .. Len(s) /\ \A i \in 1 .. Len(s) : s[i] \in Nodes /\ node[s[i]].priority \in Int
      BY <3>1, ChainFacts, NodeFacts DEF Typed
    <3>3. node[s[Len(s)]].sym = "object" => Takes(node, s[Len(s)])
      BY <3>2 DEF Leafy, Takes
    <3>4. Shaped(node, s, precedence', phase', x, open')
      BY <1>1, <2>2, <3>1, <3>2, <3>3, ShapedBracket
    <3>5. Spined(s)'
      BY <2>1, <2>4, <3>1
    <3> QED  BY <2>1, <2>2, <2>4, <3>1, <3>4, <3>5 DEF Shape
  <2> QED  BY <2>1, <2>3, <2>4
<1>2. CASE x \notin {"(", ")", "]"} /\ root # NULL
  <2> DEFINE n == Len(symbols) + 1
  <2>1. PICK s : /\ Chain(node, root, s) /\ Spined(s)
                 /\ Shaped(node, s, precedence, phase, LastSymbol, open)
    BY <1>2 DEF Shape
  <2>2. PICK f, u, k : TreeStep(x, n, f, s, u, k)
    BY <1>2, <2>1, StepExists
  <2>3. /\ Added(f, node', root, s, u, k, n, x, precedence, phase, LastSymbol, open)
        /\ Becomes(x, precedence, phase, open, precedence', phase', open') /\ LastSymbol' = x
        /\ Right(f, node', s, u, k, n) => (f[s[k]].sym = "." <=> x = "object")
    BY <2>1, <2>2, StepAdds
  <2>4. Shaped(node', u, precedence', phase', x, open')
    BY <2>3, ShapedComma, ShapedNode
  <2>5. x = "comma" => TakenBy(f, s, precedence)
    <3>1. x = "comma" => precedence \in 1 .. precedence /\ open[precedence].kind \in {"call", "list"}
      BY <2>3 DEF Becomes
    <3> QED  BY <2>3, <3>1 DEF Added, Shaped, Takers
  <2>6. Leafy(node', {})
    BY <2>3, <2>5, LeafyKept
  <2>7. Spined(u)' /\ Chain(node', root', u) /\ root' # NULL
    BY <2>2, SpinedStep, BuiltStep, Numbers DEF TreeStep
  <2> QED  BY <2>3, <2>4, <2>6, <2>7 DEF Shape
<1>3. CASE x \notin {"(", ")", "]"} /\ root = NULL
  BY <1>3, ShapeFirst
<1> QED  BY <1>1, <1>2, <1>3

(* The parameters of an operation, among them those of the method that a   *)
(* dot calls, and the values that an operation of S still has to read.     *)
ParametersOf(f, m) == Children(f, m) \cup (IF f[m].sym = "." THEN Children(f, f[m].params[1]) ELSE {})

AwaitedBy(f, c, S) == f[c].parent = NULL \/ \E m \in S : c \in ParametersOf(f, m)

LEMMA ParametersAre == \A m : Parameters(m) = ParametersOf(node, m)
BY DEF Parameters, ParametersOf, Method

LEMMA ParametersKept ==
  ASSUME NEW f \in NodesType, NEW g \in NodesType, \A m \in Nodes : Kept(g[m], f[m]),
         NEW m \in Nodes, f[m].sym = "." => f[m].params[1] \in Nodes
  PROVE  ParametersOf(g, m) = ParametersOf(f, m)
<1>1. \A q \in Nodes : Children(g, q) = Children(f, q)
  BY DEF Kept, Children
<1> QED  BY <1>1 DEF ParametersOf, Kept

(* Who reads the value of a node of the tree.                              *)
LEMMA ChildOf ==
  ASSUME NEW f \in NodesType, Linked(f), NEW m \in Nodes, NEW c \in Children(f, m)
  PROVE  c \in Nodes /\ f[c].parent = m /\ c # NULL
<1>1. PICK i \in Slots : c = f[m].params[i] /\ c # NULL
  BY DEF Children
<1>2. c \in Nodes
  BY <1>1, NodeFacts
<1> QED  BY <1>1, <1>2 DEF Linked

LEMMA ParentIn ==
  ASSUME NEW f \in NodesType, Linked(f), NEW r \in Nodes, f[r].parent = NULL,
         NEW n \in Subtree(f, r), f[n].parent # NULL
  PROVE  f[n].parent \in Subtree(f, r) /\ n \in Children(f, f[n].parent)
<1> DEFINE T == Subtree(f, r)
           S == {m \in T : m = r \/ (f[m].parent \in T /\ m \in Children(f, f[m].parent))}
<1>1. /\ T \in SUBSET Nodes /\ r \in T /\ \A m \in T : Children(f, m) \subseteq T
      /\ \A U \in SUBSET Nodes : r \in U /\ (\A m \in U : Children(f, m) \subseteq U) => T \subseteq U
  BY SubtreeFacts
<1> HIDE DEF T
<1>2. S \in SUBSET Nodes /\ r \in S
  BY <1>1
<1>3. ASSUME NEW m \in S, NEW c \in Children(f, m) PROVE c \in S
  <2>1. m \in T /\ m \in Nodes /\ c \in T
    BY <1>1
  <2>2. f[c].parent = m
    BY <2>1, ChildOf
  <2> QED  BY <2>1, <2>2
<1>4. T \subseteq S
  BY <1>1, <1>2, <1>3
<1> QED  BY <1>4 DEF T

(* Without nodes of U, none of which is the root, that only lead to each   *)
(* other, nothing of the tree is lost.                                     *)
LEMMA NoCycle ==
  ASSUME NEW f \in NodesType, Linked(f), NEW r \in Nodes, f[r].parent = NULL,
         NEW U, \A m \in U : f[m].parent \in U /\ f[m].parent # NULL
  PROVE  Subtree(f, r) \cap U = {}
<1> DEFINE T == Subtree(f, r)
           S == T \ U
<1>1. /\ T \in SUBSET Nodes /\ r \in T /\ \A m \in T : Children(f, m) \subseteq T
      /\ \A W \in SUBSET Nodes : r \in W /\ (\A m \in W : Children(f, m) \subseteq W) => T \subseteq W
  BY SubtreeFacts
<1> HIDE DEF T
<1>2. S \in SUBSET Nodes /\ r \in S
  BY <1>1
<1>3. ASSUME NEW m \in S, NEW c \in Children(f, m) PROVE c \in S
  <2>1. m \in T /\ m \in Nodes /\ c \in T /\ m \notin U
    BY <1>1
  <2>2. f[c].parent = m
    BY <2>1, ChildOf
  <2> QED  BY <2>1, <2>2
<1>4. T \subseteq S
  BY <1>1, <1>2, <1>3
<1> QED  BY <1>4 DEF T

LEMMA SubtreeAwaits ==
  ASSUME NEW f \in NodesType, Linked(f), Leafy(f, {}), NEW r \in Nodes, f[r].parent = NULL,
         NEW T, T = {m \in Subtree(f, r) : Evaluable(f[m].sym)}, NEW n \in T
  PROVE  AwaitedBy(f, n, T \ {n})
<1> SUFFICES ASSUME f[n].parent # NULL PROVE \E m \in T \ {n} : n \in ParametersOf(f, m)
  BY DEF AwaitedBy
<1> DEFINE p == f[n].parent
           q == f[p].parent
<1>1. n \in Subtree(f, r) /\ n \in Nodes /\ Subtree(f, r) \in SUBSET Nodes
  BY SubtreeFacts
<1>2. p \in Subtree(f, r) /\ n \in Children(f, p) /\ p \in Nodes
  BY <1>1, ParentIn
<1>3. p # n
  <2>1. p = n => \A m \in {n} : f[m].parent \in {n} /\ f[m].parent # NULL
    OBVIOUS
  <2> QED  BY <1>1, <2>1, NoCycle
<1>4. CASE Evaluable(f[p].sym)
  <2>1. p \in T \ {n}
    BY <1>2, <1>3, <1>4
  <2> QED  BY <1>2, <2>1 DEF ParametersOf
<1>5. CASE ~Evaluable(f[p].sym)
  <2>1. f[p].sym = "object"
    <3>1. PICK i \in Slots : f[p].params[i] = n /\ n # NULL
      BY <1>2 DEF Children
    <3> QED  BY <1>2, <1>5, <3>1 DEF Evaluable, Leafy
  <2>2. q # NULL /\ f[q].sym = "." /\ f[q].params[1] = p
    BY <1>2, <2>1 DEF Leafy
  <2>3. q \in Subtree(f, r)
    BY <1>2, <2>2, ParentIn
  <2>4. q # n
    <3>1. q = n => \A m \in {n, p} : f[m].parent \in {n, p} /\ f[m].parent # NULL
      BY <2>2
    <3> QED  BY <1>1, <3>1, NoCycle
  <2>5. Evaluable(f[q].sym)
    BY <2>2 DEF Evaluable
  <2>6. q \in T \ {n} /\ n \in ParametersOf(f, q)
    BY <1>2, <2>2, <2>3, <2>4, <2>5 DEF ParametersOf
  <2> QED  BY <2>6
<1> QED  BY <1>4, <1>5

(* Folding leaves methods and dots as they are.                            *)
LEMMA ReduceLeafy ==
  ASSUME NEW f \in NodesType, Leafy(f, {}), NEW g, g = Reduce(f)
  PROVE  Leafy(g, {})
<1>1. \A m \in Nodes : \/ g[m] = f[m]
                       \/ /\ f[m].sym \in {"!", "+", "*", "!="} /\ g[m].sym = "const"
                          /\ \A i \in Slots : g[m].params[i] = NULL
  BY ReduceIs
<1>2. \A m \in Nodes : f[m].sym \in {".", "object"} => g[m] = f[m]
  BY <1>1
<1>3. \A m \in Nodes : g[m].sym \in {".", "object"} => g[m] = f[m]
  BY <1>1
<1>4. \A m \in Nodes : f[m].parent # NULL => f[m].parent \in Nodes
  BY NodeFacts
<1>5. ASSUME NEW m \in Nodes, g[m].sym \in {"local", "const"}, NEW i \in Slots PROVE g[m].params[i] = NULL
  BY <1>1, <1>5 DEF Leafy
<1>6. ASSUME NEW m \in Nodes, g[m].sym = "object"
      PROVE  g[m].parent # NULL /\ g[g[m].parent].sym = "." /\ g[g[m].parent].params[1] = m
  BY <1>2, <1>3, <1>4, <1>6 DEF Leafy
<1>7. ASSUME NEW m \in Nodes, g[m].sym = ".", g[m].params[1] # NULL
      PROVE  g[g[m].params[1]].sym = "object"
  <2>1. g[m] = f[m] /\ f[f[m].params[1]].sym = "object"
    BY <1>3, <1>7 DEF Leafy
  <2>2. f[m].params[1] \in Nodes
    <3>1. 1 \in Nodes
      BY Numbers
    <3>2. 1 \in Slots
      BY <3>1, Numbers
    <3> QED  BY <1>7, <2>1, <3>2, NodeFacts
  <2> QED  BY <1>2, <2>1, <2>2
<1> QED  BY <1>5, <1>6, <1>7 DEF Leafy

LEMMA SubtreeKept ==
  ASSUME NEW f \in NodesType, NEW g \in NodesType, \A m \in Nodes : Kept(g[m], f[m]), NEW t \in Nodes
  PROVE  Subtree(g, t) = Subtree(f, t)
<1>1. \A q \in Nodes : Children(g, q) = Children(f, q)
  BY DEF Kept, Children
<1>2. Subtree(g, t) \subseteq Subtree(f, t)
  <2> DEFINE S == Subtree(f, t)
  <2>1. S \in SUBSET Nodes /\ t \in S /\ \A m \in S : Children(f, m) \subseteq S
    BY SubtreeFacts
  <2> HIDE DEF S
  <2>2. \A m \in S : Children(g, m) \subseteq S
    BY <1>1, <2>1
  <2>3. Subtree(g, t) \subseteq S
    BY <2>1, <2>2, SubtreeFacts
  <2> QED  BY <2>3 DEF S
<1>3. Subtree(f, t) \subseteq Subtree(g, t)
  <2> DEFINE S == Subtree(g, t)
  <2>1. S \in SUBSET Nodes /\ t \in S /\ \A m \in S : Children(g, m) \subseteq S
    BY SubtreeFacts
  <2> HIDE DEF S
  <2>2. \A m \in S : Children(f, m) \subseteq S
    BY <1>1, <2>1
  <2>3. Subtree(f, t) \subseteq S
    BY <2>1, <2>2, SubtreeFacts
  <2> QED  BY <2>3 DEF S
<1> QED  BY <1>2, <1>3

LEMMA LeafyCopied ==
  ASSUME NEW f \in NodesType, NEW g \in NodesType, \A m \in Nodes : Kept(g[m], f[m]), Leafy(f, {})
  PROVE  Leafy(g, {})
<1>1. \A m \in Nodes : g[m].sym = f[m].sym /\ g[m].params = f[m].params /\ g[m].parent = f[m].parent
  BY DEF Kept
<1>2. \A m \in Nodes : /\ f[m].parent # NULL => f[m].parent \in Nodes
                       /\ \A i \in Slots : f[m].params[i] # NULL => f[m].params[i] \in Nodes
  BY NodeFacts
<1>3. \A m \in Nodes : 1 \in Slots
  <2>1. \A m \in Nodes : 1 \in Nodes
    BY Numbers
  <2> QED  BY <2>1, Numbers
<1> QED  BY <1>1, <1>2, <1>3 DEF Leafy

(* The invariant of the tree of such a program.                            *)
Rooted == root \in Nodes /\ node[root].parent = NULL /\ todo \subseteq Subtree(node, root)

TreeInv ==
  /\ IInv /\ Leafy(node, {})
  /\ stage = "parse" => Shape
  /\ stage = "evaluate" => Rooted

LEMMA BlankTree == Between => TreeInv
<1> SUFFICES ASSUME Between PROVE TreeInv
  OBVIOUS
<1>1. IInv
  BY BlankState
<1>2. node = [n \in Nodes |-> Blank] /\ root = NULL /\ stage = "parse" /\ phase = "operand" /\ precedence = 0
  BY DEF Between
<1>3. Leafy(node, {})
  BY <1>2, BlankIs DEF Leafy
<1>4. Shape
  BY <1>2 DEF Shape, Starting
<1> QED  BY <1>1, <1>2, <1>3, <1>4 DEF TreeInv

LEMMA ReadTreeInv ==
  ASSUME Plain, TreeInv, NEW x \in Symbols, ReadSymbol(x)
  PROVE  TreeInv'
<1>1. IInv'
  BY ReadInv DEF TreeInv
<1>2. stage = "parse" /\ stage' = "parse"
  BY DEF ReadSymbol
<1>3. Typed /\ Built /\ Reading /\ Leafy(node, {}) /\ Shape
  BY <1>2 DEF TreeInv, IInv
<1>4. Shape' /\ Leafy(node', {})
  BY <1>2, <1>3, ShapeRead
<1> QED  BY <1>1, <1>2, <1>4 DEF TreeInv

LEMMA NewLineTreeInv ==
  ASSUME TreeInv, NewLine
  PROVE  TreeInv'
<1>1. /\ stage = "parse" /\ stage' = "evaluate" /\ phase \in {"operator", "method"} /\ root' = root
      /\ node' = Reduce(node) /\ todo' = {n \in Subtree(node', root) : Evaluable(node'[n].sym)}
  BY DEF NewLine
<1>2. IInv'
  BY NewLineInv DEF TreeInv
<1>3. node \in NodesType /\ Leafy(node, {}) /\ Shape /\ root \in Nodes \cup {NULL}
  BY <1>1 DEF TreeInv, IInv, Typed
<1>4. Leafy(node', {})
  BY <1>1, <1>3, ReduceLeafy
<1>5. root \in Nodes
  BY <1>1, <1>3 DEF Shape, Starting
<1>6. node[root].parent = NULL
  <2>1. root # NULL
    BY <1>5, Numbers
  <2> QED  BY <1>3, <2>1 DEF Shape, Chain
<1>7. node'[root].parent = NULL
  BY <1>1, <1>3, <1>5, <1>6, ReduceIs
<1>8. Rooted'
  BY <1>1, <1>5, <1>7 DEF Rooted
<1> QED  BY <1>1, <1>2, <1>4, <1>8 DEF TreeInv

LEMMA EvaluateTreeInv ==
  ASSUME TreeInv, NEW n \in todo, Evaluate(n)
  PROVE  TreeInv'
<1>1. stage = "evaluate" /\ stage' = stage /\ root' = root /\ todo' = todo \ {n}
  BY DEF Evaluate
<1>2. IInv /\ IInv' /\ Leafy(node, {}) /\ Rooted
  BY <1>1, EvaluateInv DEF TreeInv
<1>3. node \in NodesType /\ node' \in NodesType
  BY <1>2 DEF IInv, Typed
<1>4. \A m \in Nodes : Kept(node'[m], node[m])
  BY <1>2, EvaluateKeeps
<1>5. Leafy(node', {})
  BY <1>2, <1>3, <1>4, LeafyCopied
<1>6. root \in Nodes /\ Subtree(node', root) = Subtree(node, root)
  BY <1>2, <1>3, <1>4, SubtreeKept DEF Rooted
<1>7. node'[root].parent = NULL
  BY <1>2, <1>4, <1>6 DEF Rooted, Kept
<1>8. Rooted'
  BY <1>1, <1>2, <1>6, <1>7 DEF Rooted
<1> QED  BY <1>1, <1>2, <1>5, <1>8 DEF TreeInv

LEMMA NextTreeInv ==
  ASSUME Plain, TreeInv, [Next]_vars
  PROVE  TreeInv'
<1>1. ASSUME EndStatement PROVE TreeInv'
  <2>1. Between'
    BY <1>1, EndBetween DEF TreeInv
  <2>2. Between' => TreeInv'
    BY BlankTree, PTL
  <2> QED  BY <2>1, <2>2
<1>2. ASSUME UNCHANGED vars PROVE TreeInv'
  <2>1. IInv'
    BY <1>2, SameInv DEF TreeInv
  <2>2. /\ node' = node /\ root' = root /\ stage' = stage /\ phase' = phase /\ precedence' = precedence /\ open' = open
        /\ symbols' = symbols /\ target' = target /\ todo' = todo
    BY <1>2 DEF vars
  <2>3. Shape => Shape'
    BY <2>2 DEF Shape, Spined, Starting, LastSymbol
  <2>4. Rooted => Rooted'
    BY <2>2 DEF Rooted
  <2> QED  BY <2>1, <2>2, <2>3, <2>4 DEF TreeInv
<1> QED  BY <1>1, <1>2, ReadTreeInv, NewLineTreeInv, EvaluateTreeInv DEF Next

(* Every register in use has a value that an operation still reads.        *)
Named == \A m \in Nodes : node[m].sym = "class" => "class" \in ToSet(symbols)

Waiting == \A n \in todo : AwaitedBy(node, n, todo \ {n})

Freed == "class" \notin ToSet(symbols) => \A q \in Nat : InUse(Machine, q) => AwaitedBy(node, holds[q], todo)

FreedInv == TreeInv /\ Named /\ (stage = "evaluate" => Waiting /\ Freed)

LEMMA ReadNamed ==
  ASSUME TreeInv, Named, NEW x \in Symbols, ReadSymbol(x)
  PROVE  Named'
<1>1. stage = "parse" /\ Typed /\ Built /\ Reading
  BY DEF ReadSymbol, TreeInv, IInv
<1>2. /\ symbols' = Append(symbols, x) /\ symbols \in Seq(Kinds) /\ Len(symbols) \in Nat /\ x \in Kinds
      /\ Len(symbols') = Len(symbols) + 1 /\ Last(symbols') = x
  BY <1>1, ReadFacts DEF Typed
<1>3. \A y : (y \in ToSet(symbols) => y \in ToSet(symbols')) /\ x \in ToSet(symbols')
  <2>1. \A i \in 1 .. Len(symbols) : symbols'[i] = symbols[i]
    BY <1>2
  <2>2. symbols'[Len(symbols) + 1] = x
    BY <1>2
  <2> QED  BY <1>2, <2>1, <2>2 DEF ToSet
<1>4. \A m \in Nodes : node'[m].sym = node[m].sym \/ node'[m].sym = x
  <2>1. CASE x \in {"(", ")", "]"}
    BY <1>1, <2>1, BracketStep
  <2>2. CASE x \notin {"(", ")", "]"} /\ root = NULL
    <3>1. PICK n : n = Len(symbols) + 1
      OBVIOUS
    <3>2. node'[n].sym = x /\ \A m \in Nodes \ {n} : node'[m] = node[m]
      BY <1>1, <2>2, <3>1, RootStep
    <3> QED  BY <3>2
  <2>3. CASE x \notin {"(", ")", "]"} /\ root # NULL
    <3>1. PICK s : Chain(node, root, s) /\ Spined(s)
      BY <1>1, <2>3 DEF Reading
    <3>2. PICK f, u, k : TreeStep(x, Len(symbols) + 1, f, s, u, k)
      BY <1>1, <2>3, <3>1, StepExists
    <3>3. PICK n : n = Len(symbols) + 1
      OBVIOUS
    <3>4. (\A m \in Nodes : node'[m].sym = f[m].sym) /\ f[n].sym = x
      BY <3>2, <3>3, StepFacts
    <3>5. \A m \in Nodes \ {n} : f[m] = node[m]
      BY <3>2, <3>3 DEF TreeStep, Prepared
    <3> QED  BY <3>4, <3>5
  <2> QED  BY <2>1, <2>2, <2>3
<1> QED  BY <1>3, <1>4 DEF Named

LEMMA NewLineFreed ==
  ASSUME Plain, FreedInv, NewLine
  PROVE  FreedInv'
<1>1. /\ stage = "parse" /\ stage' = "evaluate" /\ root' = root /\ symbols' = symbols
      /\ node' = Reduce(node) /\ todo' = {n \in Subtree(node', root) : Evaluable(node'[n].sym)}
      /\ registers' = registers /\ holds' = holds
  BY DEF NewLine
<1>2. TreeInv'
  BY NewLineTreeInv DEF FreedInv
<1>3. node \in NodesType /\ Named /\ \A r \in 1 .. Len(registers) : ~registers[r]
  BY <1>1 DEF FreedInv, TreeInv, IInv, Typed, Placed
<1>4. Named'
  <2>1. \A m \in Nodes : node'[m].sym = "class" => node[m].sym = "class"
    BY <1>1, <1>3, ReduceIs
  <2> QED  BY <1>1, <1>3, <2>1 DEF Named
<1>5. Waiting'
  <2>1. PICK g : g = node'
    OBVIOUS
  <2>2. PICK T : T = todo'
    OBVIOUS
  <2>3. g \in NodesType /\ Linked(g) /\ Leafy(g, {}) /\ root \in Nodes /\ g[root].parent = NULL
    BY <1>1, <1>2, <2>1 DEF TreeInv, IInv, Typed, Settled, Rooted
  <2>4. T = {m \in Subtree(g, root) : Evaluable(g[m].sym)}
    BY <1>1, <2>1, <2>2
  <2>5. \A n \in T : AwaitedBy(g, n, T \ {n})
    BY <2>3, <2>4, SubtreeAwaits
  <2> QED  BY <2>1, <2>2, <2>5 DEF Waiting
<1>6. Freed'
  <2>1. \A q \in Nat : ~InUse(Machine', q)
    BY <1>1, <1>3 DEF InUse, Machine
  <2> QED  BY <2>1 DEF Freed
<1> QED  BY <1>2, <1>4, <1>5, <1>6 DEF FreedInv

(* What Evaluate(n) finds: nothing else below n is left to do.             *)
LEMMA NextAlone ==
  ASSUME TreeInv, NEW n \in todo, IsNext(n), node[n].sym = "." => Method(n) \in Nodes
  PROVE  /\ Subtree(node, n) \cap todo = {n} /\ Parameters(n) \subseteq Subtree(node, n)
         /\ stage = "evaluate" => \A c \in Parameters(n) \cap todo : c = n
<1>1. n \in Nodes /\ node \in NodesType
  BY DEF TreeInv, IInv, Typed, Placed
<1>2. Subtree(node, n) \cap todo = {n}
  BY DEF IsNext
<1>3. Children(node, n) \subseteq Subtree(node, n) /\ \A m \in Subtree(node, n) : Children(node, m) \subseteq Subtree(node, n)
  BY <1>1, SubtreeFacts
<1>4. node[n].sym = "." => Method(n) \in Children(node, n)
  <2>1. 1 \in Nodes
    BY <1>1, Numbers
  <2>2. 1 \in Slots
    BY <2>1, Numbers
  <2>3. node[n].sym = "." => Method(n) # NULL
    BY Numbers
  <2> QED  BY <2>2, <2>3 DEF Method, Children
<1> QED  BY <1>2, <1>3, <1>4 DEF Parameters

LEMMA EvaluateFreed ==
  ASSUME FreedInv, NEW n \in todo, Evaluate(n)
  PROVE  FreedInv'
<1>1. PICK A : A = Mapped(Machine, n)
  OBVIOUS
<1>2. PICK B : B = Clear_Registry(A, n)
  OBVIOUS
<1>3. PICK X : X = Result(B, n)
  OBVIOUS
<1>4. /\ stage = "evaluate" /\ stage' = stage /\ symbols' = symbols /\ IsNext(n) /\ todo' = todo \ {n}
  BY DEF Evaluate
<1>5. TreeInv /\ TreeInv' /\ IInv /\ Named /\ Waiting /\ Freed
  BY <1>4, EvaluateTreeInv DEF FreedInv, TreeInv
<1>6. /\ n \in Nodes /\ node \in NodesType /\ Fit(Machine)
      /\ node[n].sym = "=" => node[n].params[0] \in Nodes
      /\ node[n].sym = "." => Method(n) \in Nodes
      /\ Fit(A) /\ Moved(Machine, A, Parameters(n)) /\ Parameters(n) \in SUBSET Nodes
      /\ Fit(B) /\ B.node = A.node /\ B.node[n].place # "register"
      /\ Fit(X) /\ node' = X.node /\ holds' = X.holds /\ Machine' = X
  BY <1>1, <1>2, <1>3, <1>5, EvaluateIs
<1>7. node' \in NodesType /\ \A m \in Nodes : Kept(node'[m], node[m])
  BY <1>5, <1>6, EvaluateKeeps DEF Fit, Machines
<1>8. Named'
  BY <1>4, <1>5, <1>7 DEF Named, Kept
<1>9. \A m \in todo : m \in Nodes /\ ParametersOf(node', m) = ParametersOf(node, m) /\ Parameters(m) = ParametersOf(node, m)
  <2>1. ASSUME NEW m \in todo PROVE m \in Nodes /\ (node[m].sym = "." => node[m].params[1] \in Nodes)
    <3>1. m \in Nodes /\ Called(node, {})
      BY <1>4, <1>5 DEF IInv, Placed, Settled
    <3>2. 1 \in Nodes
      BY <1>6, Numbers
    <3>3. 1 \in Slots
      BY <3>2, Numbers
    <3> QED  BY <1>6, <3>1, <3>3, NodeFacts DEF Called
  <2> QED  BY <1>6, <1>7, <2>1, ParametersKept, ParametersAre
<1>10. ASSUME NEW c \in Nodes, NEW S \in SUBSET todo, AwaitedBy(node, c, S) PROVE AwaitedBy(node', c, S)
  BY <1>7, <1>9, <1>10 DEF AwaitedBy, Kept
<1>11. Waiting'
  <2>1. ASSUME NEW c \in todo' PROVE AwaitedBy(node', c, todo' \ {c})
    <3>1. c \in todo /\ c # n /\ c \in Nodes /\ AwaitedBy(node, c, todo \ {c})
      BY <1>4, <1>5, <1>9 DEF Waiting
    <3>2. c \notin Parameters(n)
      BY <1>4, <1>5, <1>6, <3>1, NextAlone
    <3>3. AwaitedBy(node, c, todo' \ {c})
      BY <1>4, <1>9, <3>1, <3>2 DEF AwaitedBy
    <3> QED  BY <1>4, <1>10, <3>1, <3>3
  <2> QED  BY <2>1 DEF Waiting
<1>12. Freed'
  <2> SUFFICES ASSUME "class" \notin ToSet(symbols), NEW q \in Nat, InUse(X, q)
               PROVE  AwaitedBy(node', X.holds[q], todo')
    BY <1>4, <1>6 DEF Freed
  <2>1. node[n].sym # "class"
    BY <1>5, <1>6 DEF Named
  <2>2. ASSUME NEW p \in Nat, InUse(B, p)
        PROVE  B.holds[p] = A.holds[p] /\ A.holds[p] \in Nodes /\ AwaitedBy(node', A.holds[p], todo')
    <3>1. /\ InUse(A, p) /\ B.holds = A.holds
          /\ ~ \E c \in Parameters(n) : InRegister(A, c) /\ A.node[c].reg = p
      BY <1>2, <1>6, <2>1, <2>2, ClearIs
    <3>2. A.holds[p] \in Nodes /\ InRegister(A, A.holds[p]) /\ A.node[A.holds[p]].reg = p
      BY <1>6, <3>1 DEF Fit, InUse, InRegister
    <3>3. A.holds[p] \notin Parameters(n)
      BY <3>1, <3>2
    <3>4. InUse(Machine, p) /\ A.holds[p] = holds[p]
      BY <1>6, <3>1, <3>3 DEF Moved, Machine
    <3>5. AwaitedBy(node, A.holds[p], todo)
      BY <1>5, <3>4 DEF Freed
    <3>6. AwaitedBy(node, A.holds[p], todo')
      BY <1>4, <1>9, <3>3, <3>5 DEF AwaitedBy
    <3> QED  BY <1>4, <1>10, <3>1, <3>2, <3>6
  <2>3. CASE \E r \in Nodes : Taken(B, X, n, r)
    <3>1. PICK r \in Nodes : Taken(B, X, n, r)
      BY <2>3
    <3>2. CASE q = r
      <4>1. X.holds[q] = n
        BY <1>6, <3>1, <3>2 DEF Taken, Fit, Machines
      <4>2. AwaitedBy(node, n, todo')
        BY <1>4, <1>5 DEF Waiting
      <4> QED  BY <1>4, <1>6, <1>10, <4>1, <4>2
    <3>3. CASE q # r
      <4>1. InUse(B, q) /\ X.holds[q] = B.holds[q]
        BY <1>6, <3>1, <3>3 DEF Taken, Fit, Machines
      <4> QED  BY <2>2, <4>1
    <3> QED  BY <3>2, <3>3
  <2>4. CASE node[n].sym = "=" /\ node[n].parent # NULL /\ Aliased(B, X, n, node[n].params[0])
    <3> DEFINE to == node[n].params[0]
    <3>1. InUse(B, q)
      BY <2>4 DEF Aliased, InUse
    <3>2. to \in Parameters(n)
      <4>1. to \in Nodes /\ 0 \in Slots /\ to # NULL
        BY <1>6, <2>4, Numbers
      <4> QED  BY <4>1 DEF Parameters, Children
    <3>3. ~(InRegister(B, to) /\ B.node[to].reg = q)
      <4>1. ~ \E c \in Parameters(n) : InRegister(A, c) /\ A.node[c].reg = q
        BY <1>2, <1>6, <2>1, <3>1, ClearIs
      <4> QED  BY <1>6, <3>2, <4>1 DEF InRegister
    <3>4. X.holds[q] = B.holds[q]
      <4>1. B.holds \in [Nodes -> Nodes \cup {NULL}]
        BY <1>6 DEF Fit, Machines
      <4>2. X.holds = IF InRegister(B, to) THEN [B.holds EXCEPT ![B.node[to].reg] = n] ELSE B.holds
        BY <2>4 DEF Aliased
      <4> HIDE DEF to
      <4>3. CASE InRegister(B, to)
        <5>1. X.holds = [B.holds EXCEPT ![B.node[to].reg] = n] /\ B.node[to].reg # q
          BY <3>3, <4>2, <4>3
        <5> QED  BY <4>1, <5>1
      <4>4. CASE ~InRegister(B, to)
        BY <4>2, <4>4
      <4> QED  BY <4>3, <4>4
    <3> QED  BY <2>2, <3>1, <3>4
  <2> QED  BY <1>3, <1>6, <2>3, <2>4, ResultIs
<1> QED  BY <1>5, <1>8, <1>11, <1>12 DEF FreedInv

LEMMA BlankFreed == Between => FreedInv
<1> SUFFICES ASSUME Between PROVE FreedInv
  OBVIOUS
<1>1. node = [n \in Nodes |-> Blank] /\ stage = "parse"
  BY DEF Between
<1>2. \A m \in Nodes : node[m].sym # "class"
  BY <1>1, BlankIs
<1> QED  BY <1>1, <1>2, BlankTree DEF FreedInv, Named

LEMMA ReadFreed ==
  ASSUME Plain, FreedInv, NEW x \in Symbols, ReadSymbol(x)
  PROVE  FreedInv'
<1>1. stage' = "parse"
  BY DEF ReadSymbol
<1>2. TreeInv' /\ Named'
  BY ReadTreeInv, ReadNamed DEF FreedInv
<1> QED  BY <1>1, <1>2 DEF FreedInv

LEMMA NextFreed ==
  ASSUME Plain, FreedInv, [Next]_vars
  PROVE  FreedInv'
<1>1. ASSUME EndStatement PROVE FreedInv'
  <2>1. Between'
    BY <1>1, EndBetween DEF FreedInv, TreeInv
  <2>2. Between' => FreedInv'
    BY BlankFreed, PTL
  <2> QED  BY <2>1, <2>2
<1>2. ASSUME UNCHANGED vars PROVE FreedInv'
  <2>1. TreeInv'
    BY <1>2, NextTreeInv DEF FreedInv
  <2>2. /\ node' = node /\ stage' = stage /\ symbols' = symbols /\ todo' = todo
        /\ registers' = registers /\ holds' = holds
    BY <1>2 DEF vars
  <2>3. Machine' = Machine
    BY <2>2 DEF Machine
  <2>4. Named' /\ (Waiting => Waiting')
    BY <2>2 DEF FreedInv, Named, Waiting
  <2>5. Freed => Freed'
    BY <2>2, <2>3 DEF Freed
  <2> QED  BY <2>1, <2>2, <2>4, <2>5 DEF FreedInv
<1> QED  BY <1>1, <1>2, ReadFreed, NewLineFreed, EvaluateFreed DEF Next

(* An operation reads the values of its children and, if it is a dot, of   *)
(* those of its method.                                                    *)
LEMMA AwaitedByParent ==
  ASSUME NEW f \in NodesType, Linked(f), NEW S \in SUBSET Nodes, NEW c \in Nodes, f[c].parent # NULL, AwaitedBy(f, c, S),
         \A m \in S : f[m].sym = "." => f[m].params[1] \in Nodes
  PROVE  S \cap {f[c].parent, f[f[c].parent].parent} # {}
<1>1. PICK m \in S : c \in ParametersOf(f, m)
  BY DEF AwaitedBy
<1>2. CASE c \in Children(f, m)
  <2>1. f[c].parent = m
    BY <1>2, ChildOf
  <2> QED  BY <2>1
<1>3. CASE f[m].sym = "." /\ c \in Children(f, f[m].params[1])
  <2>1. PICK o \in Nodes : o = f[m].params[1]
    BY <1>3
  <2>2. f[c].parent = o
    BY <1>3, <2>1, ChildOf
  <2>3. o \in Children(f, m)
    <3>1. 1 \in Nodes
      BY <2>1, Numbers
    <3>2. 1 \in Slots /\ o # NULL
      BY <2>1, <3>1, Numbers
    <3> QED  BY <2>1, <3>2 DEF Children
  <2>4. f[o].parent = m
    BY <2>3, ChildOf
  <2> QED  BY <2>2, <2>4
<1> QED  BY <1>1, <1>2, <1>3 DEF ParametersOf

LEMMA FreedFollows == FreedInv => RegistersFreed
<1> SUFFICES ASSUME FreedInv PROVE RegistersFreed
  OBVIOUS
<1>1. /\ node \in NodesType /\ stage \in {"parse", "evaluate"} /\ Placed /\ Fit(Machine)
      /\ registers \in Seq(BOOLEAN) /\ Machine.registers = registers /\ Machine.holds = holds /\ Machine.node = node
  BY DEF FreedInv, TreeInv, IInv, Typed, Placed, Fit, Machines, Machine
<1>2. DOMAIN registers = 1 .. Len(registers) /\ Len(registers) \in Nat
  BY <1>1
<1>3. SUFFICES ASSUME "class" \notin ToSet(symbols), NEW r \in 1 .. Len(registers), registers[r]
               PROVE  /\ stage = "evaluate" /\ node[holds[r]].place = "register" /\ node[holds[r]].reg = r
                      /\ node[holds[r]].parent # NULL =>
                           todo \cap {node[holds[r]].parent, node[node[holds[r]].parent].parent} # {}
  BY <1>2 DEF RegistersFreed
<1>4. stage = "evaluate"
  BY <1>1, <1>3 DEF Placed
<1>5. holds[r] \in Nodes /\ node[holds[r]].place = "register" /\ node[holds[r]].reg = r
  BY <1>1, <1>3 DEF Fit
<1>6. AwaitedBy(node, holds[r], todo)
  <2>1. InUse(Machine, r) /\ r \in Nat
    BY <1>1, <1>3 DEF InUse
  <2> QED  BY <1>3, <1>4, <2>1 DEF FreedInv, Freed
<1>7. todo \in SUBSET Nodes /\ Linked(node) /\ Called(node, {})
  BY <1>1, <1>4 DEF FreedInv, TreeInv, IInv, Settled, Placed
<1>8. \A m \in todo : node[m].sym = "." => node[m].params[1] \in Nodes
  <2>1. ASSUME NEW m \in todo, node[m].sym = "." PROVE node[m].params[1] \in Nodes
    <3>1. m \in Nodes /\ node[m].params[1] # NULL
      BY <1>7, <2>1 DEF Called
    <3>2. 1 \in Nodes
      BY <3>1, Numbers
    <3>3. 1 \in Slots
      BY <3>2, Numbers
    <3> QED  BY <1>1, <3>1, <3>3, NodeFacts
  <2> QED  BY <2>1
<1>9. node[holds[r]].parent # NULL => todo \cap {node[holds[r]].parent, node[node[holds[r]].parent].parent} # {}
  BY <1>1, <1>5, <1>6, <1>7, <1>8, AwaitedByParent
<1> QED  BY <1>4, <1>5, <1>9

(* A register in use has a value that is still to be read, in every        *)
(* statement without a constructor of a program that neither compares with *)
(* != nor indexes the result of a method (Clear_Registry, Map_Parameters). *)
THEOREM RegistersAlwaysFreed == Plain => (Spec => []RegistersFreed)
<1>2. Init => FreedInv
  BY InitBetween, BlankFreed
<1>3. Plain /\ FreedInv /\ [Next]_vars => FreedInv'
  BY NextFreed
<1>4. FreedInv => RegistersFreed
  BY FreedFollows
<1> SUFFICES ASSUME Plain PROVE Spec => []RegistersFreed
  OBVIOUS
<1>5. FreedInv /\ [Next]_vars => FreedInv'
  BY <1>3
<1> QED  BY <1>2, <1>4, <1>5, PTL DEF Spec

---------------------------------------------------------------------------
(* The invariant behind OperandsKept.  Priorities grow towards the leaves; *)
(* an assignment inside brackets is to a local, and only assignments are   *)
(* above one outside of brackets.                                          *)
Disciplined == Allowed = {}

Ordered(f) ==
  \A m \in Nodes : f[m].parent # NULL => f[f[m].parent].sym # "none" /\ f[f[m].parent].priority <= f[m].priority

Aimed(f, S) ==
  \A m \in Nodes \ S : f[m].sym = "=" =>
    /\ f[m].index = 1 /\ f[m].params[0] # NULL /\ f[f[m].params[0]].priority > f[m].priority
    /\ f[f[m].params[0]].sym = "local" \/ f[m].priority = 2

Low(f, returned) ==
  \A m \in Nodes : f[m].sym # "none" /\ f[m].priority <= 2 => (f[m].sym = "=" /\ f[m].priority = 2) \/ returned

Targeted(f, s, p, tg, last) ==
  tg /\ last = "local" => /\ f[s[Len(s)]].sym = "local"
                          /\ \A i \in 1 .. Len(s) - 1 : f[s[i]].priority <= 13 * p + 2

LEMMA OrderedKept ==
  ASSUME NEW f, NEW g, NEW r, NEW s, NEW u, NEW k, NEW n, NEW x, NEW p, NEW ph, NEW last, NEW o,
         Added(f, g, r, s, u, k, n, x, p, ph, last, o), Ordered(f)
  PROVE  Ordered(g)
<1> DEFINE t == s[k]
<1>1. /\ k \in 1 .. Len(s) /\ n \in Nodes /\ t \in Nodes \ {n} /\ t # NULL /\ n # NULL
      /\ f[t].priority \in Int /\ f[n].priority \in Int
  BY AddedFacts, Numbers
<1>2. Insertable(f, g, r, s, u, k, n) /\ f \in NodesType /\ f[n].sym = x /\ x # "none" /\ f[t].sym # "none"
  BY <1>1 DEF Added, Insertable, Kinds, Operands, Callables, Binary
<1>3. \A m \in Nodes : g[m].sym = f[m].sym /\ g[m].priority = f[m].priority
  BY <1>2, InsertionFields DEF Same
<1>4. \A m \in Nodes : f[m].parent # NULL =>
        f[m].parent \in Nodes /\ f[f[m].parent].sym # "none" /\ f[f[m].parent].priority <= f[m].priority
  BY <1>2, NodeFacts DEF Ordered
<1>5. CASE Comma(f, g, s, u, k, n)
  <2>1. \A m \in Nodes : g[m].parent = f[m].parent
    BY <1>2, <1>5, InsertionFields
  <2> QED  BY <1>3, <1>4, <2>1 DEF Ordered
<1>6. CASE Right(f, g, s, u, k, n)
  <2>1. \A m \in Nodes : g[m].parent = IF m = n THEN t ELSE f[m].parent
    BY <1>2, <1>6, InsertionFields
  <2>2. f[t].priority <= f[n].priority
    BY <1>1, <1>6, PassedOver DEF Right
  <2> QED  BY <1>1, <1>2, <1>3, <1>4, <2>1, <2>2 DEF Ordered
<1>7. CASE Left(f, g, s, u, k, n)
  <2>1. \A m \in Nodes : g[m].parent = IF m = n THEN f[t].parent ELSE IF m = t THEN n ELSE f[m].parent
    BY <1>2, <1>7, InsertionFields
  <2>2. f[n].priority <= f[t].priority
    BY <1>1, <1>7 DEF Left, GoesRight
  <2>3. f[t].parent # NULL => f[t].parent \in Nodes /\ f[f[t].parent].sym # "none" /\ f[f[t].parent].priority <= f[n].priority
    <3>1. CASE k = 1
      BY <1>2, <3>1 DEF Insertable, Chain
    <3>2. CASE k > 1
      <4>1. k - 1 \in 1 .. Len(s)
        BY <1>1, <3>2
      <4>2. f[t].parent = s[k - 1] /\ GoesRight(f, s[k - 1], n)
        BY <1>2, <3>2, InsertionFacts
      <4>3. f[s[k - 1]].priority <= f[n].priority
        BY <4>1, <4>2, PassedOver
      <4> QED  BY <1>1, <1>4, <4>2, <4>3
    <3> QED  BY <1>1, <3>1, <3>2
  <2> QED  BY <1>1, <1>2, <1>3, <1>4, <2>1, <2>2, <2>3 DEF Ordered
<1> QED  BY <1>2, <1>5, <1>6, <1>7 DEF Insertable, Inserted

LEMMA AimedKept ==
  ASSUME NEW f, NEW g, NEW r, NEW s, NEW u, NEW k, NEW n, NEW x, NEW p, NEW ph, NEW last, NEW o,
         Added(f, g, r, s, u, k, n, x, p, ph, last, o), Aimed(f, {n}),
         x = "comma" => TakenBy(f, s, p),
         x = "=" => Left(f, g, s, u, k, n) /\ (f[s[k]].sym = "local" \/ f[n].priority = 2)
  PROVE  Aimed(g, {})
<1> DEFINE t == s[k]
<1>1. /\ k \in 1 .. Len(s) /\ Len(s) \in Nat /\ n \in Nodes /\ t \in Nodes \ {n} /\ t # NULL /\ n # NULL
      /\ f[t].priority \in Int /\ f[n].priority \in Int
  BY AddedFacts, Numbers
<1>2. Insertable(f, g, r, s, u, k, n) /\ f \in NodesType /\ f[n].sym = x
  BY DEF Added, Insertable
<1>3. \A m \in Nodes : g[m].sym = f[m].sym /\ g[m].priority = f[m].priority
  BY <1>2, InsertionFields DEF Same
<1>4. 0 \in Slots /\ 0 # 1
  BY Numbers
<1>5. \A m \in Nodes : f[m].params[0] # NULL => f[m].params[0] \in Nodes
  BY <1>2, <1>4, NodeFacts
<1>6. ASSUME NEW m \in Nodes, m # n, g[m].sym = "="
      PROVE  g[m].index = 1 /\ g[m].params[0] = f[m].params[0]
  <2>1. f[m].sym = "=" /\ f[m].index = 1
    BY <1>3, <1>6 DEF Aimed
  <2>2. CASE Comma(f, g, s, u, k, n)
    <3>1. f[t].sym # "="
      <4>1. x = "comma"
        BY <1>2, <2>2 DEF Comma, TakesComma
      <4> QED  BY <4>1, CommaFinds
    <3> QED  BY <1>2, <2>1, <2>2, <3>1, InsertionFields
  <2>3. CASE Right(f, g, s, u, k, n)
    BY <1>2, <1>4, <1>6, <2>1, <2>3, InsertionFields
  <2>4. CASE Left(f, g, s, u, k, n)
    BY <1>2, <1>4, <1>6, <2>1, <2>4, InsertionFields
  <2> QED  BY <1>2, <2>2, <2>3, <2>4 DEF Insertable, Inserted
<1>7. ASSUME NEW m \in Nodes, m # n, g[m].sym = "="
      PROVE  /\ g[m].index = 1 /\ g[m].params[0] # NULL /\ g[g[m].params[0]].priority > g[m].priority
             /\ g[g[m].params[0]].sym = "local" \/ g[m].priority = 2
  <2>1. /\ f[m].params[0] # NULL /\ f[f[m].params[0]].priority > f[m].priority
        /\ f[f[m].params[0]].sym = "local" \/ f[m].priority = 2
    BY <1>3, <1>7 DEF Aimed
  <2>2. f[m].params[0] \in Nodes
    BY <1>5, <2>1
  <2>3. g[m].index = 1 /\ g[m].params[0] = f[m].params[0]
    BY <1>6, <1>7
  <2> QED  BY <1>3, <2>1, <2>2, <2>3
<1>8. ASSUME g[n].sym = "="
      PROVE  /\ g[n].index = 1 /\ g[n].params[0] # NULL /\ g[g[n].params[0]].priority > g[n].priority
             /\ g[g[n].params[0]].sym = "local" \/ g[n].priority = 2
  <2>1. x = "=" /\ Left(f, g, s, u, k, n) /\ (f[t].sym = "local" \/ f[n].priority = 2)
    BY <1>1, <1>2, <1>3, <1>8
  <2>2. g[n].params[0] = t /\ g[n].index = f[n].index
    BY <1>1, <1>2, <1>4, <2>1, InsertionFields
  <2>3. f[n].index = 1
    BY <2>1 DEF Added, Callables
  <2>4. f[t].priority > f[n].priority
    BY <1>1, <1>2, <2>1 DEF Left, GoesRight, R_Assoc
  <2> QED  BY <1>1, <1>3, <2>1, <2>2, <2>3, <2>4
<1> QED  BY <1>7, <1>8 DEF Aimed

(* The target of an assignment inside brackets is the last node.           *)
LEMMA TargetedStep ==
  ASSUME NEW f, NEW g, NEW r, NEW s, NEW u, NEW k, NEW n, NEW x, NEW p, NEW ph, NEW last, NEW o, NEW tg,
         Added(f, g, r, s, u, k, n, x, p, ph, last, o),
         tg /\ x = "local" => last \in {"=", "(", "[", "comma"}
  PROVE  Targeted(g, u, p, tg, x)
<1> SUFFICES ASSUME tg, x = "local"
             PROVE  /\ g[u[Len(u)]].sym = "local" /\ \A i \in 1 .. Len(u) - 1 : g[u[i]].priority <= 13 * p + 2
  BY DEF Targeted
<1>1. /\ k \in 1 .. Len(s) /\ Len(s) \in Nat /\ n \in Nodes
      /\ \A i \in 1 .. Len(s) : s[i] \in Nodes \ {n} /\ f[s[i]].priority \in Int
  BY AddedFacts
<1>2. ph \in {"operand", "first"} /\ f[n].sym = x /\ Insertable(f, g, r, s, u, k, n)
  BY DEF Added, Follows, Operands
<1>3. \A m \in Nodes : g[m].sym = f[m].sym /\ g[m].priority = f[m].priority
  BY <1>2, InsertionFields DEF Same
<1>4. Room(ph, last) = 2
  BY <1>2 DEF Room
<1>5. \A i \in 1 .. Len(s) : f[s[i]].priority <= 13 * p + 2
  BY <1>2, <1>4 DEF Added, Shaped, Bounded
<1>6. Right(f, g, s, u, k, n)
  BY <1>2, StartGoesRight
<1>7. k = Len(s) /\ Len(u) = k + 1 /\ u[k + 1] = n /\ \A i \in 1 .. k : u[i] = s[i]
  BY <1>6 DEF Right
<1> QED  BY <1>1, <1>2, <1>3, <1>5, <1>7

LEMMA AssignsLocal ==
  ASSUME NEW f, NEW g, NEW r, NEW s, NEW u, NEW k, NEW n, NEW p, NEW ph, NEW last, NEW o, NEW tg,
         Added(f, g, r, s, u, k, n, "=", p, ph, last, o), Left(f, g, s, u, k, n),
         Targeted(f, s, p, tg, last), tg, last = "local"
  PROVE  f[s[k]].sym = "local"
<1>1. /\ k \in 1 .. Len(s) /\ Len(s) \in Nat /\ f[n].sym = "=" /\ f[n].priority = 13 * p + Rank("=")
      /\ f[s[k]].priority \in Int /\ p \in Nat
  BY AddedFacts DEF Added
<1>2. f[n].priority = 13 * p + 2 /\ f[n].priority \in Int
  BY <1>1, Ranks, AddedFacts
<1>3. f[s[k]].priority > f[n].priority
  <2>1. ~(f[n].priority > f[s[k]].priority) /\ f[n].priority # f[s[k]].priority
    BY <1>1 DEF Left, GoesRight, R_Assoc
  <2>2. f[s[k]].priority \in Int /\ f[n].priority \in Int
    BY <1>1, <1>2
  <2> QED  BY <2>1, <2>2
<1>4. f[s[Len(s)]].sym = "local" /\ \A i \in 1 .. Len(s) - 1 : f[s[i]].priority <= 13 * p + 2
  BY DEF Targeted
<1>5. k = Len(s)
  <2>1. k \notin 1 .. Len(s) - 1
    BY <1>1, <1>2, <1>3, <1>4
  <2> QED  BY <1>1, <2>1
<1> QED  BY <1>4, <1>5

(* What may be assigned to, outside of brackets and in the first one, and  *)
(* that no statement which returns a value assigns it.                     *)
Returned == symbols # <<>> /\ symbols[1] = "return"

Outermost ==
  /\ symbols = <<>> => precedence = 0
  /\ LastSymbol \in {"(", "[", "comma"} => precedence > 0
  /\ Returned => /\ ~(precedence = 0 /\ target) /\ ~(precedence > 0 /\ open[1].target)
                 /\ ~(precedence = 0 /\ LastSymbol = "=")

LEMMA ReadTarget ==
  ASSUME Typed, Disciplined, NEW x \in Symbols, ReadSymbol(x)
  PROVE  /\ target' => \/ x \in {"local", "attribute"} /\ (symbols = <<>> \/ LastSymbol \in {"=", "(", "[", "comma"})
                       \/ x = "]" /\ open[precedence].target
         /\ x = "=" => target /\ (precedence = 0 \/ LastSymbol = "local")
         /\ LastSymbol' = x
<1>1. x \in Kinds /\ open \in Seq(Brackets) /\ precedence = Len(open) /\ Len(open) \in Nat /\ symbols \in Seq(Kinds)
  BY ReadFacts DEF Typed
<1>2. WellFormed(x) /\ target' = NextTarget(x)
  BY DEF ReadSymbol
<1>3. x = "=" => target /\ (open = <<>> \/ LastSymbol = "local")
  BY <1>2 DEF WellFormed, StartsExpression, Continues, Closes, Operands, Callables, Disciplined
<1>4. open = <<>> => precedence = 0
  BY <1>1
<1>5. target' => \/ x \in {"local", "attribute"} /\ LastSymbol \in {"none", "=", "(", "[", "comma"}
                 \/ x = "]" /\ Top.target
  BY <1>2 DEF NextTarget
<1>6. LastSymbol = "none" => symbols = <<>>
  <2> SUFFICES ASSUME symbols # <<>> PROVE LastSymbol # "none"
    OBVIOUS
  <2>1. LastSymbol = symbols[Len(symbols)] /\ Len(symbols) \in 1 .. Len(symbols)
    BY <1>1 DEF LastSymbol, Last
  <2>2. LastSymbol \in Kinds
    BY <1>1, <2>1
  <2> QED  BY <2>2 DEF Kinds, Operands, Callables, Binary
<1>7. x = "]" => Top = open[precedence]
  <2>1. x = "]" => precedence > 0
    BY ReadFacts
  <2>2. open # <<>> => Top = open[Len(open)]
    BY <1>1 DEF Top, Last
  <2> QED  BY <1>1, <2>1, <2>2
<1>8. LastSymbol' = x
  BY ReadPhase DEF Plain, Disciplined
<1> QED  BY <1>3, <1>4, <1>5, <1>6, <1>7, <1>8

LEMMA OutermostRead ==
  ASSUME Typed, Disciplined, Outermost, NEW x \in Symbols, ReadSymbol(x)
  PROVE  Outermost' /\ (Returned => Returned') /\ (Returned' => Returned \/ (symbols = <<>> /\ x = "return"))
<1>1. /\ symbols' = Append(symbols, x) /\ Len(symbols') = Len(symbols) + 1 /\ Len(symbols) \in Nat
      /\ precedence \in Nat /\ precedence' \in Nat /\ symbols \in Seq(Kinds) /\ x \in Kinds
  BY ReadFacts DEF Typed
<1>2. /\ x \in {"(", "["} => precedence' = precedence + 1 /\ open'[precedence'].target = target /\ \A j \in 1 .. precedence : open'[j] = open[j]
      /\ x \in {")", "]"} => precedence > 0 /\ precedence' = precedence - 1 /\ \A j \in 1 .. precedence - 1 : open'[j] = open[j]
      /\ x \notin {"(", "[", ")", "]"} => precedence' = precedence /\ open' = open
  BY ReadFacts
<1>3. /\ target' => \/ x \in {"local", "attribute"} /\ (symbols = <<>> \/ LastSymbol \in {"=", "(", "[", "comma"})
                    \/ x = "]" /\ open[precedence].target
      /\ x = "=" => target
      /\ LastSymbol' = x
  BY ReadTarget
<1>4. symbols' # <<>> /\ symbols'[1] = IF symbols = <<>> THEN x ELSE symbols[1]
  <2>1. symbols' # <<>>
    BY <1>1
  <2>2. CASE symbols = <<>>
    BY <1>1, <2>2
  <2>3. CASE symbols # <<>>
    BY <1>1, <2>3
  <2> QED  BY <2>1, <2>2, <2>3
<1>5. x = "comma" => precedence > 0
  BY ReadPhase DEF Plain, Disciplined
<1>6. x \in {"(", "[", "comma"} => precedence' > 0
  BY <1>1, <1>2, <1>5
<1>7. CASE symbols = <<>> /\ x = "return"
  <2>1. precedence' = 0 /\ ~target'
    BY <1>2, <1>3, <1>7 DEF Outermost
  <2> QED  BY <1>3, <1>4, <1>7, <2>1 DEF Outermost, Returned
<1>8. CASE symbols = <<>> /\ x # "return"
  BY <1>3, <1>4, <1>6, <1>8 DEF Outermost, Returned
<1>9. CASE symbols # <<>> /\ ~Returned
  BY <1>3, <1>4, <1>6, <1>9 DEF Outermost, Returned
<1>10. CASE symbols # <<>> /\ Returned
  <2>1. /\ LastSymbol \in {"(", "[", "comma"} => precedence > 0
        /\ ~(precedence = 0 /\ target) /\ ~(precedence > 0 /\ open[1].target) /\ ~(precedence = 0 /\ LastSymbol = "=")
    BY <1>10 DEF Outermost
  <2>2. ~(precedence' = 0 /\ target')
    <3> SUFFICES ASSUME precedence' = 0, target' PROVE FALSE
      OBVIOUS
    <3>1. CASE x \in {"local", "attribute"}
      BY <1>2, <1>3, <1>10, <2>1, <3>1
    <3>2. CASE x = "]"
      BY <1>1, <1>2, <1>3, <2>1, <3>2
    <3> QED  BY <1>3, <3>1, <3>2
  <2>3. ~(precedence' > 0 /\ open'[1].target)
    <3> SUFFICES ASSUME precedence' > 0, open'[1].target PROVE FALSE
      OBVIOUS
    <3>1. CASE x \in {"(", "["}
      <4>1. CASE precedence = 0
        BY <1>2, <2>1, <3>1, <4>1
      <4>2. CASE precedence > 0
        <5>1. 1 \in 1 .. precedence
          BY <1>1, <4>2
        <5> QED  BY <1>2, <2>1, <3>1, <4>2, <5>1
      <4> QED  BY <1>1, <4>1, <4>2
    <3>2. CASE x \in {")", "]"}
      <4>1. 1 \in 1 .. precedence - 1
        BY <1>1, <1>2, <3>2
      <4> QED  BY <1>2, <2>1, <3>2, <4>1
    <3>3. CASE x \notin {"(", "[", ")", "]"}
      BY <1>2, <2>1, <3>3
    <3> QED  BY <3>1, <3>2, <3>3
  <2>4. ~(precedence' = 0 /\ x = "=")
    BY <1>2, <1>3, <2>1
  <2> QED  BY <1>3, <1>4, <1>6, <1>10, <2>2, <2>3, <2>4 DEF Outermost, Returned
<1> QED  BY <1>7, <1>8, <1>9, <1>10

Heaped ==
  /\ Ordered(node) /\ Aimed(node, {}) /\ Low(node, Returned) /\ Localized(node)
  /\ Returned => \A m \in Nodes : node[m].sym = "=" => node[m].priority # 2

Aiming ==
  root # NULL => \E s : /\ Chain(node, root, s) /\ Spined(s)
                        /\ Shaped(node, s, precedence, phase, LastSymbol, open)
                        /\ Targeted(node, s, precedence, target, LastSymbol)

LEMMA LowNode ==
  ASSUME NEW x \in Kinds, NEW p \in Nat, NEW c, c = 13 * p + Rank(x), c <= 2, x = "comma" => p > 0
  PROVE  (x = "=" /\ c = 2) \/ x = "return"
<1>1. Rank(x) \in 1 .. 13
  BY Ranks
<1>2. x \notin {"=", "return", "comma"} => Rank(x) > 2
  BY DEF Rank, Get_Precedence, Kinds, Operands, Callables, Binary, Scale
<1>3. Rank("=") = 2
  BY Ranks
<1>4. ASSUME NEW q \in Nat, NEW a \in 1 .. 13, 13 * q + a <= 2 PROVE q = 0 /\ a <= 2
  BY <1>4
<1>5. p = 0 /\ Rank(x) <= 2
  BY <1>1, <1>4
<1>6. x \in {"=", "return", "comma"}
  BY <1>1, <1>2, <1>5
<1>7. x # "comma"
  BY <1>5
<1>8. x = "=" => c = 2
  BY <1>3, <1>5
<1> QED  BY <1>6, <1>7, <1>8

LEMMA PreparedHeap ==
  ASSUME NEW x, NEW n, NEW f, NEW s, NEW u, NEW k, TreeStep(x, n, f, s, u, k), Ordered(node), Aimed(node, {})
  PROVE  Ordered(f) /\ Aimed(f, {n})
<1>1. n \in Nodes /\ f \in NodesType /\ node \in NodesType /\ Loose(f, n) /\ \A m \in Nodes \ {n} : f[m] = node[m]
  BY DEF TreeStep, Prepared, Typed
<1>2. f[n].parent = NULL /\ \A m \in Nodes, i \in Slots : f[m].params[i] # n
  BY <1>1 DEF Loose
<1>3. node[n].sym = "none"
  <2>1. n > Len(symbols)
    BY StepFacts
  <2> QED  BY <1>1, <2>1, BlankIs DEF TreeStep, Built, Fits
<1>4. \A m \in Nodes : /\ node[m].parent # NULL => node[m].parent \in Nodes \ {n}
                       /\ node[m].params[0] # NULL => node[m].params[0] \in Nodes
  BY <1>1, <1>3, NodeFacts, Numbers DEF Ordered
<1>5. Ordered(f)
  BY <1>1, <1>2, <1>4 DEF Ordered
<1>6. Aimed(f, {n})
  <2>1. ASSUME NEW m \in Nodes \ {n}, f[m].sym = "="
        PROVE  /\ f[m].index = 1 /\ f[m].params[0] # NULL /\ f[f[m].params[0]].priority > f[m].priority
               /\ f[f[m].params[0]].sym = "local" \/ f[m].priority = 2
    <3>1. f[m] = node[m]
      BY <1>1
    <3>2. /\ node[m].index = 1 /\ node[m].params[0] # NULL /\ node[node[m].params[0]].priority > node[m].priority
          /\ node[node[m].params[0]].sym = "local" \/ node[m].priority = 2
      BY <2>1, <3>1 DEF Aimed
    <3>3. node[m].params[0] \in Nodes \ {n}
      BY <1>2, <1>4, <3>1, <3>2, Numbers
    <3>4. f[node[m].params[0]] = node[node[m].params[0]]
      BY <1>1, <3>3
    <3> QED  BY <3>1, <3>2, <3>4
  <2> QED  BY <2>1 DEF Aimed
<1> QED  BY <1>5, <1>6

LEMMA HeapedNode ==
  ASSUME Typed, Built, Reading, stage = "parse", Disciplined, Leafy(node, {}), Outermost, Heaped,
         NEW x \in Symbols, ReadSymbol(x), x \notin {"(", ")", "]"}, root # NULL,
         NEW n, n = Len(symbols) + 1,
         NEW s, Chain(node, root, s), Spined(s), Shaped(node, s, precedence, phase, LastSymbol, open),
         Targeted(node, s, precedence, target, LastSymbol)
  PROVE  /\ Ordered(node') /\ Aimed(node', {}) /\ Low(node', Returned')
         /\ \A m \in Nodes : node'[m].sym = "=" /\ node'[m].priority = 2 => ~Returned'
         /\ \E u : /\ Chain(node', root', u) /\ Spined(u)' /\ Shaped(node', u, precedence', phase', x, open')
                   /\ Targeted(node', u, precedence', target', x)
<1>0. Plain
  BY DEF Plain, Disciplined
<1>1. PICK f, u, k : TreeStep(x, n, f, s, u, k)
  BY StepExists
<1>2. /\ Added(f, node', root, s, u, k, n, x, precedence, phase, LastSymbol, open)
      /\ Becomes(x, precedence, phase, open, precedence', phase', open')
  BY <1>0, <1>1, StepAdds
<1>3. Ordered(f) /\ Aimed(f, {n})
  BY <1>1, PreparedHeap DEF Heaped
<1>4. Ordered(node')
  BY <1>2, <1>3, OrderedKept
<1>5. x = "comma" => precedence > 0 /\ TakenBy(f, s, precedence)
  <2>1. x = "comma" => precedence > 0 /\ precedence \in 1 .. precedence /\ open[precedence].kind \in {"call", "list"}
    BY <1>2 DEF Becomes
  <2> QED  BY <1>2, <2>1 DEF Added, Shaped, Takers
<1>6. /\ n \in Nodes /\ precedence \in Nat /\ f[n].sym = x /\ f[n].priority = 13 * precedence + Rank(x) /\ x \in Kinds
      /\ x # "return" /\ \A m \in Nodes \ {n} : f[m] = node[m]
      /\ \A m \in Nodes : node'[m].sym = f[m].sym /\ node'[m].priority = f[m].priority
      /\ \A i \in 1 .. Len(s) : f[s[i]] = node[s[i]]
  <2>1. n \in Nodes /\ precedence \in Nat /\ f[n].sym = x /\ f[n].priority = 13 * precedence + Rank(x) /\ x \in Kinds /\ x # "return"
    BY <1>2, AddedFacts DEF Added
  <2>2. \A m \in Nodes : node'[m].sym = f[m].sym /\ node'[m].priority = f[m].priority
    BY <1>1, StepFacts
  <2> QED  BY <1>1, <2>1, <2>2 DEF TreeStep, Prepared
<1>7. x = "=" => target /\ (precedence = 0 \/ LastSymbol = "local")
  BY ReadTarget
<1>8. Len(s) \in Nat /\ Len(s) > 0 /\ symbols # <<>>
  <2>1. s[1] \in Nodes /\ s[1] <= Len(symbols) /\ Len(s) \in Nat /\ Len(s) > 0 /\ Len(symbols) \in Nat
    BY <1>1, <1>2, AddedFacts, StepFacts
  <2>2. Len(symbols) > 0
    BY <2>1, Numbers
  <2> QED  BY <2>1, <2>2
<1>9. Targeted(f, s, precedence, target, LastSymbol)
  <2>1. Len(s) \in 1 .. Len(s) /\ \A i \in 1 .. Len(s) - 1 : i \in 1 .. Len(s)
    BY <1>8
  <2>2. f[s[Len(s)]] = node[s[Len(s)]] /\ \A i \in 1 .. Len(s) - 1 : f[s[i]] = node[s[i]]
    BY <1>6, <2>1
  <2> QED  BY <2>2 DEF Targeted
<1>10. x = "=" => Left(f, node', s, u, k, n) /\ (f[s[k]].sym = "local" \/ f[n].priority = 2)
  <2> SUFFICES ASSUME x = "=" PROVE Left(f, node', s, u, k, n) /\ (f[s[k]].sym = "local" \/ f[n].priority = 2)
    OBVIOUS
  <2>1. Left(f, node', s, u, k, n)
    BY <1>1, AssignmentLeft
  <2>2. CASE precedence = 0
    <3>1. f[n].priority = 2
      BY <1>6, <2>2, Ranks
    <3> QED  BY <2>1, <3>1
  <2>3. CASE LastSymbol = "local"
    BY <1>2, <1>7, <1>9, <2>1, <2>3, AssignsLocal
  <2> QED  BY <1>7, <2>2, <2>3
<1>11. Aimed(node', {})
  BY <1>2, <1>3, <1>5, <1>10, AimedKept
<1>12. Returned' <=> Returned
  BY <1>8, OutermostRead
<1>13. Low(node', Returned')
  <2>1. ASSUME NEW m \in Nodes, node'[m].sym # "none", node'[m].priority <= 2
        PROVE  (node'[m].sym = "=" /\ node'[m].priority = 2) \/ Returned
    <3>1. CASE m = n
      <4>1. PICK c : c = f[n].priority
        OBVIOUS
      <4>2. (x = "=" /\ c = 2) \/ x = "return"
        BY <1>5, <1>6, <2>1, <3>1, <4>1, LowNode
      <4> QED  BY <1>6, <3>1, <4>1, <4>2
    <3>2. CASE m # n
      BY <1>6, <2>1, <3>2 DEF Heaped, Low
    <3> QED  BY <3>1, <3>2
  <2> QED  BY <1>12, <2>1 DEF Low
<1>14. ASSUME NEW m \in Nodes, node'[m].sym = "=", node'[m].priority = 2 PROVE ~Returned'
  <2>1. CASE m # n
    BY <1>6, <1>12, <1>14, <2>1 DEF Heaped
  <2>2. CASE m = n
    <3>1. x = "=" /\ 13 * precedence + 2 = 2
      BY <1>6, <1>14, <2>2, Ranks
    <3>2. precedence = 0 /\ target
      BY <1>6, <1>7, <3>1
    <3> QED  BY <1>12, <3>2 DEF Outermost
  <2> QED  BY <2>1, <2>2
<1>15. Spined(u)' /\ Chain(node', root', u)
  BY <1>1, SpinedStep DEF TreeStep
<1>16. Shaped(node', u, precedence', phase', x, open')
  BY <1>2, ShapedComma, ShapedNode
<1>17. Targeted(node', u, precedence', target', x)
  <2>1. CASE x # "local"
    BY <2>1 DEF Targeted
  <2>2. CASE x = "local"
    <3>1. target' => LastSymbol \in {"=", "(", "[", "comma"}
      BY <1>8, <2>2, ReadTarget
    <3>2. precedence' = precedence
      BY <1>2, <2>2 DEF Becomes
    <3>3. PICK tg : tg = target'
      OBVIOUS
    <3>4. Targeted(node', u, precedence, tg, x)
      BY <1>2, <3>1, <3>3, TargetedStep
    <3> QED  BY <3>2, <3>3, <3>4
  <2> QED  BY <2>1, <2>2
<1> QED  BY <1>4, <1>11, <1>13, <1>14, <1>15, <1>16, <1>17

LEMMA HeapedFirst ==
  ASSUME Typed, Built, Reading, stage = "parse", Disciplined, Leafy(node, {}), Shape, Outermost, Heaped,
         NEW x \in Symbols, ReadSymbol(x), x \notin {"(", ")", "]"}, root = NULL, NEW n, n = Len(symbols) + 1
  PROVE  /\ Ordered(node') /\ Aimed(node', {}) /\ Low(node', Returned')
         /\ \A m \in Nodes : node'[m].sym = "=" /\ node'[m].priority = 2 => ~Returned'
         /\ Aiming'
<1>0. Plain
  BY DEF Plain, Disciplined
<1>1. /\ root' = n /\ n \in Nodes /\ node' \in NodesType /\ \A m \in Nodes \ {n} : node'[m] = node[m]
      /\ node'[n].sym = x /\ node'[n].priority = Get_Precedence(x) + 13 * precedence'
      /\ node'[n].params = [i \in Slots |-> NULL] /\ node'[n].parent = NULL
  <2>1. root' = n
    BY RootStep
  <2>5. n \in Nodes
    BY ReadFacts
  <2>4. \A m \in Nodes \ {n} : node'[m] = node[m]
    BY RootStep
  <2>3. node' \in NodesType
    BY RootStep
  <2>2. /\ node'[n].sym = x /\ node'[n].priority = Get_Precedence(x) + 13 * precedence'
        /\ node'[n].params = [i \in Slots |-> NULL] /\ node'[n].parent = NULL
    BY RootStep
  <2> QED  BY <2>1, <2>2, <2>3, <2>4, <2>5
<1>2. node \in NodesType /\ node[n].sym = "none" /\ Linked(node)
  <2>1. n > Len(symbols) /\ node \in NodesType
    BY <1>1 DEF Typed
  <2> QED  BY <1>1, <2>1, BlankIs DEF Built, Fits
<1>3. \A m \in Nodes : /\ node[m].parent # NULL => node[m].parent \in Nodes \ {n}
                       /\ node[m].params[0] # NULL => node[m].params[0] \in Nodes
  BY <1>2, NodeFacts, Numbers DEF Heaped, Ordered
<1>4. Ordered(node')
  <2>1. ASSUME NEW m \in Nodes, node'[m].parent # NULL
        PROVE  node'[node'[m].parent].sym # "none" /\ node'[node'[m].parent].priority <= node'[m].priority
    <3>1. m # n /\ node'[m] = node[m]
      BY <1>1, <2>1
    <3>2. node[m].parent \in Nodes \ {n} /\ node'[node[m].parent] = node[node[m].parent]
      BY <1>1, <1>3, <2>1, <3>1
    <3>3. node[node[m].parent].sym # "none" /\ node[node[m].parent].priority <= node[m].priority
      BY <2>1, <3>1 DEF Heaped, Ordered
    <3> QED  BY <3>1, <3>2, <3>3
  <2> QED  BY <2>1 DEF Ordered
<1>5. Starting /\ x \in Kinds /\ precedence \in Nat /\ precedence' \in Nat /\ x # "!=" /\ LastSymbol' = x
  BY <1>0, ReadFacts, ReadPhase DEF Shape
<1>6. x \notin {"=", "comma"} /\ (x = "return" => symbols = <<>>)
  BY <1>0, <1>5, ReadPhase DEF Starting, Ending
<1>7. ASSUME NEW m \in Nodes \ {n} PROVE node[m].params[0] # n
  <2>1. 0 \in Slots /\ n # NULL
    BY <1>1, Numbers
  <2>2. node[n].parent = NULL
    <3>1. n > Len(symbols)
      BY <1>1 DEF Typed
    <3> QED  BY <1>1, <3>1, BlankIs DEF Built, Fits
  <2> QED  BY <1>1, <1>2, <2>1, <2>2, Numbers DEF Linked
<1>8. Aimed(node', {})
  <2>1. ASSUME NEW m \in Nodes, node'[m].sym = "="
        PROVE  /\ node'[m].index = 1 /\ node'[m].params[0] # NULL /\ node'[node'[m].params[0]].priority > node'[m].priority
               /\ node'[node'[m].params[0]].sym = "local" \/ node'[m].priority = 2
    <3>1. m # n /\ node'[m] = node[m]
      BY <1>1, <1>6, <2>1
    <3>2. /\ node[m].index = 1 /\ node[m].params[0] # NULL /\ node[node[m].params[0]].priority > node[m].priority
          /\ node[node[m].params[0]].sym = "local" \/ node[m].priority = 2
      BY <2>1, <3>1 DEF Heaped, Aimed
    <3>3. node[m].params[0] \in Nodes \ {n}
      BY <1>3, <1>7, <3>1, <3>2
    <3>4. node'[node[m].params[0]] = node[node[m].params[0]]
      BY <1>1, <3>3
    <3> QED  BY <3>1, <3>2, <3>4
  <2> QED  BY <2>1 DEF Aimed
<1>9. (Returned => Returned') /\ (Returned' => Returned \/ x = "return") /\ (x = "return" => Returned')
  <2>1. (Returned => Returned') /\ (Returned' => Returned \/ (symbols = <<>> /\ x = "return"))
    BY OutermostRead
  <2>2. x = "return" => Returned'
    <3>1. symbols' = Append(symbols, x)
      BY ReadFacts
    <3>2. x = "return" => symbols' # <<>> /\ symbols'[1] = "return"
      BY <1>6, <3>1
    <3> QED  BY <3>2 DEF Returned
  <2> QED  BY <2>1, <2>2
<1>10. node'[n].priority <= 2 => x = "return"
  <2>1. CASE x = "["
    <3>1. precedence' = precedence + 1 /\ Get_Precedence(x) = -2
      BY <2>1, ReadFacts, Precedences
    <3> QED  BY <1>1, <1>5, <3>1
  <2>2. CASE x # "["
    <3>1. Get_Precedence(x) = Rank(x) /\ Rank(x) \in 1 .. 13
      BY <1>5, <2>2, Ranks DEF Rank
    <3>2. PICK c : c = node'[n].priority
      OBVIOUS
    <3>3. PICK p \in Nat : p = precedence'
      BY <1>5
    <3>4. c = 13 * p + Rank(x)
      BY <1>1, <3>1, <3>2, <3>3
    <3>5. c <= 2 => x = "return"
      BY <1>5, <1>6, <3>4, LowNode
    <3> QED  BY <3>2, <3>5
  <2> QED  BY <2>1, <2>2
<1>11. Low(node', Returned')
  <2>1. ASSUME NEW m \in Nodes, node'[m].sym # "none", node'[m].priority <= 2
        PROVE  (node'[m].sym = "=" /\ node'[m].priority = 2) \/ Returned'
    <3>1. CASE m = n
      BY <1>9, <1>10, <2>1, <3>1
    <3>2. CASE m # n
      BY <1>1, <1>9, <2>1, <3>2 DEF Heaped, Low
    <3> QED  BY <3>1, <3>2
  <2> QED  BY <2>1 DEF Low
<1>12. ASSUME NEW m \in Nodes, node'[m].sym = "=", node'[m].priority = 2 PROVE ~Returned'
  <2>1. m # n /\ node'[m] = node[m]
    BY <1>1, <1>6, <1>12
  <2>2. ~Returned
    BY <1>12, <2>1 DEF Heaped
  <2>3. x # "return"
    <3>1. symbols # <<>>
      <4>1. node[m] # Blank
        BY <1>12, <2>1, BlankIs
      <4>2. m <= Len(symbols) /\ m \in Nat /\ m > 0
        BY <2>1, <4>1, Numbers DEF Built, Fits, Typed
      <4> QED  BY <4>2
    <3> QED  BY <1>6, <3>1
  <2> QED  BY <1>9, <2>2, <2>3
<1>13. Aiming'
  <2>1. Shape'
    BY <1>0, ShapeFirst
  <2>2. PICK s : Chain(node', root', s) /\ Spined(s)' /\ Shaped(node', s, precedence', phase', LastSymbol', open')
    BY <1>1, <2>1, Numbers DEF Shape
  <2>3. Len(s) \in Nat /\ Len(s) > 0 /\ s[1] = n /\ \A i \in 1 .. Len(s) : s[i] \in Nodes
    BY <1>1, <2>2, ChainFacts DEF Chain
  <2>4. RightChild(node', n) = NULL
    <3>1. node'[n].index \in Slots
      BY <1>1, NodeFacts
    <3> QED  BY <1>1, <3>1 DEF RightChild
  <2>5. Len(s) = 1
    <3>1. Len(s) > 1 => 1 \in 1 .. Len(s) - 1 /\ 2 \in 1 .. Len(s)
      BY <2>3
    <3>2. Len(s) > 1 => RightChild(node', n) = s[2]
      <4>1. Len(s) > 1 => RightChild(node', s[1]) = s[1 + 1]
        BY <2>2, <3>1 DEF Chain
      <4> QED  BY <2>3, <4>1
    <3>3. Len(s) > 1 => s[2] # NULL
      BY <2>3, <3>1, Numbers
    <3>4. ~(Len(s) > 1)
      BY <2>4, <3>2, <3>3, Zenon
    <3>5. PICK l \in Nat : l = Len(s) /\ l > 0
      BY <2>3
    <3>6. ~(l > 1)
      BY <3>4, <3>5
    <3>7. l = 1
      BY <3>5, <3>6
    <3> QED  BY <3>5, <3>7
  <2>6. Targeted(node', s, precedence', target', x)
    <3>1. x = "local" => node'[s[Len(s)]].sym = "local"
      BY <1>1, <2>3, <2>5
    <3>2. \A i \in 1 .. Len(s) - 1 : FALSE
      BY <2>5
    <3> QED  BY <3>1, <3>2 DEF Targeted
  <2> QED  BY <1>5, <2>2, <2>6 DEF Aiming
<1> QED  BY <1>4, <1>8, <1>11, <1>12, <1>13

(* What is known of the tree of such a program.                            *)
HeapInv ==
  /\ FreedInv /\ Heaped
  /\ stage = "parse" => Aiming /\ Outermost /\ code.node = NULL

LEMMA HeapedRead ==
  ASSUME Disciplined, HeapInv, NEW x \in Symbols, ReadSymbol(x)
  PROVE  HeapInv'
<1>0. Plain
  BY DEF Plain, Disciplined
<1>1. /\ stage = "parse" /\ stage' = "parse" /\ code' = code
      /\ Typed /\ Built /\ Reading /\ Leafy(node, {}) /\ Shape /\ Outermost /\ Heaped /\ Aiming /\ code.node = NULL
  BY DEF HeapInv, FreedInv, TreeInv, IInv, ReadSymbol
<1>2. FreedInv' /\ Outermost'
  BY <1>0, <1>1, ReadFreed, OutermostRead DEF HeapInv
<1>3. Localized(node')
  BY <1>1, <1>2 DEF FreedInv, TreeInv, IInv, Reading, Unplaced
<1>4. LastSymbol' = x
  BY <1>0, <1>1, ReadPhase
<1>5. CASE x \in {"(", ")", "]"}
  <2>1. node' = node /\ root' = root
    BY <1>1, <1>5, BracketStep
  <2>2. Returned' <=> Returned
    BY <1>1, <1>5, OutermostRead
  <2>3. Heaped'
    BY <1>1, <1>3, <2>1, <2>2 DEF Heaped, Low
  <2>4. Shape'
    BY <1>1, <1>2 DEF FreedInv, TreeInv
  <2>5. Aiming'
    <3> SUFFICES ASSUME root' # NULL
                 PROVE  \E s : /\ Chain(node', root', s) /\ Spined(s)'
                               /\ Shaped(node', s, precedence', phase', LastSymbol', open')
                               /\ Targeted(node', s, precedence', target', LastSymbol')
      BY DEF Aiming
    <3>1. PICK s : Chain(node', root', s) /\ Spined(s)' /\ Shaped(node', s, precedence', phase', LastSymbol', open')
      BY <2>4 DEF Shape
    <3>2. Targeted(node', s, precedence', target', LastSymbol')
      BY <1>4, <1>5 DEF Targeted
    <3> QED  BY <3>1, <3>2
  <2> QED  BY <1>1, <1>2, <2>3, <2>5 DEF HeapInv
<1>6. CASE x \notin {"(", ")", "]"}
  <2>1. PICK n : n = Len(symbols) + 1
    OBVIOUS
  <2>2. /\ Ordered(node') /\ Aimed(node', {}) /\ Low(node', Returned')
        /\ \A m \in Nodes : node'[m].sym = "=" /\ node'[m].priority = 2 => ~Returned'
        /\ Aiming'
    <3>1. CASE root = NULL
      BY <1>1, <1>6, <2>1, <3>1, HeapedFirst
    <3>2. CASE root # NULL
      <4>1. PICK s : /\ Chain(node, root, s) /\ Spined(s) /\ Shaped(node, s, precedence, phase, LastSymbol, open)
                     /\ Targeted(node, s, precedence, target, LastSymbol)
        BY <1>1, <3>2 DEF Aiming
      <4>2. /\ Ordered(node') /\ Aimed(node', {}) /\ Low(node', Returned')
            /\ \A m \in Nodes : node'[m].sym = "=" /\ node'[m].priority = 2 => ~Returned'
            /\ \E u : /\ Chain(node', root', u) /\ Spined(u)' /\ Shaped(node', u, precedence', phase', x, open')
                      /\ Targeted(node', u, precedence', target', x)
        BY <1>1, <1>6, <2>1, <3>2, <4>1, HeapedNode
      <4> QED  BY <1>4, <4>2 DEF Aiming
    <3> QED  BY <3>1, <3>2
  <2>3. Heaped'
    BY <1>3, <2>2 DEF Heaped
  <2> QED  BY <1>1, <1>2, <2>2, <2>3 DEF HeapInv
<1> QED  BY <1>5, <1>6

BlankAll == Between /\ code.node = NULL

LEMMA BlankHeap == BlankAll => HeapInv
<1> SUFFICES ASSUME BlankAll PROVE HeapInv
  OBVIOUS
<1>1. /\ node = [n \in Nodes |-> Blank] /\ stage = "parse" /\ symbols = <<>> /\ precedence = 0 /\ root = NULL
      /\ code.node = NULL
  BY DEF BlankAll, Between
<1>2. \A m \in Nodes : node[m].sym = "none" /\ node[m].parent = NULL
  BY <1>1, BlankIs
<1>3. FreedInv
  BY BlankFreed DEF BlankAll
<1>4. ~Returned /\ LastSymbol = "none"
  BY <1>1 DEF Returned, LastSymbol
<1>5. Heaped
  BY <1>2, <1>4 DEF Heaped, Ordered, Aimed, Low, Localized
<1>6. Aiming /\ Outermost
  BY <1>1, <1>4 DEF Aiming, Outermost
<1> QED  BY <1>1, <1>3, <1>5, <1>6 DEF HeapInv

LEMMA EndHeap ==
  ASSUME HeapInv, EndStatement
  PROVE  HeapInv'
<1>1. Between'
  BY EndBetween DEF HeapInv, FreedInv, TreeInv
<1>2. code'.node = NULL
  BY DEF EndStatement, NoCode
<1>3. BlankAll'
  BY <1>1, <1>2 DEF BlankAll
<1>4. BlankAll' => HeapInv'
  BY BlankHeap, PTL
<1> QED  BY <1>3, <1>4

LEMMA NewLineHeap ==
  ASSUME Plain, HeapInv, NewLine
  PROVE  HeapInv'
<1>1. /\ stage = "parse" /\ stage' = "evaluate" /\ symbols' = symbols /\ node' = Reduce(node) /\ node \in NodesType
  BY DEF NewLine, HeapInv, FreedInv, TreeInv, IInv, Typed
<1>2. FreedInv' /\ Heaped
  BY NewLineFreed DEF HeapInv
<1>3. \A m \in Nodes : /\ node'[m].priority = node[m].priority /\ node'[m].parent = node[m].parent
                       /\ \/ node'[m] = node[m]
                          \/ node[m].sym \in {"!", "+", "*", "!="} /\ node'[m].sym = "const"
  BY <1>1, ReduceIs
<1>4. Returned' <=> Returned
  BY <1>1 DEF Returned
<1>5. \A m \in Nodes : /\ node[m].parent # NULL => node[m].parent \in Nodes
                       /\ node[m].params[0] # NULL => node[m].params[0] \in Nodes
  BY <1>1, NodeFacts, Numbers
<1>6. Ordered(node')
  BY <1>2, <1>3, <1>5 DEF Heaped, Ordered
<1>7. Aimed(node', {})
  <2>1. ASSUME NEW m \in Nodes, node'[m].sym = "="
        PROVE  /\ node'[m].index = 1 /\ node'[m].params[0] # NULL /\ node'[node'[m].params[0]].priority > node'[m].priority
               /\ node'[node'[m].params[0]].sym = "local" \/ node'[m].priority = 2
    <3>1. node'[m] = node[m]
      BY <1>3, <2>1
    <3>2. /\ node[m].index = 1 /\ node[m].params[0] # NULL /\ node[node[m].params[0]].priority > node[m].priority
          /\ node[node[m].params[0]].sym = "local" \/ node[m].priority = 2
      BY <1>2, <2>1, <3>1 DEF Heaped, Aimed
    <3>3. node[m].params[0] \in Nodes
      BY <1>5, <3>2
    <3>4. PICK c \in Nodes : c = node[m].params[0]
      BY <3>3
    <3>5. node'[c].priority = node[c].priority /\ (node[c].sym = "local" => node'[c].sym = "local")
      BY <1>3
    <3> QED  BY <3>1, <3>2, <3>4, <3>5
  <2> QED  BY <2>1 DEF Aimed
<1>8. Low(node', Returned')
  BY <1>2, <1>3, <1>4 DEF Heaped, Low
<1>9. Localized(node')
  BY <1>2, <1>3 DEF Heaped, Localized
<1>10. Returned' => \A m \in Nodes : node'[m].sym = "=" => node'[m].priority # 2
  BY <1>2, <1>3, <1>4 DEF Heaped
<1> QED  BY <1>1, <1>2, <1>6, <1>7, <1>8, <1>9, <1>10 DEF HeapInv, Heaped

LEMMA EvaluateHeap ==
  ASSUME HeapInv, NEW n \in todo, Evaluate(n), node[n].sym # "local"
  PROVE  HeapInv'
<1>1. stage = "evaluate" /\ stage' = stage /\ symbols' = symbols
  BY DEF Evaluate
<1>2. FreedInv' /\ IInv /\ node \in NodesType /\ Heaped
  BY <1>1, EvaluateFreed DEF HeapInv, FreedInv, TreeInv, IInv, Typed
<1>3. \A m \in Nodes : Kept(node'[m], node[m]) /\ (m # n /\ node[m].place # "const" => node'[m] = node[m])
  BY <1>2, EvaluateKeeps
<1>4. \A m \in Nodes : /\ node'[m].sym = node[m].sym /\ node'[m].priority = node[m].priority /\ node'[m].parent = node[m].parent
                       /\ node'[m].index = node[m].index /\ node'[m].params = node[m].params
  BY <1>3 DEF Kept
<1>5. \A m \in Nodes : /\ node[m].parent # NULL => node[m].parent \in Nodes
                       /\ node[m].params[0] # NULL => node[m].params[0] \in Nodes
  BY <1>2, NodeFacts, Numbers
<1>6. Ordered(node')
  BY <1>2, <1>4, <1>5 DEF Heaped, Ordered
<1>7. Aimed(node', {})
  BY <1>2, <1>4, <1>5 DEF Heaped, Aimed
<1>8. Returned' <=> Returned
  BY <1>1 DEF Returned
<1>9. Low(node', Returned')
  BY <1>2, <1>4, <1>8 DEF Heaped, Low
<1>10. Localized(node')
  <2>1. ASSUME NEW m \in Nodes, node'[m].sym = "local" PROVE node'[m].place = "local"
    <3>1. node[m].sym = "local" /\ m # n /\ node[m].place = "local"
      BY <1>2, <1>4, <2>1 DEF Heaped, Localized
    <3> QED  BY <1>3, <3>1
  <2> QED  BY <2>1 DEF Localized
<1>11. Returned' => \A m \in Nodes : node'[m].sym = "=" => node'[m].priority # 2
  BY <1>2, <1>4, <1>8 DEF Heaped
<1> QED  BY <1>1, <1>2, <1>6, <1>7, <1>9, <1>10, <1>11 DEF HeapInv, Heaped

---------------------------------------------------------------------------
(* Subtrees, and what is read once.                                        *)
LEMMA Upwards ==
  ASSUME NEW f \in NodesType, Linked(f), NEW t \in Nodes, NEW c \in Subtree(f, t), c # t
  PROVE  f[c].parent \in Subtree(f, t) /\ c \in Children(f, f[c].parent)
<1> DEFINE T == Subtree(f, t)
           S == {m \in T : m = t \/ (f[m].parent \in T /\ m \in Children(f, f[m].parent))}
<1>1. /\ T \in SUBSET Nodes /\ t \in T /\ \A m \in T : Children(f, m) \subseteq T
      /\ \A U \in SUBSET Nodes : t \in U /\ (\A m \in U : Children(f, m) \subseteq U) => T \subseteq U
  BY SubtreeFacts
<1> HIDE DEF T
<1>2. S \in SUBSET Nodes /\ t \in S
  BY <1>1
<1>3. ASSUME NEW m \in S, NEW k \in Children(f, m) PROVE k \in S
  <2>1. m \in T /\ m \in Nodes /\ k \in T
    BY <1>1
  <2>2. f[k].parent = m
    BY <2>1, ChildOf
  <2> QED  BY <2>1, <2>2
<1>4. T \subseteq S
  BY <1>1, <1>2, <1>3
<1> QED  BY <1>4 DEF T

LEMMA Deeper ==
  ASSUME NEW f \in NodesType, Linked(f), Ordered(f), NEW t \in Nodes, NEW c \in Subtree(f, t)
  PROVE  f[t].priority <= f[c].priority /\ (c # t => f[t].sym # "none")
<1> DEFINE T == Subtree(f, t)
           S == {m \in T : f[t].priority <= f[m].priority /\ (m # t => f[t].sym # "none")}
<1>1. /\ T \in SUBSET Nodes /\ t \in T /\ \A m \in T : Children(f, m) \subseteq T
      /\ \A U \in SUBSET Nodes : t \in U /\ (\A m \in U : Children(f, m) \subseteq U) => T \subseteq U
  BY SubtreeFacts
<1>2. \A m \in Nodes : f[m].priority \in Int
  BY NodeFacts
<1> HIDE DEF T
<1>3. S \in SUBSET Nodes /\ t \in S
  BY <1>1, <1>2
<1>4. ASSUME NEW m \in S, NEW k \in Children(f, m) PROVE k \in S
  <2>1. m \in T /\ m \in Nodes /\ k \in T /\ f[t].priority <= f[m].priority /\ (m # t => f[t].sym # "none")
    BY <1>1, <1>4
  <2>2. f[k].parent = m /\ k \in Nodes
    BY <2>1, ChildOf
  <2>3. f[k].parent # NULL
    BY <2>1, <2>2, Numbers
  <2>4. f[m].sym # "none" /\ f[m].priority <= f[k].priority
    BY <2>2, <2>3 DEF Ordered
  <2>5. f[t].priority <= f[k].priority
    BY <1>2, <2>1, <2>2, <2>4
  <2> QED  BY <2>1, <2>4, <2>5
<1>5. T \subseteq S
  BY <1>1, <1>3, <1>4
<1> QED  BY <1>5 DEF T

LEMMA Within ==
  ASSUME NEW f \in NodesType, NEW m \in Nodes, NEW c \in Children(f, m)
  PROVE  c \in Nodes /\ c # NULL /\ Subtree(f, c) \subseteq Subtree(f, m)
<1>1. c \in Nodes /\ c # NULL
  BY NodeFacts DEF Children
<1>2. /\ Subtree(f, m) \in SUBSET Nodes /\ c \in Subtree(f, m)
      /\ \A k \in Subtree(f, m) : Children(f, k) \subseteq Subtree(f, m)
  BY SubtreeFacts
<1> QED  BY <1>1, <1>2, SubtreeFacts

LEMMA Through ==
  ASSUME NEW f \in NodesType, NEW m \in Nodes, NEW n \in Subtree(f, m), n # m
  PROVE  \E c \in Children(f, m) : n \in Subtree(f, c)
<1> DEFINE S == {k \in Nodes : k = m \/ \E c \in Children(f, m) : k \in Subtree(f, c)}
<1>1. S \in SUBSET Nodes /\ m \in S
  OBVIOUS
<1>2. ASSUME NEW k \in S, NEW d \in Children(f, k) PROVE d \in S
  <2>1. k \in Nodes /\ d \in Nodes
    BY <1>2, Within
  <2>2. CASE k = m
    <3>1. d \in Subtree(f, d)
      BY <2>1, SubtreeFacts
    <3> QED  BY <1>2, <2>1, <2>2, <3>1
  <2>3. CASE k # m
    <3>1. PICK c \in Children(f, m) : k \in Subtree(f, c)
      BY <1>2, <2>3
    <3>2. c \in Nodes
      BY Within
    <3>3. d \in Subtree(f, c)
      BY <1>2, <3>1, <3>2, SubtreeFacts
    <3> QED  BY <2>1, <3>1, <3>3
  <2> QED  BY <2>2, <2>3
<1>3. Subtree(f, m) \subseteq S
  <2> HIDE DEF S
  <2> QED  BY <1>1, <1>2, SubtreeFacts
<1> QED  BY <1>3

(* Who reads a value: no value is read twice.                              *)
LEMMA ReaderIs ==
  ASSUME NEW f \in NodesType, Linked(f), Leafy(f, {}), NEW q \in Nodes, f[q].sym = "." => f[q].params[1] \in Nodes,
         NEW c, c \in ParametersOf(f, q)
  PROVE  c \in Nodes /\ \/ f[c].parent = q
                        \/ f[c].parent \in Nodes /\ f[f[c].parent].sym = "object" /\ f[f[c].parent].parent = q
<1>1. CASE c \in Children(f, q)
  <2>1. c \in Nodes /\ f[c].parent = q
    BY <1>1, ChildOf
  <2> QED  BY <2>1
<1>2. CASE c \notin Children(f, q)
  <2>1. f[q].sym = "." /\ c \in Children(f, f[q].params[1]) /\ f[q].params[1] \in Nodes
    BY <1>2 DEF ParametersOf
  <2>2. PICK o \in Nodes : o = f[q].params[1]
    BY <2>1
  <2>3. c \in Nodes /\ f[c].parent = o
    BY <2>1, <2>2, ChildOf
  <2>4. o # NULL
    BY <2>2, Numbers
  <2>5. f[o].sym = "object"
    BY <2>1, <2>2, <2>4 DEF Leafy
  <2>6. 1 \in Nodes
    BY Numbers
  <2>7. 1 \in Slots
    BY <2>6, Numbers
  <2>8. f[o].parent = q
    BY <2>2, <2>4, <2>7 DEF Linked
  <2> QED  BY <2>3, <2>5, <2>8
<1> QED  BY <1>1, <1>2

LEMMA ReadOnce ==
  ASSUME NEW f \in NodesType, Linked(f), Leafy(f, {}), NEW m \in Nodes, NEW n \in Nodes,
         f[m].sym = "." => f[m].params[1] \in Nodes, f[n].sym = "." => f[n].params[1] \in Nodes,
         f[m].sym # "object", f[n].sym # "object",
         NEW c, c \in ParametersOf(f, m), c \in ParametersOf(f, n)
  PROVE  m = n
BY ReaderIs

(* An assignment outside of brackets is below everything that is left.     *)
LEMMA AllAbove ==
  ASSUME NEW f \in NodesType, Linked(f), Below(f), Ordered(f), Aimed(f, {}),
         \A m \in Nodes : f[m].sym # "none" /\ f[m].priority <= 2 => f[m].sym = "=" /\ f[m].priority = 2,
         NEW r \in Nodes, NEW T, T \subseteq Subtree(f, r), NEW n \in T, f[n].sym = "=", f[n].priority = 2,
         Subtree(f, n) \cap T = {n},
         \A p \in Nodes : n \in Subtree(f, p) =>
           \A j \in {j \in Slots : n \in Subtree(f, f[p].params[j])} :
             \A i \in 0 .. j - 1 : Subtree(f, f[p].params[i]) \cap T = {},
         NEW q \in T
  PROVE  n \in Subtree(f, q)
<1> DEFINE D == {m \in Nodes : n \in Subtree(f, m) \/ Subtree(f, m) \cap T \subseteq {n}}
<1>1. Subtree(f, r) \in SUBSET Nodes /\ n \in Nodes /\ q \in Nodes /\ r \in D /\ D \in SUBSET Nodes
  BY SubtreeFacts
<1>2. ASSUME NEW m \in D, NEW c \in Children(f, m) PROVE c \in D
  <2>1. m \in Nodes /\ c \in Nodes /\ c # NULL /\ Subtree(f, c) \subseteq Subtree(f, m)
    BY <1>2, Within
  <2>2. CASE Subtree(f, m) \cap T \subseteq {n}
    BY <2>1, <2>2
  <2>3. CASE m = n
    BY <2>1, <2>3
  <2>4. CASE m # n /\ n \in Subtree(f, m)
    <3>1. f[m].priority <= f[n].priority /\ f[m].sym # "none"
      BY <1>1, <2>1, <2>4, Deeper
    <3>2. f[m].sym = "=" /\ f[m].priority = 2
      BY <2>1, <3>1
    <3>3. f[m].index = 1 /\ f[m].params[0] # NULL /\ f[f[m].params[0]].priority > f[m].priority
      BY <2>1, <3>2 DEF Aimed
    <3>4. PICK a : a = f[m].params[0]
      OBVIOUS
    <3>5. a \in Nodes /\ f[a].priority \in Int
      BY <2>1, <3>3, <3>4, Numbers, NodeFacts
    <3>6. n \notin Subtree(f, a)
      <4>1. n \in Subtree(f, a) => f[a].priority <= f[n].priority
        BY <3>5, Deeper
      <4> QED  BY <3>2, <3>3, <3>4, <3>5, <4>1
    <3>7. \A i \in Slots : f[m].params[i] # NULL => i = 0 \/ i = 1
      <4>1. ASSUME NEW i \in Slots, f[m].params[i] # NULL PROVE i = 0 \/ i = 1
        <5>1. ~(i > 1) /\ i \in Nat
          BY <2>1, <3>3, <4>1, Numbers DEF Below
        <5> QED  BY <5>1
      <4> QED  BY <4>1
    <3>8. \A d \in Children(f, m) : d = a \/ d = f[m].params[1]
      BY <3>4, <3>7 DEF Children
    <3>9. n \in Subtree(f, f[m].params[1])
      <4>1. PICK d \in Children(f, m) : n \in Subtree(f, d)
        BY <2>1, <2>4, Through
      <4> QED  BY <3>6, <3>8, <4>1
    <3>10. CASE c = f[m].params[1]
      BY <2>1, <3>9, <3>10
    <3>11. CASE c = a
      <4>1. 1 \in Nodes
        BY <2>1, Numbers
      <4>2. 1 \in {j \in Slots : n \in Subtree(f, f[m].params[j])}
        BY <3>9, <4>1, Numbers
      <4>3. 0 \in 0 .. 1 - 1
        OBVIOUS
      <4>4. Subtree(f, f[m].params[0]) \cap T = {}
        BY <2>1, <2>4, <4>2, <4>3
      <4> QED  BY <2>1, <3>4, <3>11, <4>4
    <3> QED  BY <3>8, <3>10, <3>11
  <2> QED  BY <1>2, <2>2, <2>3, <2>4
<1>3. Subtree(f, r) \subseteq D
  <2> HIDE DEF D
  <2> QED  BY <1>1, <1>2, SubtreeFacts
<1>4. q \in Subtree(f, q)
  BY <1>1, SubtreeFacts
<1>5. n \in Subtree(f, n)
  BY <1>1, SubtreeFacts
<1> QED  BY <1>3, <1>4, <1>5

(* What reads such an assignment is evaluated when all below it is.        *)
LEMMA PassingReader ==
  ASSUME NEW f \in NodesType, Linked(f), Leafy(f, {}), Ordered(f),
         \A m \in Nodes : f[m].sym # "none" /\ f[m].priority <= 2 => f[m].sym = "=" /\ f[m].priority = 2,
         NEW T, NEW n \in Nodes, Subtree(f, n) \cap T = {n},
         NEW m \in T, m \in Nodes, f[m].sym = "." => f[m].params[1] \in Nodes,
         NEW c, c \in ParametersOf(f, m), c # n, c \in Subtree(f, n), f[c].priority = 2
  PROVE  m = n /\ f[n].sym = "="
<1>1. /\ c \in Nodes
      /\ \/ f[c].parent = m
         \/ f[c].parent \in Nodes /\ f[f[c].parent].sym = "object" /\ f[f[c].parent].parent = m
  BY ReaderIs
<1>2. f[c].parent \in Subtree(f, n) /\ c \in Children(f, f[c].parent)
  BY Upwards
<1>3. f[c].parent \in Nodes /\ f[c].parent # NULL
  BY <1>2, SubtreeFacts, Numbers
<1>4. f[f[c].parent].sym # "none" /\ f[f[c].parent].priority <= 2
  BY <1>1, <1>3 DEF Ordered
<1>5. f[f[c].parent].sym = "="
  BY <1>3, <1>4
<1>6. f[c].parent = m
  BY <1>1, <1>5
<1> QED  BY <1>2, <1>5, <1>6

(* The values of parameters stay in their registers.  An assignment stands *)
(* for a register that was cleared only if all that is left to do is above *)
(* it.                                                                     *)
Passing(f, c, T) == f[c].sym = "=" /\ f[c].priority = 2 /\ \A q \in T : c \in Subtree(f, q)

HeldBy(f, M, T) ==
  \A m \in T : \A c \in ParametersOf(f, m) : InRegister(M, c) =>
    /\ M.holds[M.node[c].reg] = c
    /\ InUse(M, M.node[c].reg) \/ Passing(f, c, T)

(* The operation n of T is evaluated: the machine M becomes A when its     *)
(* parameters are mapped, B when they are cleared, and X with its result.  *)
Evaluates(f, M, A, B, X, T, n) ==
  /\ f \in NodesType /\ Fit(M) /\ M.node = f /\ T \in SUBSET Nodes /\ n \in T
  /\ Fit(A) /\ Moved(M, A, ParametersOf(f, n)) /\ ParametersOf(f, n) \in SUBSET Nodes
  /\ Fit(B) /\ B.node = A.node /\ B.holds = A.holds
  /\ \A q \in Nat : InUse(A, q) /\ ~ (\E c \in ParametersOf(f, n) : InRegister(A, c) /\ A.node[c].reg = q) => InUse(B, q)
  /\ B.node[n].place # "register" /\ f[n].place \notin {"register", "const"}
  /\ Fit(X) /\ \A m \in Nodes : Kept(X.node[m], B.node[m]) /\ (m # n => X.node[m] = B.node[m])
  /\ \/ \E r \in Nodes : Taken(B, X, n, r)
     \/ /\ f[n].sym = "=" /\ f[n].params[0] \in Nodes /\ f[n].params[0] \in ParametersOf(f, n)
        /\ Aliased(B, X, n, f[n].params[0])
  /\ \A m \in T, c \in Nodes : c \in ParametersOf(f, m) /\ c \in ParametersOf(f, n) => m = n
  /\ \A m \in T, c \in Nodes : c \in ParametersOf(f, m) /\ c # n /\ Passing(f, c, T) => m = n /\ f[n].sym = "="
  /\ f[n].sym = "=" => f[f[n].params[0]].place = "local" \/ Passing(f, n, T)

LEMMA ParameterTypes ==
  ASSUME NEW f \in NodesType, NEW m \in Nodes, f[m].sym = "." => f[m].params[1] \in Nodes
  PROVE  ParametersOf(f, m) \in SUBSET Nodes
BY NodeFacts DEF ParametersOf

(* What n reads are the values of its parameters.                          *)
LEMMA ValuesKept ==
  ASSUME NEW f, NEW M, NEW A, NEW B, NEW X, NEW T, NEW n, Evaluates(f, M, A, B, X, T, n), HeldBy(f, M, T),
         f[n].sym = "=" => A = M, NEW c \in ParametersOf(f, n)
  PROVE  Value(A, c) = c
<1>1. /\ c \in Nodes /\ n \in T /\ M.node = f /\ Fit(M) /\ Moved(M, A, ParametersOf(f, n))
      /\ f[n].place # "register"
  BY DEF Evaluates
<1>2. SUFFICES ASSUME InRegister(A, c) PROVE A.holds[A.node[c].reg] = c
  BY DEF Value
<1>3. CASE A.node[c] = M.node[c]
  <2>1. InRegister(M, c)
    BY <1>2, <1>3 DEF InRegister
  <2>2. M.holds[M.node[c].reg] = c /\ (InUse(M, M.node[c].reg) \/ Passing(f, c, T))
    BY <1>1, <2>1 DEF HeldBy
  <2>3. M.node[c].reg \in Nat
    BY <1>1, <2>1 DEF Fit, InRegister
  <2>4. CASE InUse(M, M.node[c].reg)
    BY <1>1, <1>3, <2>2, <2>3, <2>4 DEF Moved
  <2>5. CASE Passing(f, c, T)
    <3>1. c # n
      BY <1>1, <2>1 DEF InRegister
    <3>2. f[n].sym = "="
      BY <1>1, <2>5, <3>1 DEF Evaluates
    <3> QED  BY <2>2, <3>2
  <2> QED  BY <2>2, <2>4, <2>5
<1>4. CASE A.node[c] # M.node[c]
  BY <1>1, <1>4 DEF Moved
<1> QED  BY <1>3, <1>4

(* A parameter of another operation stays where it is.                     *)
LEMMA OthersHeld ==
  ASSUME NEW f, NEW M, NEW A, NEW B, NEW X, NEW T, NEW n, Evaluates(f, M, A, B, X, T, n), HeldBy(f, M, T),
         NEW m \in T \ {n}, NEW c \in ParametersOf(f, m), c \in Nodes, c # n, InRegister(X, c)
  PROVE  X.holds[X.node[c].reg] = c /\ InUse(X, X.node[c].reg)
<1>1. /\ n \in T /\ M.node = f /\ Fit(M) /\ Fit(A) /\ Fit(B) /\ Moved(M, A, ParametersOf(f, n))
      /\ B.node = A.node /\ B.holds = A.holds /\ X.node[c] = B.node[c]
      /\ ParametersOf(f, n) \in SUBSET Nodes
  BY DEF Evaluates
<1>2. c \notin ParametersOf(f, n)
  BY DEF Evaluates
<1>3. A.node[c] = M.node[c] /\ X.node[c] = M.node[c]
  BY <1>1, <1>2 DEF Moved
<1>4. PICK q : q = M.node[c].reg
  OBVIOUS
<1>5. InRegister(M, c)
  BY <1>3 DEF InRegister
<1>6. M.holds[q] = c /\ (InUse(M, q) \/ Passing(f, c, T))
  BY <1>4, <1>5 DEF HeldBy
<1>7. q \in Nat /\ q \in Nodes
  <2>1. q \in 1 .. Len(M.registers) /\ Len(M.registers) <= MaxSymbols /\ M.registers \in Seq(BOOLEAN)
    BY <1>1, <1>4, <1>5 DEF Fit, InRegister, Machines
  <2>2. Len(M.registers) \in Nat
    BY <2>1
  <2> QED  BY <2>1, <2>2, Numbers
<1>8. InUse(M, q)
  <2>1. ~Passing(f, c, T)
    BY DEF Evaluates
  <2> QED  BY <1>6, <2>1
<1>9. InUse(A, q) /\ A.holds[q] = c
  BY <1>1, <1>6, <1>7, <1>8 DEF Moved
<1>10. ASSUME NEW d \in ParametersOf(f, n), InRegister(A, d) PROVE A.node[d].reg # q
  <2>1. d \in Nodes /\ d # c
    BY <1>1, <1>2
  <2>2. CASE A.node[d] = M.node[d]
    <3>1. InRegister(M, d)
      BY <1>10, <2>2 DEF InRegister
    <3>2. M.holds[M.node[d].reg] = d
      BY <1>1, <3>1 DEF HeldBy
    <3> QED  BY <1>6, <2>1, <2>2, <3>2
  <2>3. CASE A.node[d] # M.node[d]
    <3>1. A.holds[A.node[d].reg] = d
      BY <1>1, <2>1, <2>3 DEF Moved
    <3> QED  BY <1>9, <2>1, <3>1
  <2> QED  BY <2>2, <2>3
<1>11. InUse(B, q) /\ B.holds[q] = c
  <2>1. ~ \E d \in ParametersOf(f, n) : InRegister(A, d) /\ A.node[d].reg = q
    BY <1>10
  <2>2. InUse(B, q)
    BY <1>7, <1>9, <2>1 DEF Evaluates
  <2> QED  BY <1>1, <1>9, <2>2
<1>12. B.holds \in [Nodes -> Nodes \cup {NULL}]
  BY <1>1 DEF Fit, Machines
<1>13. CASE \E r \in Nodes : Taken(B, X, n, r)
  <2>1. PICK r \in Nodes : Taken(B, X, n, r)
    BY <1>13
  <2>2. r # q
    BY <1>11, <2>1 DEF Taken
  <2>3. X.holds = [B.holds EXCEPT ![r] = n] /\ InUse(X, q)
    BY <1>7, <1>11, <2>1, <2>2 DEF Taken
  <2>4. X.holds[q] = c
    BY <1>7, <1>11, <1>12, <2>2, <2>3
  <2> QED  BY <1>3, <1>4, <2>3, <2>4
<1>14. CASE f[n].params[0] \in ParametersOf(f, n) /\ Aliased(B, X, n, f[n].params[0])
  <2>1. PICK to : to = f[n].params[0]
    OBVIOUS
  <2>2. InRegister(B, to) => B.node[to].reg # q
    BY <1>1, <1>10, <1>14, <2>1 DEF InRegister
  <2>3. /\ InUse(X, q)
        /\ X.holds = IF InRegister(B, to) THEN [B.holds EXCEPT ![B.node[to].reg] = n] ELSE B.holds
    BY <1>11, <1>14, <2>1 DEF Aliased, InUse
  <2>4. X.holds[q] = c
    <3>1. CASE InRegister(B, to)
      <4>1. PICK p : p = B.node[to].reg
        OBVIOUS
      <4>2. X.holds = [B.holds EXCEPT ![p] = n] /\ p # q
        BY <2>2, <2>3, <3>1, <4>1
      <4> QED  BY <1>7, <1>11, <1>12, <4>2
    <3>2. CASE ~InRegister(B, to)
      BY <1>11, <2>3, <3>2
    <3> QED  BY <3>1, <3>2
  <2> QED  BY <1>3, <1>4, <2>3, <2>4
<1> QED  BY <1>13, <1>14 DEF Evaluates

(* The result of n is in a register that holds it.                         *)
LEMMA ResultHeld ==
  ASSUME NEW f, NEW M, NEW A, NEW B, NEW X, NEW T, NEW n, Evaluates(f, M, A, B, X, T, n), InRegister(X, n)
  PROVE  X.holds[X.node[n].reg] = n /\ (InUse(X, X.node[n].reg) \/ Passing(f, n, T))
<1>1. /\ n \in Nodes /\ M.node = f /\ Fit(B) /\ Moved(M, A, ParametersOf(f, n)) /\ B.node = A.node
  BY DEF Evaluates
<1>2. B.holds \in [Nodes -> Nodes \cup {NULL}] /\ Len(B.registers) \in Nat /\ Len(B.registers) <= MaxSymbols
  <2>1. B.registers \in Seq(BOOLEAN)
    BY <1>1 DEF Fit, Machines
  <2> QED  BY <1>1, <2>1 DEF Fit, Machines
<1>3. CASE \E r \in Nodes : Taken(B, X, n, r)
  <2>1. PICK r \in Nodes : Taken(B, X, n, r)
    BY <1>3
  <2>2. X.holds = [B.holds EXCEPT ![r] = n] /\ InUse(X, r) /\ X.node[n].reg = r
    BY <2>1 DEF Taken
  <2> QED  BY <1>2, <2>2
<1>4. CASE f[n].sym = "=" /\ f[n].params[0] \in Nodes /\ Aliased(B, X, n, f[n].params[0])
  <2>1. PICK to \in Nodes : to = f[n].params[0]
    BY <1>4
  <2>2. InRegister(B, to) /\ X.node[n].reg = B.node[to].reg
    BY <1>4, <2>1 DEF Aliased, InRegister
  <2>3. PICK p : p = B.node[to].reg
    OBVIOUS
  <2>4. p \in Nodes
    <3>1. p \in 1 .. Len(B.registers)
      BY <1>1, <2>1, <2>2, <2>3 DEF Fit, InRegister
    <3> QED  BY <1>2, <3>1, Numbers
  <2>5. X.holds = [B.holds EXCEPT ![p] = n]
    BY <1>4, <2>1, <2>2, <2>3 DEF Aliased
  <2>6. X.holds[p] = n
    BY <1>2, <2>4, <2>5
  <2>7. f[to].place # "local"
    <3>1. f[to].place = "local" => A.node[to] = f[to]
      BY <1>1, <2>1 DEF Moved
    <3> QED  BY <1>1, <2>2, <3>1 DEF InRegister
  <2>8. Passing(f, n, T)
    BY <1>4, <2>1, <2>7 DEF Evaluates
  <2> QED  BY <2>2, <2>3, <2>6, <2>8
<1> QED  BY <1>3, <1>4 DEF Evaluates

LEMMA HeldStep ==
  ASSUME NEW f, NEW M, NEW A, NEW B, NEW X, NEW T, NEW n, Evaluates(f, M, A, B, X, T, n), HeldBy(f, M, T),
         NEW g, g = X.node, \A m \in Nodes : Kept(g[m], f[m]),
         \A m \in T : ParametersOf(f, m) \in SUBSET Nodes /\ ParametersOf(g, m) = ParametersOf(f, m),
         \A q \in Nodes : Subtree(g, q) = Subtree(f, q)
  PROVE  HeldBy(g, X, T \ {n})
<1>1. T \in SUBSET Nodes
  BY DEF Evaluates
<1>2. SUFFICES ASSUME NEW m \in T \ {n}, NEW c \in ParametersOf(g, m), InRegister(X, c)
               PROVE  /\ X.holds[X.node[c].reg] = c
                      /\ InUse(X, X.node[c].reg) \/ Passing(g, c, T \ {n})
  BY DEF HeldBy
<1>3. c \in Nodes /\ c \in ParametersOf(f, m)
  BY <1>2
<1>4. CASE c # n
  BY <1>2, <1>3, <1>4, OthersHeld
<1>5. CASE c = n
  <2>1. X.holds[X.node[c].reg] = c /\ (InUse(X, X.node[c].reg) \/ Passing(f, c, T))
    BY <1>2, <1>5, ResultHeld
  <2>2. Passing(f, c, T) => Passing(g, c, T \ {n})
    BY <1>1, <1>3 DEF Passing, Kept
  <2> QED  BY <2>1, <2>2
<1> QED  BY <1>4, <1>5

---------------------------------------------------------------------------
(* The invariant of OperandsKept.                                          *)
Held == HeldBy(node, Machine, todo)
Operating == \A m \in todo : Evaluable(node[m].sym)
KeepInv == HeapInv /\ (stage = "evaluate" => Held /\ Operating /\ OperandsKept)

(* What is known of the tree and of what is left when n is next.           *)
LEMMA TreeFacts ==
  ASSUME KeepInv, NEW n \in todo, Evaluate(n)
  PROVE  /\ TreeInv /\ IInv /\ node \in NodesType /\ todo \in SUBSET Nodes /\ n \in Nodes
         /\ Linked(node) /\ Below(node) /\ Leafy(node, {}) /\ Heaped /\ Rooted /\ Held
         /\ Subtree(node, n) \cap todo = {n} /\ ParametersOf(node, n) \subseteq Subtree(node, n)
         /\ \A m \in todo : /\ node[m].sym \notin {"local", "const", "object"}
                            /\ node[m].sym = "." => node[m].params[1] \in Nodes
                            /\ ParametersOf(node, m) \in SUBSET Nodes
<1>1. stage = "evaluate" /\ IsNext(n)
  BY DEF Evaluate
<1>2. TreeInv /\ IInv /\ Heaped /\ Held /\ Operating
  BY <1>1 DEF KeepInv, HeapInv, FreedInv, TreeInv
<1>3. /\ node \in NodesType /\ todo \in SUBSET Nodes /\ n \in Nodes /\ Leafy(node, {}) /\ Rooted
      /\ Linked(node) /\ Below(node) /\ Called(node, {})
  BY <1>1, <1>2 DEF TreeInv, IInv, Typed, Placed, Settled
<1>4. ASSUME NEW m \in todo
      PROVE  /\ node[m].sym \notin {"local", "const", "object"}
             /\ node[m].sym = "." => node[m].params[1] \in Nodes
             /\ ParametersOf(node, m) \in SUBSET Nodes
  <2>1. m \in Nodes /\ node[m].sym \notin {"local", "const", "object"}
    BY <1>2, <1>3 DEF Operating, Evaluable
  <2>2. 1 \in Nodes
    BY <2>1, Numbers
  <2>3. 1 \in Slots
    BY <2>2, Numbers
  <2>4. node[m].sym = "." => node[m].params[1] \in Nodes
    BY <1>3, <2>1, <2>3, NodeFacts DEF Called
  <2>5. ParametersOf(node, m) \in SUBSET Nodes
    BY <1>3, <2>1, <2>4, ParameterTypes
  <2> QED  BY <2>1, <2>4, <2>5
<1>5. Subtree(node, n) \cap todo = {n} /\ Parameters(n) \subseteq Subtree(node, n)
  BY <1>1, <1>2, <1>4, NextAlone DEF Method
<1>6. Parameters(n) = ParametersOf(node, n)
  BY ParametersAre
<1> QED  BY <1>2, <1>3, <1>4, <1>5, <1>6

(* Once there is an assignment outside of brackets, only such assignments  *)
(* are so low.                                                             *)
LEMMA LowHere ==
  ASSUME Heaped, NEW c \in Nodes, node[c].sym = "=", node[c].priority = 2
  PROVE  \A m \in Nodes : node[m].sym # "none" /\ node[m].priority <= 2 => node[m].sym = "=" /\ node[m].priority = 2
BY DEF Heaped, Low

LEMMA PassingHere ==
  ASSUME KeepInv, NEW n \in todo, Evaluate(n), node[n].sym = "=", node[node[n].params[0]].place # "local"
  PROVE  Passing(node, n, todo)
<1>1. /\ node \in NodesType /\ todo \in SUBSET Nodes /\ n \in Nodes /\ Linked(node) /\ Below(node) /\ Heaped /\ Rooted
      /\ Subtree(node, n) \cap todo = {n}
  BY TreeFacts
<1>2. node[n].priority = 2
  <2>1. node[n].params[0] # NULL /\ (node[node[n].params[0]].sym = "local" \/ node[n].priority = 2)
    BY <1>1 DEF Heaped, Aimed
  <2>2. 0 \in Slots
    BY Numbers
  <2>3. node[n].params[0] \in Nodes
    BY <1>1, <2>1, <2>2, NodeFacts
  <2> QED  BY <1>1, <2>1, <2>3 DEF Heaped, Localized
<1>3. \A m \in Nodes : node[m].sym # "none" /\ node[m].priority <= 2 => node[m].sym = "=" /\ node[m].priority = 2
  BY <1>1, <1>2, LowHere
<1>4. \A p \in Nodes : n \in Subtree(node, p) =>
        \A j \in {j \in Slots : n \in Subtree(node, node[p].params[j])} :
          \A i \in 0 .. j - 1 : Subtree(node, node[p].params[i]) \cap todo = {}
  BY DEF Evaluate, IsNext
<1>5. root \in Nodes /\ todo \subseteq Subtree(node, root) /\ Ordered(node) /\ Aimed(node, {})
  BY <1>1 DEF Rooted, Heaped
<1>6. \A q \in todo : n \in Subtree(node, q)
  BY <1>1, <1>2, <1>3, <1>4, <1>5, AllAbove
<1> QED  BY <1>2, <1>6 DEF Passing

LEMMA EvaluatesHere ==
  ASSUME KeepInv, NEW n \in todo, Evaluate(n), NEW A, A = Mapped(Machine, n), NEW B, B = Clear_Registry(A, n),
         NEW X, X = Result(B, n)
  PROVE  Evaluates(node, Machine, A, B, X, todo, n)
<1>1. /\ TreeInv /\ IInv /\ node \in NodesType /\ todo \in SUBSET Nodes /\ n \in Nodes
      /\ Linked(node) /\ Leafy(node, {}) /\ Heaped /\ Ordered(node)
      /\ Subtree(node, n) \cap todo = {n} /\ ParametersOf(node, n) \subseteq Subtree(node, n)
      /\ \A m \in todo : /\ node[m].sym \notin {"local", "const", "object"}
                         /\ node[m].sym = "." => node[m].params[1] \in Nodes
                         /\ ParametersOf(node, m) \in SUBSET Nodes
  BY TreeFacts DEF Heaped
<1>2. /\ Fit(Machine) /\ node[n].place \notin {"register", "const"}
      /\ node[n].sym = "=" => node[n].params[0] \in Nodes
      /\ Fit(A) /\ Moved(Machine, A, Parameters(n)) /\ Parameters(n) \in SUBSET Nodes
      /\ Fit(B) /\ B.node = A.node /\ B.node[n].place # "register" /\ Fit(X)
  BY <1>1, EvaluateIs
<1>3. Parameters(n) = ParametersOf(node, n) /\ Machine.node = node
  BY ParametersAre DEF Machine
<1>4. /\ B.holds = A.holds
      /\ \A q \in Nat : InUse(A, q) /\ ~ (\E c \in ParametersOf(node, n) : InRegister(A, c) /\ A.node[c].reg = q) => InUse(B, q)
  <2>1. CASE node[n].sym = "class"
    BY <2>1 DEF Clear_Registry
  <2>2. CASE node[n].sym # "class"
    <3> Fit(A)
      BY <1>2
    <3>1. B.holds = A.holds
      BY ClearIs
    <3>2. \A q \in Nat : InUse(B, q) <=> InUse(A, q) /\ ~ \E c \in Parameters(n) : InRegister(A, c) /\ A.node[c].reg = q
      BY <2>2, ClearIs
    <3> QED  BY <1>3, <3>1, <3>2
  <2> QED  BY <2>1, <2>2
<1>5. \A m \in Nodes : Kept(X.node[m], B.node[m]) /\ (m # n => X.node[m] = B.node[m])
  BY <1>1, <1>2, ResultIs
<1>6. \/ \E r \in Nodes : Taken(B, X, n, r)
      \/ /\ node[n].sym = "=" /\ node[n].params[0] \in Nodes /\ node[n].params[0] \in ParametersOf(node, n)
         /\ Aliased(B, X, n, node[n].params[0])
  <2>1. \/ \E r \in Nodes : Taken(B, X, n, r)
        \/ node[n].sym = "=" /\ node[n].parent # NULL /\ Aliased(B, X, n, node[n].params[0])
    BY <1>1, <1>2, ResultIs
  <2>2. node[n].sym = "=" => node[n].params[0] \in ParametersOf(node, n)
    BY <1>2, Numbers DEF ParametersOf, Children
  <2> QED  BY <1>2, <2>1, <2>2
<1>7. \A m \in todo, c \in Nodes : c \in ParametersOf(node, m) /\ c \in ParametersOf(node, n) => m = n
  <2>1. ASSUME NEW m \in todo, NEW c, c \in ParametersOf(node, m), c \in ParametersOf(node, n) PROVE m = n
    <3>1. m \in Nodes /\ (node[m].sym = "." => node[m].params[1] \in Nodes) /\ (node[n].sym = "." => node[n].params[1] \in Nodes)
      BY <1>1
    <3>2. node[m].sym # "object" /\ node[n].sym # "object"
      BY <1>1
    <3> QED  BY <1>1, <2>1, <3>1, <3>2, ReadOnce
  <2> QED  BY <2>1
<1>8. ASSUME NEW m \in todo, NEW c \in Nodes, c \in ParametersOf(node, m), c # n, Passing(node, c, todo)
      PROVE  m = n /\ node[n].sym = "="
  <2>1. node[c].sym = "=" /\ node[c].priority = 2 /\ c \in Subtree(node, n)
    BY <1>8 DEF Passing
  <2>2. \A p \in Nodes : node[p].sym # "none" /\ node[p].priority <= 2 => node[p].sym = "=" /\ node[p].priority = 2
    BY <1>1, <1>8, <2>1, LowHere
  <2>3. m \in Nodes /\ (node[m].sym = "." => node[m].params[1] \in Nodes)
    BY <1>1
  <2> QED  BY <1>1, <1>8, <2>1, <2>2, <2>3, PassingReader
<1>9. node[n].sym = "=" => node[node[n].params[0]].place = "local" \/ Passing(node, n, todo)
  BY PassingHere
<1> QED  BY <1>1, <1>2, <1>3, <1>4, <1>5, <1>6, <1>7, <1>8, <1>9 DEF Evaluates

LEMMA ParameterNodes ==
  ASSUME NEW f \in NodesType, Called(f, {}), NEW m \in Nodes
  PROVE  ParametersOf(f, m) \in SUBSET Nodes
<1>1. 1 \in Nodes
  BY Numbers
<1>2. 1 \in Slots
  BY <1>1, Numbers
<1>3. f[m].sym = "." => f[m].params[1] \in Nodes
  BY <1>2, NodeFacts DEF Called
<1> QED  BY <1>3, ParameterTypes

LEMMA AssignmentMapped ==
  ASSUME NEW n, node[n].sym = "=", NEW M
  PROVE  Mapped(M, n) = M
BY DEF Mapped, Map_Parameters, Callables

LEMMA EvaluateKeep ==
  ASSUME KeepInv, NEW n \in todo, Evaluate(n)
  PROVE  KeepInv'
<1>1. PICK A : A = Mapped(Machine, n)
  OBVIOUS
<1>2. PICK B : B = Clear_Registry(A, n)
  OBVIOUS
<1>3. PICK X : X = Result(B, n)
  OBVIOUS
<1>4. /\ IInv /\ node \in NodesType /\ todo \in SUBSET Nodes /\ n \in Nodes /\ Held
      /\ \A m \in todo : /\ node[m].sym \notin {"local", "const", "object"}
                         /\ node[m].sym = "." => node[m].params[1] \in Nodes
                         /\ ParametersOf(node, m) \in SUBSET Nodes
  BY TreeFacts
<1>5. Evaluates(node, Machine, A, B, X, todo, n)
  BY <1>1, <1>2, <1>3, EvaluatesHere
<1>6. /\ node' = X.node /\ Machine' = X /\ todo' = todo \ {n} /\ Fit(X)
  BY <1>1, <1>2, <1>3, <1>4, EvaluateIs
<1>7. node' \in NodesType /\ \A m \in Nodes : Kept(node'[m], node[m])
  BY <1>4, <1>6, EvaluateKeeps DEF Fit, Machines
<1>8. \A m \in todo : ParametersOf(node', m) = ParametersOf(node, m)
  BY <1>4, <1>7, ParametersKept
<1>9. HeapInv'
  BY <1>4, EvaluateHeap DEF KeepInv
<1>10. Held'
  <2>1. PICK g : g = node'
    OBVIOUS
  <2>2. \A q \in Nodes : Subtree(g, q) = Subtree(node, q)
    BY <1>4, <1>7, <2>1, SubtreeKept
  <2>3. HeldBy(g, X, todo \ {n})
    BY <1>4, <1>5, <1>6, <1>7, <1>8, <2>1, <2>2, HeldStep DEF Held
  <2> QED  BY <1>6, <2>1, <2>3 DEF Held
<1>11. Operating'
  BY <1>4, <1>6, <1>7 DEF Operating, Evaluable, Kept
<1>12. OperandsKept'
  <2>1. PICK reads : reads = [c \in Parameters(n) |-> Value(A, c)]
    OBVIOUS
  <2>2. code' = [node |-> n, reads |-> reads]
    BY <1>1, <2>1 DEF Evaluate
  <2>3. code'.node = n /\ code'.reads = reads
    BY <2>2
  <2>4. ASSUME NEW c \in ParametersOf(node, n) PROVE reads[c] = c
    <3>1. node[n].sym = "=" => A = Machine
      BY <1>1, AssignmentMapped
    <3>2. Value(A, c) = c
      BY <1>4, <1>5, <3>1, ValuesKept DEF Held
    <3>3. c \in Parameters(n)
      BY ParametersAre
    <3> QED  BY <2>1, <3>2, <3>3
  <2>5. Parameters(code.node)' = ParametersOf(node, n)
    BY <1>8, <2>3 DEF Parameters, ParametersOf, Method
  <2> QED  BY <2>3, <2>4, <2>5 DEF OperandsKept
<1> QED  BY <1>9, <1>10, <1>11, <1>12 DEF KeepInv

LEMMA NewLineKeep ==
  ASSUME Plain, KeepInv, NewLine
  PROVE  KeepInv'
<1>1. /\ stage = "parse" /\ stage' = "evaluate" /\ node' = Reduce(node) /\ code' = code
      /\ todo' = {n \in Subtree(node', root) : Evaluable(node'[n].sym)}
  BY DEF NewLine
<1>2. HeapInv'
  BY NewLineHeap DEF KeepInv
<1>3. /\ node \in NodesType /\ Unplaced(node) /\ code.node = NULL
  BY <1>1 DEF KeepInv, HeapInv, FreedInv, TreeInv, IInv, Typed, Reading
<1>4. node' \in NodesType /\ Called(node', {}) /\ todo' \in SUBSET Nodes
  BY <1>1, <1>2 DEF HeapInv, FreedInv, TreeInv, IInv, Typed, Placed, Settled
<1>5. \A m \in Nodes : node'[m].place # "register"
  <2>1. PICK g : g = Reduce(node)
    OBVIOUS
  <2>2. \A m \in Nodes : g[m] = node[m] \/ g[m].place = "const"
    BY <1>3, <2>1, ReduceIs
  <2> QED  BY <1>1, <1>3, <2>1, <2>2 DEF Unplaced
<1>6. Held'
  <2>1. \A m \in todo' : ParametersOf(node', m) \in SUBSET Nodes
    BY <1>4, ParameterNodes
  <2>2. Machine'.node = node'
    BY DEF Machine
  <2>3. \A c \in Nodes : ~InRegister(Machine', c)
    BY <1>5, <2>2 DEF InRegister
  <2> QED  BY <2>1, <2>3 DEF Held, HeldBy
<1>7. Operating'
  BY <1>1 DEF Operating
<1>8. OperandsKept'
  BY <1>1, <1>3 DEF OperandsKept
<1> QED  BY <1>2, <1>6, <1>7, <1>8 DEF KeepInv

LEMMA NextKeep ==
  ASSUME Disciplined, KeepInv, [Next]_vars
  PROVE  KeepInv'
<1>1. Plain
  BY DEF Plain, Disciplined
<1>2. ASSUME NEW x \in Symbols, ReadSymbol(x) PROVE KeepInv'
  <2>1. stage' = "parse"
    BY <1>2 DEF ReadSymbol
  <2> QED  BY <1>2, <2>1, HeapedRead DEF KeepInv
<1>3. ASSUME EndStatement PROVE KeepInv'
  <2>1. stage' = "parse"
    BY <1>3 DEF EndStatement
  <2> QED  BY <1>3, <2>1, EndHeap DEF KeepInv
<1>4. ASSUME UNCHANGED vars PROVE KeepInv'
  <2>1. /\ node' = node /\ root' = root /\ stage' = stage /\ phase' = phase /\ precedence' = precedence /\ open' = open
        /\ symbols' = symbols /\ target' = target /\ todo' = todo /\ registers' = registers /\ holds' = holds /\ code' = code
    BY <1>4 DEF vars
  <2>2. FreedInv'
    BY <1>1, <1>4, NextFreed DEF KeepInv, HeapInv
  <2>3. Heaped => Heaped'
    BY <2>1 DEF Heaped, Returned
  <2>4. Aiming => Aiming'
    BY <2>1 DEF Aiming, Spined, LastSymbol
  <2>5. Outermost => Outermost'
    BY <2>1 DEF Outermost, Returned, LastSymbol
  <2>6. HeapInv'
    BY <2>1, <2>2, <2>3, <2>4, <2>5 DEF KeepInv, HeapInv
  <2>7. Held => Held'
    BY <2>1 DEF Held, Machine
  <2>8. (Operating => Operating') /\ (OperandsKept => OperandsKept')
    BY <2>1 DEF Operating, OperandsKept, Parameters, Method
  <2> QED  BY <2>1, <2>6, <2>7, <2>8 DEF KeepInv
<1> QED  BY <1>1, <1>2, <1>3, <1>4, NewLineKeep, EvaluateKeep DEF Next

(* The code of an operation reads the values of its own operands, in every *)
(* program that neither compares with !=, indexes the result of a method   *)
(* nor assigns to an element or an attribute inside a larger expression    *)
(* (Map_Parameters, Clear_Registry, Get_Open_Reg).                         *)
THEOREM OperandsAlwaysKept == Disciplined => (Spec => []OperandsKept)
<1>1. Init => BlankAll
  BY InitBetween DEF Init, NoCode, BlankAll
<1>2. Init => KeepInv
  <2> SUFFICES ASSUME Init PROVE KeepInv
    OBVIOUS
  <2>1. HeapInv
    BY <1>1, BlankHeap
  <2>2. stage = "parse"
    BY DEF Init
  <2> QED  BY <2>1, <2>2 DEF KeepInv
<1>3. Disciplined /\ KeepInv /\ [Next]_vars => KeepInv'
  BY NextKeep
<1>4. KeepInv => OperandsKept
  <2> SUFFICES ASSUME KeepInv PROVE OperandsKept
    OBVIOUS
  <2>1. stage \in {"parse", "evaluate"}
    BY DEF KeepInv, HeapInv, FreedInv, TreeInv, IInv, Typed
  <2>2. CASE stage = "parse"
    BY <2>2 DEF KeepInv, HeapInv, OperandsKept
  <2>3. CASE stage = "evaluate"
    BY <2>3 DEF KeepInv
  <2> QED  BY <2>1, <2>2, <2>3
<1> SUFFICES ASSUME Disciplined PROVE Spec => []OperandsKept
  OBVIOUS
<1>5. KeepInv /\ [Next]_vars => KeepInv'
  BY <1>3
<1> QED  BY <1>2, <1>4, <1>5, PTL DEF Spec

---------------------------------------------------------------------------
(* The symbols in the tree.  What an insertion changes of subtrees: the    *)
(* new node n comes below its parent q, above the operand C it takes.      *)
LEMMA SubtreeIs ==
  ASSUME NEW f \in NodesType, NEW m \in Nodes
  PROVE  Subtree(f, m) = {m} \cup UNION {Subtree(f, c) : c \in Children(f, m)}
<1>1. m \in Subtree(f, m)
  BY SubtreeFacts
<1> QED  BY <1>1, Through, Within

LEMMA Outside ==
  ASSUME NEW f \in NodesType, NEW n \in Nodes, \A m \in Nodes : n \notin Children(f, m), NEW x \in Nodes \ {n}
  PROVE  n \notin Subtree(f, x)
<1> DEFINE S == Nodes \ {n}
<1>1. S \in SUBSET Nodes /\ x \in S
  OBVIOUS
<1>2. \A m \in S : Children(f, m) \subseteq S
  BY NodeFacts
<1>3. Subtree(f, x) \subseteq S
  <2> HIDE DEF S
  <2> QED  BY <1>1, <1>2, SubtreeFacts
<1> QED  BY <1>3

LEMMA SubtreeSame ==
  ASSUME NEW f \in NodesType, NEW g \in NodesType, NEW n \in Nodes, \A m \in Nodes : n \notin Children(f, m),
         \A m \in Nodes \ {n} : Children(g, m) = Children(f, m), NEW x \in Nodes \ {n}
  PROVE  Subtree(g, x) = Subtree(f, x)
<1>1. n \notin Subtree(f, x) /\ n \notin Subtree(g, x)
  <2>1. \A y \in Nodes \ {n} : n \notin Subtree(f, y)
    BY Outside
  <2>2. Subtree(g, x) \subseteq Subtree(f, x)
    <3>1. Subtree(f, x) \in SUBSET Nodes /\ x \in Subtree(f, x) /\ n \notin Subtree(f, x)
      BY <2>1, SubtreeFacts
    <3>2. \A m \in Subtree(f, x) : Children(g, m) \subseteq Subtree(f, x)
      BY <3>1, SubtreeFacts
    <3> QED  BY <3>1, <3>2, SubtreeFacts
  <2> QED  BY <2>1, <2>2
<1>2. ASSUME NEW a \in NodesType, NEW b \in NodesType, n \notin Subtree(b, x),
             \A m \in Nodes \ {n} : Children(a, m) = Children(b, m)
      PROVE  Subtree(a, x) \subseteq Subtree(b, x)
  <2>1. Subtree(b, x) \in SUBSET Nodes /\ x \in Subtree(b, x)
    BY SubtreeFacts
  <2>2. \A m \in Subtree(b, x) : Children(a, m) \subseteq Subtree(b, x)
    BY <1>2, <2>1, SubtreeFacts
  <2> QED  BY <2>1, <2>2, SubtreeFacts
<1> QED  BY <1>1, <1>2

LEMMA SubtreeGrown ==
  ASSUME NEW f \in NodesType, NEW g \in NodesType, NEW n \in Nodes, \A m \in Nodes : n \notin Children(f, m),
         NEW q \in Nodes \ {n}, NEW C \in SUBSET Children(f, q),
         \A m \in Nodes \ {n, q} : Children(g, m) = Children(f, m),
         Children(g, n) = C, Children(g, q) = (Children(f, q) \ C) \cup {n},
         NEW x \in Nodes \ {n}
  PROVE  Subtree(g, x) = Subtree(f, x) \cup (IF q \in Subtree(f, x) THEN {n} ELSE {})
<1> DEFINE T == Subtree(f, x)
           S == T \cup (IF q \in T THEN {n} ELSE {})
<1>1. T \in SUBSET Nodes /\ x \in T /\ n \notin T /\ \A m \in T : Children(f, m) \subseteq T
  BY SubtreeFacts, Outside
<1>2. /\ Subtree(g, x) \in SUBSET Nodes /\ x \in Subtree(g, x)
      /\ \A m \in Subtree(g, x) : Children(g, m) \subseteq Subtree(g, x)
  BY SubtreeFacts
<1>3. Subtree(g, x) \subseteq S
  <2>1. S \in SUBSET Nodes /\ x \in S
    BY <1>1
  <2>2. ASSUME NEW m \in S PROVE Children(g, m) \subseteq S
    <3>1. CASE m = n
      BY <1>1, <2>2, <3>1
    <3>2. CASE m = q
      BY <1>1, <2>2, <3>2
    <3>3. CASE m \notin {n, q}
      <4>1. m \in T /\ m \in Nodes \ {n, q}
        BY <1>1, <2>2, <3>3
      <4> QED  BY <1>1, <4>1
    <3> QED  BY <3>1, <3>2, <3>3
  <2> HIDE DEF S
  <2> QED  BY <2>1, <2>2, SubtreeFacts
<1>4. T \subseteq Subtree(g, x)
  <2> DEFINE U == T \cap Subtree(g, x)
  <2>1. U \in SUBSET Nodes /\ x \in U
    BY <1>1, <1>2
  <2>2. ASSUME NEW m \in U PROVE Children(f, m) \subseteq U
    <3>1. m \in T /\ m \in Subtree(g, x) /\ m \in Nodes \ {n}
      BY <1>1, <2>2
    <3>2. CASE m # q
      BY <1>1, <1>2, <3>1, <3>2
    <3>3. CASE m = q
      <4>1. n \in Subtree(g, x)
        BY <1>2, <3>1, <3>3
      <4>2. C \subseteq Subtree(g, x) /\ Children(f, q) \ C \subseteq Subtree(g, x)
        BY <1>2, <3>1, <3>3, <4>1
      <4> QED  BY <1>1, <3>1, <3>3, <4>2
    <3> QED  BY <3>2, <3>3
  <2>3. T \subseteq U
    <3> HIDE DEF U
    <3> QED  BY <2>1, <2>2, SubtreeFacts
  <2> QED  BY <2>3
<1>5. q \in T => n \in Subtree(g, x)
  BY <1>2, <1>4
<1> QED  BY <1>3, <1>4, <1>5

LEMMA InsertionSubtrees ==
  ASSUME NEW f, NEW g, NEW r, NEW s, NEW u, NEW k, NEW n, Insertable(f, g, r, s, u, k, n)
  PROVE  /\ \A x \in Nodes \ {n} : n \notin Subtree(f, x)
         /\ Comma(f, g, s, u, k, n) => \A x \in Nodes : Subtree(g, x) = Subtree(f, x)
         /\ Right(f, g, s, u, k, n) =>
              /\ Subtree(g, n) = {n}
              /\ \A x \in Nodes \ {n} : Subtree(g, x) = Subtree(f, x) \cup (IF s[k] \in Subtree(f, x) THEN {n} ELSE {})
         /\ Left(f, g, s, u, k, n) =>
              /\ Subtree(g, n) = {n} \cup Subtree(g, s[k])
              /\ \A x \in Nodes \ {n} :
                   Subtree(g, x) = Subtree(f, x) \cup (IF k > 1 /\ s[k - 1] \in Subtree(f, x) THEN {n} ELSE {})
<1>1. /\ f \in NodesType /\ g \in NodesType /\ n \in Nodes /\ k \in 1 .. Len(s) /\ k \in Nat /\ s[k] \in Nodes \ {n}
      /\ k > 1 => s[k - 1] \in Nodes \ {n, s[k]}
  BY InsertionFacts
<1>2. Linked(f) /\ Loose(f, n)
  BY DEF Insertable
<1>3. Children(f, n) = {} /\ \A m \in Nodes : n \notin Children(f, m)
  BY <1>1, <1>2 DEF Loose, Children
<1>4. \A x \in Nodes \ {n} : n \notin Subtree(f, x)
  BY <1>1, <1>3, Outside
<1>5. ASSUME Comma(f, g, s, u, k, n), NEW x \in Nodes PROVE Subtree(g, x) = Subtree(f, x)
  <2>1. \A m \in Nodes : g[m].params = f[m].params
    BY <1>5, InsertionFields
  <2>2. \A m \in Nodes : Children(g, m) = Children(f, m)
    BY <2>1 DEF Children
  <2>3. CASE x # n
    BY <1>1, <1>3, <2>2, <2>3, SubtreeSame
  <2>4. CASE x = n
    <3>1. Subtree(f, n) = {n} /\ Subtree(g, n) = {n}
      BY <1>1, <1>3, <2>2, SubtreeIs
    <3> QED  BY <2>4, <3>1
  <2> QED  BY <2>3, <2>4
<1>6. ASSUME Right(f, g, s, u, k, n)
      PROVE  /\ Subtree(g, n) = {n}
             /\ \A x \in Nodes \ {n} : Subtree(g, x) = Subtree(f, x) \cup (IF s[k] \in Subtree(f, x) THEN {n} ELSE {})
  <2>1. PICK t \in Nodes \ {n} : t = s[k]
    BY <1>1
  <2>2. f[t].params[f[t].index] = NULL /\ f[t].index \in Slots /\ n # NULL
    BY <1>1, <1>6, <2>1, InsertionFields, NodeFacts, Numbers
  <2>3. \A m \in Nodes, j \in Slots : g[m].params[j] = IF m = t /\ j = f[m].index THEN n ELSE f[m].params[j]
    BY <1>6, <2>1, InsertionFields
  <2>4. \A m \in Nodes \ {t} : Children(g, m) = Children(f, m)
    BY <2>3 DEF Children
  <2>5. Children(g, t) = Children(f, t) \cup {n}
    BY <2>2, <2>3 DEF Children
  <2>6. Children(g, n) = {}
    BY <1>1, <1>3, <2>4
  <2>7. \A x \in Nodes \ {n} : Subtree(g, x) = Subtree(f, x) \cup (IF t \in Subtree(f, x) THEN {n} ELSE {})
    BY <1>1, <1>3, <2>4, <2>5, <2>6, SubtreeGrown
  <2>8. Subtree(g, n) = {n}
    BY <1>1, <2>6, SubtreeIs
  <2> QED  BY <2>1, <2>7, <2>8
<1>7. ASSUME Left(f, g, s, u, k, n)
      PROVE  /\ Subtree(g, n) = {n} \cup Subtree(g, s[k])
             /\ \A x \in Nodes \ {n} :
                   Subtree(g, x) = Subtree(f, x) \cup (IF k > 1 /\ s[k - 1] \in Subtree(f, x) THEN {n} ELSE {})
  <2>1. PICK t \in Nodes \ {n} : t = s[k]
    BY <1>1
  <2>2. \A m \in Nodes, j \in Slots : g[m].params[j] = IF m = n THEN IF j = 0 THEN t ELSE NULL
                                       ELSE IF k > 1 /\ m = s[k - 1] /\ j = f[m].index THEN n ELSE f[m].params[j]
    BY <1>7, <2>1, InsertionFields
  <2>3. Children(g, n) = {t}
    <3>1. 0 \in Slots /\ t # NULL
      BY <2>1, Numbers
    <3>2. \A j \in Slots : g[n].params[j] = IF j = 0 THEN t ELSE NULL
      BY <1>1, <2>2
    <3> QED  BY <3>1, <3>2 DEF Children
  <2>4. Subtree(g, n) = {n} \cup Subtree(g, t)
    BY <1>1, <2>3, SubtreeIs
  <2>5. CASE k = 1
    <3>1. \A m \in Nodes \ {n} : Children(g, m) = Children(f, m)
      BY <2>2, <2>5 DEF Children
    <3>2. \A x \in Nodes \ {n} : Subtree(g, x) = Subtree(f, x)
      BY <1>1, <1>3, <3>1, SubtreeSame
    <3> QED  BY <2>1, <2>4, <2>5, <3>2
  <2>6. CASE k > 1
    <3>1. PICK q \in Nodes \ {n} : q = s[k - 1]
      BY <1>1, <2>6
    <3>2. f[q].params[f[q].index] = t /\ f[q].index \in Slots /\ n # NULL
      BY <1>1, <1>7, <2>1, <2>6, <3>1, InsertionFields, NodeFacts, Numbers
    <3>3. \A j \in Slots : f[q].params[j] = t => j = f[q].index
      BY <1>2, <2>1, <3>1, <3>2, Numbers DEF Linked
    <3>4. \A m \in Nodes \ {n, q} : Children(g, m) = Children(f, m)
      BY <2>2, <3>1 DEF Children
    <3>5. \A j \in Slots : g[q].params[j] = IF j = f[q].index THEN n ELSE f[q].params[j]
      BY <2>2, <2>6, <3>1
    <3>6. Children(g, q) = (Children(f, q) \ {t}) \cup {n}
      BY <3>2, <3>3, <3>5 DEF Children
    <3>7. {t} \in SUBSET Children(f, q)
      BY <2>1, <3>2, Numbers DEF Children
    <3>8. PICK C \in SUBSET Children(f, q) : C = {t}
      BY <3>7
    <3>9. \A x \in Nodes \ {n} : Subtree(g, x) = Subtree(f, x) \cup (IF q \in Subtree(f, x) THEN {n} ELSE {})
      BY <1>1, <1>3, <2>3, <3>4, <3>6, <3>8, SubtreeGrown
    <3> QED  BY <2>1, <2>4, <2>6, <3>1, <3>9
  <2> QED  BY <1>1, <2>5, <2>6
<1> QED  BY <1>4, <1>5, <1>6, <1>7

(* What hangs from the spine: a slot that leads to a node of the spine is  *)
(* the last slot of the node before it.                                    *)
LEMMA OnSpine ==
  ASSUME NEW f \in NodesType, Linked(f), NEW r, NEW s, Chain(f, r, s), NEW h \in 1 .. Len(s),
         NEW d \in Nodes, s[h] \in Subtree(f, d)
  PROVE  \E i \in 1 .. h : d = s[i]
<1>1. Len(s) \in Nat /\ (\A i \in 1 .. Len(s) : s[i] \in Nodes) /\ \A i \in 2 .. Len(s) : f[s[i]].parent = s[i - 1]
  BY ChainFacts
<1>2. f[s[1]].parent = NULL
  BY DEF Chain
<1> DEFINE B == {i \in 1 .. h : s[i] \in Subtree(f, d)}
<1>3. PICK i \in B : \A y \in B : i <= y
  <2>1. B \in SUBSET Nat /\ h \in B
    BY <1>1
  <2> HIDE DEF B
  <2> QED  BY <2>1, LeastNumber
<1>4. SUFFICES ASSUME d # s[i] PROVE FALSE
  BY <1>3
<1>5. i \in 1 .. h /\ s[i] \in Subtree(f, d) /\ s[i] \in Nodes
  BY <1>1, <1>3
<1>6. f[s[i]].parent \in Subtree(f, d) /\ f[s[i]].parent \in Nodes
  BY <1>4, <1>5, Upwards, SubtreeFacts
<1>7. i # 1
  BY <1>2, <1>6, Numbers
<1>8. i - 1 \in 1 .. h /\ i \in 2 .. Len(s)
  BY <1>1, <1>5, <1>7
<1>9. s[i - 1] \in Subtree(f, d)
  BY <1>1, <1>6, <1>8
<1>10. i - 1 \in B
  BY <1>8, <1>9
<1> HIDE DEF B
<1> QED  BY <1>3, <1>5, <1>10

LEMMA SpineSlot ==
  ASSUME NEW f \in NodesType, Linked(f), NEW r, NEW s, Chain(f, r, s), NEW h \in 1 .. Len(s),
         NEW m \in Nodes, NEW j \in Slots, f[m].params[j] # NULL, s[h] \in Subtree(f, f[m].params[j])
  PROVE  j = f[m].index
<1>1. Len(s) \in Nat /\ (\A i \in 1 .. Len(s) : s[i] \in Nodes) /\ \A i \in 2 .. Len(s) : f[s[i]].parent = s[i - 1]
  BY ChainFacts
<1>2. PICK d \in Nodes : d = f[m].params[j]
  BY NodeFacts
<1>3. f[d].parent = m /\ \A i \in Slots : f[m].params[i] = d => i = j
  BY <1>2, Numbers DEF Linked
<1>4. PICK i \in 1 .. h : d = s[i]
  BY <1>2, OnSpine
<1>5. i # 1
  BY <1>3, <1>4, Numbers DEF Chain
<1>6. i \in 2 .. Len(s) /\ i - 1 \in 1 .. Len(s) - 1
  BY <1>1, <1>4, <1>5
<1>7. m = s[i - 1]
  BY <1>1, <1>3, <1>4, <1>6
<1>8. RightChild(f, s[i - 1]) = s[(i - 1) + 1]
  BY <1>6 DEF Chain
<1>9. f[m].params[f[m].index] = d /\ f[m].index \in Slots
  BY <1>1, <1>4, <1>6, <1>7, <1>8, NodeFacts DEF RightChild
<1> QED  BY <1>3, <1>9

(* The new node n below q, a node of the spine or NULL, with the operand o *)
(* that it takes, if any.                                                  *)
Grafted(f, g, q, o, n) ==
  /\ \A m \in Nodes : g[m].sym = f[m].sym /\ g[m].priority = f[m].priority
  /\ \A j \in Slots : g[n].params[j] = IF j = 0 THEN o ELSE NULL
  /\ \A m \in Nodes \ {n}, j \in Slots : g[m].params[j] = IF m = q /\ j = f[m].index THEN n ELSE f[m].params[j]
  /\ q # NULL => f[q].params[f[q].index] = o
  /\ Subtree(g, n) = {n} \cup Subtree(f, o) /\ Subtree(g, o) = Subtree(f, o)
  /\ \A x \in Nodes \ {n} : /\ n \notin Subtree(f, x)
                            /\ Subtree(g, x) = Subtree(f, x) \cup (IF q \in Subtree(f, x) THEN {n} ELSE {})

LEMMA RightGrafts ==
  ASSUME NEW f, NEW g, NEW r, NEW s, NEW u, NEW k, NEW n, Insertable(f, g, r, s, u, k, n), Right(f, g, s, u, k, n)
  PROVE  Grafted(f, g, s[k], NULL, n)
<1>1. f \in NodesType /\ n \in Nodes /\ k \in 1 .. Len(s) /\ s[k] \in Nodes \ {n} /\ 0 \in Slots
  BY InsertionFacts, Numbers
<1>2. Loose(f, n)
  BY DEF Insertable
<1>3. \A m \in Nodes : g[m].sym = f[m].sym /\ g[m].priority = f[m].priority
  BY InsertionFields DEF Same
<1>4. \A x \in Nodes, j \in Slots : g[x].params[j] = IF x = s[k] /\ j = f[x].index THEN n ELSE f[x].params[j]
  BY InsertionFields
<1>5. \A j \in Slots : g[n].params[j] = NULL
  BY <1>1, <1>2, <1>4 DEF Loose
<1>6. f[s[k]].params[f[s[k]].index] = NULL
  BY InsertionFields
<1>7. Subtree(f, NULL) = {} /\ Subtree(g, NULL) = {}
  BY DEF Subtree
<1>8. /\ Subtree(g, n) = {n}
      /\ \A x \in Nodes \ {n} : /\ n \notin Subtree(f, x)
                                /\ Subtree(g, x) = Subtree(f, x) \cup (IF s[k] \in Subtree(f, x) THEN {n} ELSE {})
  BY InsertionSubtrees
<1> QED  BY <1>3, <1>4, <1>5, <1>6, <1>7, <1>8 DEF Grafted

LEMMA LeftGrafts ==
  ASSUME NEW f, NEW g, NEW r, NEW s, NEW u, NEW k, NEW n, Insertable(f, g, r, s, u, k, n), Left(f, g, s, u, k, n),
         NEW q, q = IF k = 1 THEN NULL ELSE s[k - 1]
  PROVE  Grafted(f, g, q, s[k], n)
<1>1. /\ f \in NodesType /\ n \in Nodes /\ k \in 1 .. Len(s) /\ k \in Nat /\ Len(s) \in Nat /\ s[k] \in Nodes \ {n} /\ 0 \in Slots
      /\ k > 1 => s[k - 1] \in Nodes \ {n, s[k]}
  BY InsertionFacts, Numbers
<1>2. Linked(f) /\ Chain(f, r, s)
  BY DEF Insertable
<1>3. \A m \in Nodes : g[m].sym = f[m].sym /\ g[m].priority = f[m].priority
  BY InsertionFields DEF Same
<1>4. /\ k > 1 => f[s[k - 1]].params[f[s[k - 1]].index] = s[k]
      /\ \A x \in Nodes, j \in Slots : g[x].params[j] = IF x = n THEN IF j = 0 THEN s[k] ELSE NULL
                            ELSE IF k > 1 /\ x = s[k - 1] /\ j = f[x].index THEN n ELSE f[x].params[j]
  BY InsertionFields
<1>5. \A x \in Nodes : x = q <=> k > 1 /\ x = s[k - 1]
  BY <1>1, Numbers
<1>6. q # NULL => k > 1 /\ q = s[k - 1]
  BY <1>1
<1>7. \A x \in Nodes \ {n} : n \notin Subtree(f, x)
  BY InsertionSubtrees
<1>8. /\ Subtree(g, n) = {n} \cup Subtree(g, s[k])
      /\ \A x \in Nodes \ {n} : Subtree(g, x) = Subtree(f, x) \cup (IF k > 1 /\ s[k - 1] \in Subtree(f, x) THEN {n} ELSE {})
  BY InsertionSubtrees
<1>9. \A x \in Nodes : q \in Subtree(f, x) <=> k > 1 /\ s[k - 1] \in Subtree(f, x)
  <2>1. ASSUME NEW x \in Nodes PROVE NULL \notin Subtree(f, x)
    BY <1>1, SubtreeFacts, Numbers
  <2> QED  BY <1>1, <2>1
<1>10. ~ (k > 1 /\ s[k - 1] \in Subtree(f, s[k]))
  <2> SUFFICES ASSUME k > 1, s[k - 1] \in Subtree(f, s[k]) PROVE FALSE
    OBVIOUS
  <2>1. k - 1 \in 1 .. Len(s)
    BY <1>1
  <2>2. PICK h \in Nat : h = k - 1
    BY <1>1
  <2>3. PICK d \in Nodes : d = s[k]
    BY <1>1
  <2>4. h \in 1 .. Len(s) /\ s[h] \in Subtree(f, d)
    BY <2>1, <2>2, <2>3
  <2>5. PICK i \in 1 .. h : d = s[i]
    BY <1>1, <1>2, <2>4, OnSpine
  <2>6. i \in 1 .. Len(s) /\ i # k
    BY <1>1, <2>2, <2>5
  <2> QED  BY <1>1, <1>2, <2>3, <2>5, <2>6 DEF Chain
<1>11. Subtree(g, s[k]) = Subtree(f, s[k])
  BY <1>1, <1>8, <1>10
<1> QED  BY <1>1, <1>3, <1>4, <1>5, <1>6, <1>7, <1>8, <1>9, <1>11 DEF Grafted

(* The operands of the nodes stand in their order around them, those of I  *)
(* behind their first operand (TreeGroups).                                *)
Behind(f, I, m, i) ==
  LET c == f[m].params[i]
  IN c # NULL => /\ IF i = 0 /\ m \in I THEN Before(Subtree(f, c), {m}) ELSE Before({m}, Subtree(f, c))
                 /\ \A j \in 0 .. i - 1 : Before(Subtree(f, f[m].params[j]), Subtree(f, c))

Arranged(f, I) == \A m \in Nodes, i \in Slots : Behind(f, I, m, i)

(* What takes a first operand next is no assignment or ! and has none on   *)
(* its left.                                                               *)
Starts(f, I) == \A m \in Nodes : f[m].index = 0 => m \notin I /\ f[m].sym \notin {"=", "!"}

(* All that leads to other nodes, and where it leads, is before n.         *)
Older(f, n) == \A m \in Nodes, i \in Slots : f[m].params[i] # NULL => m < n /\ f[m].params[i] < n

LEMMA OlderSubtrees ==
  ASSUME NEW f \in NodesType, NEW n \in Nodes, Older(f, n), NEW x \in Nodes, x < n, NEW y \in Subtree(f, x)
  PROVE  y < n
<1> DEFINE S == {z \in Nodes : z < n}
<1>1. S \in SUBSET Nodes /\ x \in S
  OBVIOUS
<1>2. \A m \in S : Children(f, m) \subseteq S
  BY NodeFacts DEF Older, Children
<1>3. Subtree(f, x) \subseteq S
  <2> HIDE DEF S
  <2> QED  BY <1>1, <1>2, SubtreeFacts
<1> QED  BY <1>3

(* What is known of an insertion below q.                                  *)
Grafting(f, g, r, s, q, o, n) ==
  /\ f \in NodesType /\ g \in NodesType /\ Linked(f) /\ Below(f) /\ Chain(f, r, s) /\ n \in Nodes
  /\ q = NULL \/ (q # n /\ \E h \in 1 .. Len(s) : q = s[h])
  /\ o \in (Nodes \ {n}) \cup {NULL} /\ (q = NULL => o = r)
  /\ Grafted(f, g, q, o, n)

LEMMA GraftingFacts ==
  ASSUME NEW f, NEW g, NEW r, NEW s, NEW q, NEW o, NEW n, Grafting(f, g, r, s, q, o, n)
  PROVE  /\ q # NULL => q \in Nodes \ {n} /\ f[q].index \in Slots /\ f[q].params[f[q].index] = o
         /\ \A m \in Nodes, j \in Slots : f[m].params[j] # NULL /\ q \in Subtree(f, f[m].params[j]) => j = f[m].index
         /\ \A m \in Nodes, j \in Slots : f[m].params[j] = NULL => Subtree(f, f[m].params[j]) = {}
<1>1. f \in NodesType /\ Linked(f) /\ Chain(f, r, s) /\ (q = NULL \/ (q # n /\ \E h \in 1 .. Len(s) : q = s[h]))
  BY DEF Grafting
<1>2. \A i \in 1 .. Len(s) : s[i] \in Nodes
  BY <1>1, ChainFacts
<1>3. q # NULL => q \in Nodes \ {n} /\ f[q].index \in Slots /\ f[q].params[f[q].index] = o
  BY <1>1, <1>2, NodeFacts DEF Grafting, Grafted
<1>4. ASSUME NEW m \in Nodes, NEW j \in Slots, f[m].params[j] # NULL, q \in Subtree(f, f[m].params[j])
      PROVE  j = f[m].index
  <2>1. PICK d \in Nodes : d = f[m].params[j]
    BY <1>1, <1>4, NodeFacts
  <2>2. q # NULL
    BY <1>1, <1>4, <2>1, SubtreeFacts, Numbers
  <2>3. PICK h \in 1 .. Len(s) : q = s[h]
    BY <1>1, <2>2
  <2> QED  BY <1>1, <1>4, <2>3, SpineSlot
<1>5. Subtree(f, NULL) = {}
  BY DEF Subtree
<1> QED  BY <1>3, <1>4, <1>5

(* The subtrees of the slots of the nodes after an insertion.              *)
LEMMA SlotSubtrees ==
  ASSUME NEW f, NEW g, NEW r, NEW s, NEW q, NEW o, NEW n, Grafting(f, g, r, s, q, o, n),
         NEW m \in Nodes \ {n}, NEW j \in Slots
  PROVE  /\ j # f[m].index => g[m].params[j] = f[m].params[j]
         /\ g[m].params[j] = NULL => f[m].params[j] = NULL
         /\ n \notin Subtree(f, f[m].params[j])
         /\ \/ Subtree(g, g[m].params[j]) = Subtree(f, f[m].params[j])
            \/ j = f[m].index /\ Subtree(g, g[m].params[j]) = Subtree(f, f[m].params[j]) \cup {n}
<1>1. /\ f \in NodesType /\ n \in Nodes /\ n # NULL
      /\ g[m].params[j] = IF m = q /\ j = f[m].index THEN n ELSE f[m].params[j]
      /\ q # NULL => f[q].params[f[q].index] = o
      /\ Subtree(g, n) = {n} \cup Subtree(f, o)
      /\ \A x \in Nodes \ {n} : /\ n \notin Subtree(f, x)
                                /\ Subtree(g, x) = Subtree(f, x) \cup (IF q \in Subtree(f, x) THEN {n} ELSE {})
  BY Numbers DEF Grafting, Grafted
<1>2. /\ q # NULL => q \in Nodes \ {n}
      /\ f[m].params[j] # NULL /\ q \in Subtree(f, f[m].params[j]) => j = f[m].index
      /\ f[m].params[j] = NULL => Subtree(f, f[m].params[j]) = {}
  BY GraftingFacts
<1>3. f[m].params[j] \in (Nodes \ {n}) \cup {NULL}
  <2>1. f[m].params[j] \in Nodes \cup {NULL}
    BY <1>1, NodeFacts
  <2>2. f[m].params[j] # n
    <3>1. SUFFICES ASSUME f[m].params[j] = n PROVE FALSE
      OBVIOUS
    <3>2. n \in Children(f, m)
      BY <1>1, <3>1 DEF Children
    <3>3. n \in Subtree(f, m)
      BY <1>1, <3>2, SubtreeFacts
    <3> QED  BY <1>1, <3>3
  <2> QED  BY <2>1, <2>2
<1>4. n \notin Subtree(f, f[m].params[j])
  BY <1>1, <1>2, <1>3
<1>5. Subtree(g, NULL) = {} /\ Subtree(f, NULL) = {}
  BY DEF Subtree
<1>6. CASE m = q /\ j = f[m].index
  <2>1. g[m].params[j] = n /\ f[m].params[j] = o
    BY <1>1, <1>6, Numbers
  <2> QED  BY <1>1, <1>4, <1>6, <2>1
<1>7. CASE ~ (m = q /\ j = f[m].index)
  <2>1. g[m].params[j] = f[m].params[j]
    BY <1>1, <1>7
  <2> QED  BY <1>1, <1>2, <1>3, <1>4, <1>5, <2>1
<1> QED  BY <1>6, <1>7

LEMMA ArrangedSlot ==
  ASSUME NEW f, NEW g, NEW r, NEW s, NEW q, NEW o, NEW n, Grafting(f, g, r, s, q, o, n), Older(f, n),
         q # NULL => q < n,
         NEW I, Arranged(f, I), Starts(f, I), NEW m \in Nodes \ {n}, NEW i \in Slots
  PROVE  Behind(g, I, m, i)
<1>1. /\ f \in NodesType /\ g \in NodesType /\ Below(f) /\ n \in Nodes /\ n # NULL
      /\ g[m].params[i] = IF m = q /\ i = f[m].index THEN n ELSE f[m].params[i]
  BY Numbers DEF Grafting, Grafted
<1>2. f[m].index \in Slots /\ (\A j \in Slots : f[m].params[j] \in Nodes \cup {NULL}) /\ \A j \in 0 .. i - 1 : j \in Slots /\ j < i
  BY <1>1, NodeFacts, Numbers
<1>3. \A j \in Slots : \A y \in Subtree(f, f[m].params[j]) : y \in Nodes /\ y < n
  <2> TAKE j \in Slots
  <2>1. CASE f[m].params[j] = NULL
    BY <2>1 DEF Subtree
  <2>2. CASE f[m].params[j] # NULL
    <3>1. PICK d \in Nodes : d = f[m].params[j] /\ d < n
      BY <1>2, <2>2 DEF Older
    <3>2. \A y \in Subtree(f, d) : y \in Nodes /\ y < n
      BY <1>1, <3>1, OlderSubtrees, SubtreeFacts
    <3> QED  BY <3>1, <3>2
  <2> QED  BY <2>1, <2>2
<1>4. \A j \in Slots : \/ Subtree(g, g[m].params[j]) = Subtree(f, f[m].params[j])
                       \/ j = f[m].index /\ Subtree(g, g[m].params[j]) = Subtree(f, f[m].params[j]) \cup {n}
  BY SlotSubtrees
<1>5. Behind(f, I, m, i)
  BY DEF Arranged
<1> SUFFICES ASSUME g[m].params[i] # NULL
             PROVE  /\ IF i = 0 /\ m \in I THEN Before(Subtree(g, g[m].params[i]), {m}) ELSE Before({m}, Subtree(g, g[m].params[i]))
                    /\ \A j \in 0 .. i - 1 : Before(Subtree(g, g[m].params[j]), Subtree(g, g[m].params[i]))
  BY DEF Behind
<1>6. CASE i # f[m].index
  <2>1. f[m].params[i] # NULL /\ Subtree(g, g[m].params[i]) = Subtree(f, f[m].params[i])
    BY <1>1, <1>4, <1>6
  <2>2. ~ (i > f[m].index)
    BY <1>1, <2>1 DEF Below
  <2>3. \A j \in 0 .. i - 1 : j # f[m].index
    BY <1>2, <2>2
  <2>4. \A j \in 0 .. i - 1 : Subtree(g, g[m].params[j]) = Subtree(f, f[m].params[j])
    BY <1>2, <1>4, <2>3
  <2> QED  BY <1>5, <2>1, <2>4 DEF Behind
<1>7. CASE i = f[m].index
  <2>1. ~ (i = 0 /\ m \in I)
    BY <1>7 DEF Starts
  <2>2. m < n
    <3>1. CASE m = q
      BY <3>1, Numbers
    <3>2. CASE m # q
      BY <1>1, <3>2 DEF Older
    <3> QED  BY <3>1, <3>2
  <2>3. /\ Before({m}, Subtree(f, f[m].params[i]))
        /\ \A j \in 0 .. i - 1 : Before(Subtree(f, f[m].params[j]), Subtree(f, f[m].params[i]))
    <3>1. CASE f[m].params[i] = NULL
      BY <3>1 DEF Subtree, Before
    <3>2. CASE f[m].params[i] # NULL
      BY <1>5, <2>1, <3>2 DEF Behind
    <3> QED  BY <3>1, <3>2
  <2>4. Before({m}, Subtree(g, g[m].params[i]))
    BY <1>4, <2>2, <2>3 DEF Before
  <2>5. ASSUME NEW j \in 0 .. i - 1 PROVE Before(Subtree(g, g[m].params[j]), Subtree(g, g[m].params[i]))
    <3>1. j \in Slots /\ j # f[m].index
      BY <1>2, <1>7
    <3>2. Subtree(g, g[m].params[j]) = Subtree(f, f[m].params[j])
      BY <1>4, <3>1
    <3> QED  BY <1>3, <1>4, <2>3, <3>1, <3>2 DEF Before
  <2> QED  BY <2>1, <2>4, <2>5
<1> QED  BY <1>6, <1>7

LEMMA ArrangedGrafted ==
  ASSUME NEW f, NEW g, NEW r, NEW s, NEW q, NEW o, NEW n, Grafting(f, g, r, s, q, o, n), Older(f, n),
         q # NULL => q < n, r \in Nodes, r < n,
         NEW I, Arranged(f, I), Starts(f, I), NEW J, \A m \in Nodes \ {n} : m \in J <=> m \in I, o # NULL => n \in J
  PROVE  Arranged(g, J)
<1>1. /\ f \in NodesType /\ n \in Nodes /\ (\A j \in Slots : g[n].params[j] = IF j = 0 THEN o ELSE NULL)
      /\ o \in Nodes \cup {NULL} /\ (q = NULL => o = r) /\ (q # NULL => f[q].params[f[q].index] = o)
      /\ Subtree(g, o) = Subtree(f, o)
  BY DEF Grafting, Grafted
<1>2. ASSUME NEW m \in Nodes \ {n}, NEW i \in Slots PROVE Behind(g, J, m, i)
  <2>1. Behind(g, I, m, i)
    BY ArrangedSlot
  <2> QED  BY <2>1 DEF Behind
<1>3. ASSUME NEW i \in Slots, g[n].params[i] # NULL
      PROVE  /\ i = 0 /\ n \in J /\ Before(Subtree(g, g[n].params[i]), {n})
             /\ \A j \in 0 .. i - 1 : FALSE
  <2>1. i = 0 /\ g[n].params[i] = o /\ o # NULL /\ n \in J /\ o \in Nodes
    BY <1>1, <1>3
  <2>2. o < n
    <3>1. CASE q = NULL
      BY <1>1, <3>1
    <3>2. CASE q # NULL
      <4>1. q \in Nodes /\ f[q].index \in Slots /\ f[q].params[f[q].index] = o
        BY <3>2, GraftingFacts
      <4> QED  BY <2>1, <4>1 DEF Older
    <3> QED  BY <3>1, <3>2
  <2>3. \A y \in Subtree(f, o) : y < n
    BY <1>1, <2>1, <2>2, OlderSubtrees
  <2>4. Before(Subtree(g, g[n].params[i]), {n})
    BY <1>1, <2>1, <2>3 DEF Before
  <2> QED  BY <2>1, <2>4
<1>4. \A i \in Slots : Behind(g, J, n, i)
  BY <1>3 DEF Behind
<1> QED  BY <1>2, <1>4 DEF Arranged

(* The operands of a node bind stronger than it: by their priority or, if  *)
(* they are as strong, by their side.  Only the operand in front of an     *)
(* index can be outside of its brackets.                                   *)
Binds(f, I, m, i) ==
  LET c == f[m].params[i]
  IN c # NULL =>
       /\ \/ f[c].priority > f[m].priority
          \/ f[c].priority = f[m].priority /\ (i = 0 <=> f[m].sym \notin {"=", "!"})
       /\ ~ (i = 0 /\ m \in I) =>
            \A l \in Int : f[m].priority = 13 * l + Rank(f[m].sym) /\ Rank(f[m].sym) >= 11 => f[c].priority > 13 * l + 13

Bound(f, I) == \A m \in Nodes, i \in Slots : Binds(f, I, m, i)

(* The node n can come below q.                                            *)
Fastened(f, q, n) ==
  /\ \/ f[n].priority > f[q].priority
     \/ f[n].priority = f[q].priority /\ f[q].sym \in {"=", "!"} /\ f[q].index # 0
  /\ \A l \in Int : f[q].priority = 13 * l + Rank(f[q].sym) /\ Rank(f[q].sym) >= 11 => f[n].priority > 13 * l + 13

LEMMA BoundGrafted ==
  ASSUME NEW f, NEW g, NEW r, NEW s, NEW q, NEW o, NEW n, Grafting(f, g, r, s, q, o, n),
         NEW I, Bound(f, I), NEW J, \A m \in Nodes \ {n} : m \in J <=> m \in I,
         q # NULL => Fastened(f, q, n),
         o # NULL => /\ n \in J
                     /\ \/ f[o].priority > f[n].priority
                        \/ f[o].priority = f[n].priority /\ f[n].sym \notin {"=", "!"}
  PROVE  Bound(g, J)
<1>1. /\ f \in NodesType /\ n \in Nodes /\ (\A j \in Slots : g[n].params[j] = IF j = 0 THEN o ELSE NULL)
      /\ o \in Nodes \cup {NULL} /\ \A m \in Nodes : g[m].sym = f[m].sym /\ g[m].priority = f[m].priority
      /\ \A m \in Nodes \ {n}, j \in Slots : g[m].params[j] = IF m = q /\ j = f[m].index THEN n ELSE f[m].params[j]
  BY DEF Grafting, Grafted
<1>2. \A m \in Nodes, j \in Slots : f[m].params[j] \in Nodes \cup {NULL}
  BY <1>1, NodeFacts
<1>3. ASSUME NEW m \in Nodes \ {n}, NEW i \in Slots PROVE Binds(g, J, m, i)
  <2>1. CASE m = q /\ i = f[m].index
    <3>1. Fastened(f, m, n) /\ g[m].params[i] = n
      BY <1>1, <2>1, Numbers
    <3> QED  BY <1>1, <2>1, <3>1 DEF Fastened, Binds
  <2>2. CASE ~ (m = q /\ i = f[m].index)
    <3>1. g[m].params[i] = f[m].params[i]
      BY <1>1, <2>2
    <3>2. Binds(f, I, m, i)
      BY DEF Bound
    <3>3. f[m].params[i] \in Nodes \cup {NULL}
      BY <1>2
    <3> QED  BY <1>1, <3>1, <3>2, <3>3 DEF Binds
  <2> QED  BY <2>1, <2>2
<1>4. ASSUME NEW i \in Slots PROVE Binds(g, J, n, i)
  <2>1. CASE i = 0 /\ o # NULL
    <3>1. g[n].params[i] = o /\ o \in Nodes
      BY <1>1, <2>1
    <3> QED  BY <1>1, <2>1, <3>1 DEF Binds
  <2>2. CASE ~ (i = 0 /\ o # NULL)
    <3>1. g[n].params[i] = NULL
      BY <1>1, <2>2
    <3> QED  BY <3>1 DEF Binds
  <2> QED  BY <2>1, <2>2
<1> QED  BY <1>3, <1>4 DEF Bound

LEMMA RankOf ==
  ASSUME NEW f \in NodesType, Form(f), NEW m \in Nodes, f[m].sym # "none"
  PROVE  /\ f[m].sym \in Kinds /\ Rank(f[m].sym) \in 1 .. 13 /\ f[m].priority \in Int
         /\ \E l \in Int : f[m].priority = 13 * l + Rank(f[m].sym)
         /\ Rank(f[m].sym) = 9 => f[m].sym = "!"
         /\ Rank(f[m].sym) = 2 => f[m].sym = "="
<1>1. f[m].sym \in Kinds
  BY NodeFacts
<1>2. PICK l \in Nat : f[m].priority = Get_Precedence(f[m].sym) + 13 * l
  BY FormOf
<1>3. \E b \in Int : f[m].priority = 13 * b + Rank(f[m].sym)
  <2>1. CASE f[m].sym = "["
    <3>1. Get_Precedence(f[m].sym) = -2 /\ Rank(f[m].sym) = 11
      BY <2>1, Precedences, Ranks
    <3>2. f[m].priority = 13 * (l - 1) + Rank(f[m].sym) /\ l - 1 \in Int
      BY <1>2, <3>1
    <3> QED  BY <3>2
  <2>2. CASE f[m].sym # "["
    <3>1. Rank(f[m].sym) = Get_Precedence(f[m].sym) /\ Rank(f[m].sym) \in 1 .. 13
      BY <1>1, <2>2, Ranks DEF Rank
    <3>2. f[m].priority = 13 * l + Rank(f[m].sym) /\ l \in Int
      BY <1>2, <3>1
    <3> QED  BY <3>2
  <2> QED  BY <2>1, <2>2
<1>4. (Rank(f[m].sym) = 9 => f[m].sym = "!") /\ (Rank(f[m].sym) = 2 => f[m].sym = "=")
  BY <1>1 DEF Rank, Get_Precedence, Scale, Kinds, Operands, Callables, Binary
<1> QED  BY <1>1, <1>3, <1>4, FormOf, Ranks

(* The last node of the spine while an operand ends, and before the first  *)
(* operand of a call or a list.                                            *)
Filled(f, s, p, ph, o) ==
  /\ ph \in {"operator", "method"} => f[s[Len(s)]].priority >= 13 * p + 11
  /\ ph = "first" /\ o[p].kind \in {"call", "list"} => f[s[Len(s)]].priority >= 13 * p - 2

(* A symbol goes right where it starts an operand, and takes an operand    *)
(* where one ended.                                                        *)
LEMMA Sides ==
  ASSUME NEW f, NEW g, NEW r, NEW s, NEW u, NEW k, NEW n, NEW x, NEW p, NEW ph, NEW last, NEW o,
         Added(f, g, r, s, u, k, n, x, p, ph, last, o), x # "comma", Filled(f, s, p, ph, o)
  PROVE  /\ ~Comma(f, g, s, u, k, n)
         /\ Right(f, g, s, u, k, n) => ph \in {"operand", "first", "member"}
         /\ Left(f, g, s, u, k, n) => ph \in {"operator", "method"} /\ x \in {"+", "*", "=", ".", "["}
<1>1. /\ p \in Nat /\ Len(s) \in Nat /\ Len(s) > 0 /\ f[n].sym = x /\ f[n].priority = 13 * p + Rank(x) /\ Rank(x) \in 1 .. 13
      /\ (\A i \in 1 .. Len(s) : f[s[i]].priority \in Int) /\ Follows(x, ph, last)
      /\ x \in Kinds \ {"!=", "return", "(", ")", "]"}
  BY AddedFacts DEF Added
<1>2. ~Comma(f, g, s, u, k, n)
  BY <1>1 DEF Comma, TakesComma
<1>3. ph \in {"operand", "first", "member"} \/ (ph \in {"operator", "method"} /\ x \in {"+", "*", "=", ".", "["})
  BY <1>1 DEF Follows, Kinds, Binary
<1>4. ASSUME Right(f, g, s, u, k, n), ph \in {"operator", "method"}, x \in {"+", "*", "=", ".", "["} PROVE FALSE
  <2>1. k = Len(s) /\ GoesRight(f, s[k], n)
    BY <1>4 DEF Right
  <2>2. PICK b \in Int : b = f[s[Len(s)]].priority
    BY <1>1
  <2>3. b >= 13 * p + 11
    BY <1>4, <2>2 DEF Filled
  <2>4. Rank(x) <= 11 /\ (x = "=" => Rank(x) = 2)
    BY <1>4, Ranks
  <2>5. f[n].priority <= b /\ (x = "=" => f[n].priority # b)
    BY <1>1, <2>3, <2>4
  <2>6. f[n].priority > b \/ (x = "=" /\ f[n].priority = b)
    BY <1>1, <1>4, <2>1, <2>2 DEF GoesRight, R_Assoc
  <2>7. f[n].priority \in Int
    BY <1>1
  <2> QED  BY <2>2, <2>5, <2>6, <2>7
<1>5. Left(f, g, s, u, k, n) => ph \notin {"operand", "first", "member"}
  BY StartGoesRight
<1> QED  BY <1>2, <1>3, <1>4, <1>5

LEMMA RightFastens ==
  ASSUME NEW f, NEW g, NEW r, NEW s, NEW u, NEW k, NEW n, NEW x, NEW p, NEW ph, NEW last, NEW o,
         Added(f, g, r, s, u, k, n, x, p, ph, last, o), x # "comma", Filled(f, s, p, ph, o),
         NEW I, Starts(f, I), Right(f, g, s, u, k, n)
  PROVE  Fastened(f, s[k], n)
<1>1. /\ p \in Nat /\ Len(s) \in Nat /\ Len(s) > 0 /\ f[n].sym = x /\ f[n].priority = 13 * p + Rank(x) /\ Rank(x) \in 1 .. 13
      /\ (\A i \in 1 .. Len(s) : s[i] \in Nodes /\ f[s[i]].priority \in Int) /\ x \in Kinds \ {"!=", "return", "(", ")", "]"}
      /\ f \in NodesType /\ Form(f) /\ \A i \in 1 .. Len(s) : f[s[i]].sym # "none"
      /\ Follows(x, ph, last) /\ Bounded(f, s, p, ph, last)
  BY AddedFacts DEF Added, Insertable, Shaped
<1>2. k \in 1 .. Len(s) /\ GoesRight(f, s[k], n) /\ f[s[k]].priority <= f[n].priority
  <2>1. k \in 1 .. Len(s)
    BY <1>1 DEF Right
  <2>2. f[s[k]].priority <= f[n].priority
    BY <2>1, Sides, StartGoesRight
  <2> QED  BY <2>1, <2>2 DEF Right
<1>3. ph \in {"operand", "first", "member"}
  BY Sides
<1>4. PICK t \in Nodes : t = s[k]
  BY <1>1, <1>2
<1>5. /\ Rank(f[t].sym) \in 1 .. 13 /\ (Rank(f[t].sym) = 9 => f[t].sym = "!")
      /\ \E l \in Int : f[t].priority = 13 * l + Rank(f[t].sym)
  BY <1>1, <1>2, <1>4, RankOf
<1>6. f[n].priority > f[t].priority \/ (f[n].priority = f[t].priority /\ f[t].sym \in {"=", "!"} /\ f[t].index # 0)
  <2>1. PICK b \in Int, l \in Int, R \in 1 .. 13 : b = f[t].priority /\ R = Rank(f[t].sym) /\ b = 13 * l + R
    BY <1>1, <1>2, <1>4, <1>5
  <2>2. b <= 13 * p + Rank(x)
    BY <1>1, <1>2, <1>4, <2>1
  <2>3. CASE b = 13 * p + Rank(x)
    <3>1. x = "!"
      <4>1. f[n].priority = f[t].priority /\ f[n].priority \in Int
        BY <1>1, <2>1, <2>3
      <4>2. ~ (f[n].priority > f[t].priority)
        BY <4>1
      <4>3. x \in {"=", "!"}
        BY <1>1, <1>2, <1>4, <4>2 DEF GoesRight, R_Assoc
      <4>4. x # "="
        BY <1>1, <1>3 DEF Follows
      <4> QED  BY <4>3, <4>4
    <3>2. Rank(x) = 9
      BY <3>1, Ranks
    <3>3. R = 9
      BY <1>1, <2>1, <2>3, <3>2
    <3>4. f[t].sym = "!" /\ f[t].index # 0
      BY <1>5, <2>1, <3>3 DEF Starts
    <3> QED  BY <1>1, <2>1, <2>3, <3>4
  <2>4. CASE b # 13 * p + Rank(x)
    <3>1. PICK a \in Int : a = 13 * p + Rank(x)
      BY <1>1
    <3>2. b < a
      <4>1. b \in Int /\ b <= a /\ b # a
        BY <2>2, <2>4, <3>1
      <4> QED  BY <4>1
    <3> QED  BY <1>1, <2>1, <3>1, <3>2
  <2> QED  BY <2>3, <2>4
<1>7. ASSUME NEW l \in Int, f[t].priority = 13 * l + Rank(f[t].sym), Rank(f[t].sym) >= 11 PROVE f[n].priority > 13 * l + 13
  <2>1. Room(ph, last) \in Int /\ Room(ph, last) <= 10
    BY <1>3 DEF Room
  <2>2. f[t].priority <= 13 * p + Room(ph, last)
    BY <1>2, <1>1, <1>3, <1>4 DEF Bounded
  <2>3. PICK R \in 1 .. 13 : R = Rank(f[t].sym)
    BY <1>5
  <2>4. PICK room \in Int : room = Room(ph, last)
    BY <2>1
  <2>5. 13 * l + R <= 13 * p + room /\ R >= 11 /\ room <= 10
    BY <1>7, <2>1, <2>2, <2>3, <2>4
  <2>6. l < p
    BY <1>1, <2>5
  <2>7. 13 * p + Rank(x) > 13 * l + 13
    BY <1>1, <2>6
  <2> QED  BY <1>1, <2>7
<1> QED  BY <1>4, <1>6, <1>7 DEF Fastened

LEMMA LeftFastens ==
  ASSUME NEW f, NEW g, NEW r, NEW s, NEW u, NEW k, NEW n, NEW x, NEW p, NEW ph, NEW last, NEW o,
         Added(f, g, r, s, u, k, n, x, p, ph, last, o), x # "comma", Filled(f, s, p, ph, o),
         NEW I, Starts(f, I), Left(f, g, s, u, k, n)
  PROVE  /\ k > 1 => Fastened(f, s[k - 1], n)
         /\ f[s[k]].priority > f[n].priority \/ (f[s[k]].priority = f[n].priority /\ f[n].sym \notin {"=", "!"})
<1>1. /\ p \in Nat /\ Len(s) \in Nat /\ Len(s) > 0 /\ f[n].sym = x /\ f[n].priority = 13 * p + Rank(x) /\ Rank(x) \in 1 .. 13
      /\ (\A i \in 1 .. Len(s) : s[i] \in Nodes /\ f[s[i]].priority \in Int) /\ k \in 1 .. Len(s)
      /\ f \in NodesType /\ Form(f) /\ \A i \in 1 .. Len(s) : f[s[i]].sym # "none"
  BY AddedFacts DEF Added, Insertable
<1>2. x \in {"+", "*", "=", ".", "["} /\ Rank(x) <= 11 /\ (Rank(x) = 2 => x = "=") /\ (x = "=" => Rank(x) = 2)
  BY Sides, Ranks
<1>3. f[s[k]].priority > f[n].priority \/ (f[s[k]].priority = f[n].priority /\ f[n].sym \notin {"=", "!"})
  <2>1. ~GoesRight(f, s[k], n)
    BY DEF Left
  <2>2. PICK a \in Int, b \in Int : a = f[s[k]].priority /\ b = f[n].priority
    BY <1>1
  <2>3. ~ (b > a) /\ ~ (x = "=" /\ b = a)
    BY <1>1, <2>1, <2>2 DEF GoesRight, R_Assoc
  <2>4. a > b \/ (a = b /\ x # "=")
    BY <2>3
  <2> QED  BY <1>1, <1>2, <2>2, <2>4
<1>4. ASSUME k > 1 PROVE Fastened(f, s[k - 1], n)
  <2>1. k - 1 \in 1 .. Len(s) /\ GoesRight(f, s[k - 1], n)
    BY <1>1, <1>4, InsertionFacts DEF Added
  <2>2. PICK t \in Nodes : t = s[k - 1] /\ f[t].priority \in Int /\ f[t].sym # "none"
    BY <1>1, <2>1
  <2>3. /\ Rank(f[t].sym) \in 1 .. 13 /\ (Rank(f[t].sym) = 2 => f[t].sym = "=")
        /\ \E l \in Int : f[t].priority = 13 * l + Rank(f[t].sym)
    BY <1>1, <2>2, RankOf
  <2>4. PICK b \in Int, l \in Int, R \in 1 .. 13 : b = f[t].priority /\ R = Rank(f[t].sym) /\ b = 13 * l + R
    BY <2>2, <2>3
  <2>5. 13 * p + Rank(x) > b \/ (x = "=" /\ 13 * p + Rank(x) = b)
    BY <1>1, <1>2, <2>1, <2>2, <2>4 DEF GoesRight, R_Assoc
  <2>6. f[n].priority > f[t].priority \/ (f[n].priority = f[t].priority /\ f[t].sym \in {"=", "!"} /\ f[t].index # 0)
    <3>1. CASE 13 * p + Rank(x) > b
      BY <1>1, <2>4, <3>1
    <3>2. CASE x = "=" /\ 13 * p + Rank(x) = b
      <4>1. R = 2
        <5>1. 13 * p + 2 = 13 * l + R /\ p \in Int
          BY <1>1, <1>2, <2>4, <3>2, Ranks
        <5> QED  BY <5>1, <2>4
      <4>2. f[t].sym = "=" /\ f[t].index # 0
        BY <2>3, <2>4, <4>1 DEF Starts
      <4> QED  BY <1>1, <2>4, <3>2, <4>2
    <3> QED  BY <2>5, <3>1, <3>2
  <2>7. ASSUME NEW a \in Int, f[t].priority = 13 * a + Rank(f[t].sym), Rank(f[t].sym) >= 11 PROVE f[n].priority > 13 * a + 13
    <3>1. 13 * a + R = b /\ R >= 11
      BY <2>4, <2>7
    <3>2. 13 * p + Rank(x) > b
      <4>1. x = "=" => Rank(x) = 2
        BY <1>2
      <4>2. 13 * p + 2 # b
        BY <1>1, <3>1
      <4> QED  BY <2>5, <4>1, <4>2
    <3>3. a < p
      BY <1>1, <1>2, <3>1, <3>2
    <3>4. 13 * p + Rank(x) > 13 * a + 13
      BY <1>1, <3>3
    <3> QED  BY <1>1, <3>4
  <2> QED  BY <2>2, <2>6, <2>7 DEF Fastened
<1> QED  BY <1>3, <1>4

LEMMA StartsKept ==
  ASSUME NEW f, NEW g, NEW r, NEW s, NEW u, NEW k, NEW n, NEW x, NEW p, NEW ph, NEW last, NEW o,
         Added(f, g, r, s, u, k, n, x, p, ph, last, o), Filled(f, s, p, ph, o),
         NEW I, Starts(f, I), NEW J, \A m \in Nodes \ {n} : m \in J <=> m \in I,
         Right(f, g, s, u, k, n) => n \notin J
  PROVE  Starts(g, J)
<1>1. /\ f \in NodesType /\ k \in 1 .. Len(s) /\ s[k] \in Nodes \ {n} /\ n \in Nodes /\ f[n].sym = x
      /\ f[n].index = (IF x \in Callables THEN 0 ELSE 1) /\ Insertable(f, g, r, s, u, k, n) /\ x \in Kinds
  BY AddedFacts DEF Added, Insertable
<1>2. \A m \in Nodes : g[m].sym = f[m].sym
  BY <1>1, InsertionFields DEF Same
<1>3. CASE Comma(f, g, s, u, k, n)
  <2>1. \A m \in Nodes : g[m].index = IF m = s[k] THEN f[m].index + 1 ELSE f[m].index
    BY <1>1, <1>3, InsertionFields
  <2>2. x = "comma"
    BY <1>1, <1>3 DEF Comma, TakesComma
  <2>3. ASSUME NEW m \in Nodes, g[m].index = 0 PROVE m \notin J /\ g[m].sym \notin {"=", "!"}
    <3>1. f[m].index \in Nat
      BY <1>1, NodeFacts, Numbers
    <3>2. m # n
      BY <1>1, <2>1, <2>2, <2>3 DEF Callables
    <3>3. m # s[k]
      BY <2>1, <2>3, <3>1
    <3>4. f[m].index = 0
      BY <2>1, <2>3, <3>3
    <3> QED  BY <1>2, <3>2, <3>4 DEF Starts
  <2> QED  BY <2>3 DEF Starts
<1>4. CASE Right(f, g, s, u, k, n)
  <2>1. \A m \in Nodes : g[m].index = IF m = n /\ f[n].sym = "[" THEN 0 ELSE f[m].index
    BY <1>1, <1>4, InsertionFields
  <2>2. ASSUME NEW m \in Nodes \ {n}, g[m].index = 0 PROVE m \notin J /\ g[m].sym \notin {"=", "!"}
    <3>1. f[m].index = 0
      BY <2>1, <2>2
    <3> QED  BY <1>2, <3>1 DEF Starts
  <2>3. ASSUME g[n].index = 0 PROVE n \notin J /\ g[n].sym \notin {"=", "!"}
    <3>1. x \in Callables \cup {"["}
      BY <1>1, <2>1, <2>3
    <3> QED  BY <1>1, <1>2, <1>4, <3>1 DEF Callables
  <2> QED  BY <2>2, <2>3 DEF Starts
<1>5. CASE Left(f, g, s, u, k, n)
  <2>1. \A m \in Nodes : g[m].index = f[m].index
    BY <1>1, <1>5, InsertionFields
  <2>2. x # "comma" \/ x \notin Callables
    BY DEF Callables
  <2>3. x \notin Callables
    BY <1>5, <2>2, Sides DEF Callables
  <2>4. g[n].index = 1
    BY <1>1, <2>1, <2>3
  <2>5. ASSUME NEW m \in Nodes \ {n}, g[m].index = 0 PROVE m \notin J /\ g[m].sym \notin {"=", "!"}
    <3>1. f[m].index = 0
      BY <2>1, <2>5
    <3> QED  BY <1>2, <3>1 DEF Starts
  <2> QED  BY <2>4, <2>5 DEF Starts
<1> QED  BY <1>1, <1>3, <1>4, <1>5 DEF Insertable, Inserted

LEMMA FilledNode ==
  ASSUME NEW f, NEW g, NEW r, NEW s, NEW u, NEW k, NEW n, NEW x, NEW p, NEW ph, NEW last, NEW o, NEW p2, NEW ph2, NEW o2,
         Added(f, g, r, s, u, k, n, x, p, ph, last, o), Becomes(x, p, ph, o, p2, ph2, o2), Filled(f, s, p, ph, o)
  PROVE  Filled(g, u, p2, ph2, o2)
<1>1. /\ p \in Nat /\ Len(s) \in Nat /\ k \in 1 .. Len(s) /\ f[n].priority = 13 * p + Rank(x) /\ n \in Nodes
      /\ x \in Kinds \ {"!=", "return", "(", ")", "]"} /\ Follows(x, ph, last) /\ f[n].index = (IF x \in Callables THEN 0 ELSE 1)
      /\ Insertable(f, g, r, s, u, k, n)
  BY AddedFacts DEF Added
<1>2. g[n].priority = 13 * p + Rank(x)
  BY <1>1, InsertionFields DEF Same
<1>3. SUFFICES ASSUME x # "comma", x \notin Callables
               PROVE  Filled(g, u, p2, ph2, o2)
  BY DEF Becomes, Filled
<1>4. u[Len(u)] = n
  <2>1. CASE Right(f, g, s, u, k, n)
    BY <2>1 DEF Right
  <2>2. CASE Left(f, g, s, u, k, n)
    BY <1>1, <1>3, <2>2 DEF Left
  <2> QED  BY <1>1, <1>3, <2>1, <2>2, Sides DEF Insertable, Inserted
<1>5. ph2 \in {"operator", "method"} => x \in Operands \cup {"object"}
  BY <1>1, <1>3 DEF Becomes, Kinds, Binary
<1>6. ph2 = "first" => x = "["
  BY <1>1, <1>3 DEF Becomes, Kinds, Binary
<1>7. ph2 \in {"operator", "method"} => g[u[Len(u)]].priority >= 13 * p2 + 11
  <2> SUFFICES ASSUME ph2 \in {"operator", "method"} PROVE g[u[Len(u)]].priority >= 13 * p2 + 11
    OBVIOUS
  <2>1. Rank(x) >= 11 /\ Rank(x) \in Int
    BY <1>5, Ranks DEF Operands
  <2>2. p2 = p
    BY <1>5 DEF Becomes, Operands
  <2> QED  BY <1>1, <1>2, <1>4, <2>1, <2>2
<1>8. ph2 = "first" => g[u[Len(u)]].priority >= 13 * p2 - 2
  <2> SUFFICES ASSUME ph2 = "first" PROVE g[u[Len(u)]].priority >= 13 * p2 - 2
    OBVIOUS
  <2>1. Rank(x) = 11 /\ p2 = p + 1
    BY <1>6, Ranks DEF Becomes
  <2> QED  BY <1>1, <1>2, <1>4, <2>1
<1> QED  BY <1>7, <1>8 DEF Filled

LEMMA FilledRoot ==
  ASSUME NEW g, NEW n, NEW x \in Kinds \ {"!=", "object", "comma", "(", ")", "]"}, NEW p, NEW ph, NEW o, NEW p2, NEW ph2, NEW o2,
         g[n].priority = 13 * p + Rank(x), Becomes(x, p, ph, o, p2, ph2, o2), x = "return" => ph2 = "operand"
  PROVE  Filled(g, <<n>>, p2, ph2, o2)
<1>1. <<n>>[Len(<<n>>)] = n /\ p \in Nat
  BY DEF Becomes
<1>2. ph2 \in {"operator", "method"} => x \in Operands
  BY DEF Becomes, Kinds, Binary, Callables
<1>3. ph2 = "first" => x = "["
  BY DEF Becomes, Kinds, Binary, Callables
<1>4. ph2 \in {"operator", "method"} => g[n].priority >= 13 * p2 + 11
  <2> SUFFICES ASSUME ph2 \in {"operator", "method"} PROVE g[n].priority >= 13 * p2 + 11
    OBVIOUS
  <2>1. Rank(x) = 13 /\ p2 = p
    BY <1>2, Ranks DEF Becomes, Operands
  <2> QED  BY <1>1, <2>1
<1>5. ph2 = "first" => g[n].priority >= 13 * p2 - 2
  <2> SUFFICES ASSUME ph2 = "first" PROVE g[n].priority >= 13 * p2 - 2
    OBVIOUS
  <2>1. Rank(x) = 11 /\ p2 = p + 1
    BY <1>3, Ranks DEF Becomes
  <2> QED  BY <1>1, <2>1
<1> QED  BY <1>1, <1>4, <1>5 DEF Filled

LEMMA FilledBracket ==
  ASSUME NEW f, NEW s, f[s[Len(s)]].priority \in Int,
         NEW x \in {"(", ")", "]"}, NEW p, NEW ph, NEW o, NEW p2, NEW ph2, NEW o2,
         Bracketed(x, p, ph, o, p2, ph2, o2), Filled(f, s, p, ph, o), Ended(f[s[Len(s)]], p, ph)
  PROVE  Filled(f, s, p2, ph2, o2)
<1>1. PICK b \in Int : b = f[s[Len(s)]].priority
  OBVIOUS
<1>2. p \in Nat /\ p2 \in Nat
  BY DEF Bracketed
<1>3. CASE x = "("
  <2>1. ph2 \in {"operand", "first"} /\ p2 = p + 1
    BY <1>3 DEF Bracketed
  <2>2. ASSUME o2[p2].kind \in {"call", "list"} PROVE b >= 13 * p2 - 2
    <3>1. ph \in {"callee", "method"}
      BY <1>3, <2>2 DEF Bracketed
    <3>2. b >= 13 * p + 11
      BY <1>1, <1>2, <3>1 DEF Ended
    <3> QED  BY <1>2, <2>1, <3>2
  <2> QED  BY <1>1, <2>1, <2>2 DEF Filled
<1>4. CASE x \in {")", "]"}
  <2>1. ph2 = "operator" /\ p2 = p - 1 /\ (ph \in {"operator", "method"} \/ (ph = "first" /\ o[p].kind \in {"call", "list"}))
    BY <1>4 DEF Bracketed
  <2>2. b >= 13 * p + 11 \/ b >= 13 * p - 2
    BY <1>1, <2>1 DEF Filled
  <2>3. b >= 13 * p2 + 11
    BY <1>2, <2>1, <2>2
  <2> QED  BY <1>1, <2>1, <2>3 DEF Filled
<1> QED  BY <1>3, <1>4

LEMMA SpineInTree ==
  ASSUME NEW f \in NodesType, NEW r, NEW s, Chain(f, r, s), NEW h \in 1 .. Len(s)
  PROVE  s[h] \in Subtree(f, r)
<1>1. Len(s) \in Nat /\ Len(s) > 0 /\ r \in Nodes /\ s[1] = r
  BY ChainFacts DEF Chain
<1>2. Spine(f, s[1]) = {s[j] : j \in 1 .. Len(s)}
  <2>1. 1 \in 1 .. Len(s)
    BY <1>1
  <2> QED  BY <1>1, <2>1, ChainSpine
<1>3. Subtree(f, r) \in SUBSET Nodes /\ r \in Subtree(f, r) /\ \A m \in Subtree(f, r) : Children(f, m) \subseteq Subtree(f, r)
  BY <1>1, SubtreeFacts
<1>4. ASSUME NEW m \in Subtree(f, r), RightChild(f, m) # NULL PROVE RightChild(f, m) \in Subtree(f, r)
  <2>1. m \in Nodes /\ f[m].index \in Slots
    BY <1>3, NodeFacts
  <2>2. RightChild(f, m) \in Children(f, m)
    BY <1>4, <2>1 DEF RightChild, Children
  <2> QED  BY <1>3, <2>2
<1>5. Spine(f, r) \subseteq Subtree(f, r)
  BY <1>1, <1>3, <1>4, SpineFacts
<1> QED  BY <1>1, <1>2, <1>5

(* The tree after an insertion has the new node, if it is no comma.        *)
LEMMA WholeTree ==
  ASSUME NEW f, NEW g, NEW r, NEW s, NEW u, NEW k, NEW n, Insertable(f, g, r, s, u, k, n), NEW r2, Chain(g, r2, u)
  PROVE  /\ Comma(f, g, s, u, k, n) => Subtree(g, r2) = Subtree(f, r)
         /\ Right(f, g, s, u, k, n) \/ Left(f, g, s, u, k, n) => Subtree(g, r2) = Subtree(f, r) \cup {n}
<1>1. /\ f \in NodesType /\ k \in 1 .. Len(s) /\ k \in Nat /\ Len(s) \in Nat /\ Linked(f) /\ Chain(f, r, s) /\ n \in Nodes
      /\ (\A i \in 1 .. Len(s) : s[i] \in Nodes \ {n}) /\ r \in Nodes \ {n} /\ s[1] = r /\ u[1] = r2
  <2>1. /\ f \in NodesType /\ k \in 1 .. Len(s) /\ k \in Nat /\ Len(s) \in Nat /\ n \in Nodes /\ \A i \in 1 .. Len(s) : s[i] \in Nodes
    BY InsertionFacts
  <2>2. Linked(f) /\ Chain(f, r, s) /\ \A i \in 1 .. Len(s) : s[i] # n
    BY DEF Insertable
  <2>3. s[1] = r /\ u[1] = r2 /\ 1 \in 1 .. Len(s)
    BY <2>1, <2>2 DEF Chain
  <2> QED  BY <2>1, <2>2, <2>3
<1>2. CASE Comma(f, g, s, u, k, n)
  <2>1. r2 = r
    BY <1>1, <1>2 DEF Comma
  <2>2. ~Right(f, g, s, u, k, n) /\ ~Left(f, g, s, u, k, n)
    BY <1>2 DEF Comma, Right, Left
  <2> QED  BY <1>1, <1>2, <2>1, <2>2, InsertionSubtrees
<1>3. CASE Right(f, g, s, u, k, n)
  <2>1. r2 = r
    BY <1>1, <1>3 DEF Right
  <2>2. s[k] \in Subtree(f, r)
    BY <1>1, SpineInTree
  <2>3. ~Comma(f, g, s, u, k, n)
    BY <1>3 DEF Comma, Right
  <2> QED  BY <1>1, <1>3, <2>1, <2>2, <2>3, InsertionSubtrees
<1>4. CASE Left(f, g, s, u, k, n)
  <2>0. ~Comma(f, g, s, u, k, n)
    BY <1>4 DEF Comma, Left
  <2>1. CASE k = 1
    <3>1. r2 = n
      BY <1>1, <1>4, <2>1 DEF Left
    <3>2. Subtree(g, n) = {n} \cup Subtree(g, r) /\ Subtree(g, r) = Subtree(f, r)
      <4>1. /\ Subtree(g, n) = {n} \cup Subtree(g, s[k])
            /\ \A x \in Nodes \ {n} : Subtree(g, x) = Subtree(f, x) \cup (IF k > 1 /\ s[k - 1] \in Subtree(f, x) THEN {n} ELSE {})
        BY <1>4, InsertionSubtrees
      <4>2. s[k] = r /\ ~ (k > 1)
        BY <1>1, <2>1
      <4> QED  BY <1>1, <4>1, <4>2
    <3> QED  BY <2>0, <3>1, <3>2
  <2>2. CASE k > 1
    <3>1. r2 = r
      BY <1>1, <1>4, <2>2 DEF Left
    <3>2. s[k - 1] \in Subtree(f, r)
      <4>1. k - 1 \in 1 .. Len(s)
        BY <1>1, <2>2
      <4> QED  BY <1>1, <4>1, SpineInTree
    <3> QED  BY <1>1, <1>4, <2>0, <2>2, <3>1, <3>2, InsertionSubtrees
  <2> QED  BY <1>1, <2>1, <2>2
<1> QED  BY <1>2, <1>3, <1>4

(* An insertion keeps how the tree groups.                                 *)
Grouping(f, I) == Arranged(f, I) /\ Starts(f, I) /\ Bound(f, I)

LEMMA GroupingComma ==
  ASSUME NEW f, NEW g, NEW r, NEW s, NEW u, NEW k, NEW n, Insertable(f, g, r, s, u, k, n), Comma(f, g, s, u, k, n),
         NEW I, Arranged(f, I), Bound(f, I), NEW J, \A m \in Nodes \ {n} : m \in J <=> m \in I
  PROVE  Arranged(g, J) /\ Bound(g, J)
<1>1. f \in NodesType /\ Loose(f, n) /\ n \in Nodes
  BY DEF Insertable
<1>2. /\ \A m \in Nodes : g[m].params = f[m].params /\ Subtree(g, m) = Subtree(f, m)
      /\ \A m \in Nodes : g[m].sym = f[m].sym /\ g[m].priority = f[m].priority
  BY InsertionFields, InsertionSubtrees DEF Same
<1>3. \A i \in Slots : g[n].params[i] = NULL
  BY <1>1, <1>2 DEF Loose
<1>4. Subtree(g, NULL) = Subtree(f, NULL)
  BY DEF Subtree
<1>5. ASSUME NEW m \in Nodes, NEW i \in Slots PROVE Behind(g, J, m, i) /\ Binds(g, J, m, i)
  <2>1. CASE m = n
    BY <1>3, <2>1 DEF Behind, Binds
  <2>2. CASE m # n
    <3>1. Behind(f, I, m, i) /\ Binds(f, I, m, i)
      BY DEF Arranged, Bound
    <3>2. \A j \in 0 .. i : g[m].params[j] = f[m].params[j] /\ f[m].params[j] \in Nodes \cup {NULL}
      <4>1. \A j \in 0 .. i : j \in Slots
        BY Numbers
      <4> QED  BY <1>1, <1>2, <4>1, NodeFacts
    <3>3. \A j \in 0 .. i : Subtree(g, g[m].params[j]) = Subtree(f, f[m].params[j])
      BY <1>2, <1>4, <3>2
    <3>4. i \in 0 .. i /\ \A j \in 0 .. i - 1 : j \in 0 .. i
      BY Numbers
    <3>5. m \in J <=> m \in I
      BY <2>2
    <3>6. Behind(g, J, m, i)
      BY <3>1, <3>2, <3>3, <3>4, <3>5 DEF Behind
    <3>7. Binds(g, J, m, i)
      <4>1. g[m].params[i] = f[m].params[i] /\ f[m].params[i] \in Nodes \cup {NULL}
        BY <3>2, <3>4
      <4> QED  BY <1>2, <3>1, <3>5, <4>1 DEF Binds
    <3> QED  BY <3>6, <3>7
  <2> QED  BY <2>1, <2>2
<1> QED  BY <1>5 DEF Arranged, Bound

LEMMA GroupingRight ==
  ASSUME NEW f, NEW g, NEW r, NEW s, NEW u, NEW k, NEW n, NEW x, NEW p, NEW ph, NEW last, NEW o,
         Added(f, g, r, s, u, k, n, x, p, ph, last, o), x # "comma", Filled(f, s, p, ph, o), Right(f, g, s, u, k, n),
         Older(f, n), \A i \in 1 .. Len(s) : s[i] < n,
         NEW I, Grouping(f, I), NEW J, \A m \in Nodes \ {n} : m \in J <=> m \in I
  PROVE  Arranged(g, J) /\ Bound(g, J)
<1>1. /\ Insertable(f, g, r, s, u, k, n) /\ f \in NodesType /\ g \in NodesType /\ Linked(f) /\ Below(f) /\ Chain(f, r, s) /\ n \in Nodes
      /\ k \in 1 .. Len(s) /\ Len(s) > 0 /\ Len(s) \in Nat /\ s[k] \in Nodes \ {n} /\ s[k] # NULL
      /\ 1 \in 1 .. Len(s) /\ s[1] = r /\ r \in Nodes
  <2>1. /\ Insertable(f, g, r, s, u, k, n) /\ f \in NodesType /\ g \in NodesType /\ Linked(f) /\ Below(f) /\ Chain(f, r, s) /\ n \in Nodes
    BY DEF Added, Insertable
  <2>2. k \in 1 .. Len(s) /\ Len(s) > 0 /\ Len(s) \in Nat /\ \A i \in 1 .. Len(s) : s[i] \in Nodes \ {n}
    BY AddedFacts
  <2>3. s[1] = r
    BY <2>1 DEF Chain
  <2> QED  BY <2>1, <2>2, <2>3, Numbers
<1>2. PICK q \in Nodes \ {n} : q = s[k]
  BY <1>1
<1>3. Grafted(f, g, q, NULL, n)
  BY <1>1, <1>2, RightGrafts
<1>4. Grafting(f, g, r, s, q, NULL, n)
  BY <1>1, <1>2, <1>3, Numbers DEF Grafting
<1>5. Fastened(f, q, n) /\ Arranged(f, I) /\ Starts(f, I) /\ Bound(f, I)
  BY <1>2, RightFastens DEF Grouping
<1>6. q < n /\ r < n
  BY <1>1, <1>2
<1>7. Arranged(g, J)
  BY <1>1, <1>4, <1>5, <1>6, ArrangedGrafted
<1>8. Bound(g, J)
  BY <1>4, <1>5, BoundGrafted
<1> QED  BY <1>7, <1>8

LEMMA GroupingLeft ==
  ASSUME NEW f, NEW g, NEW r, NEW s, NEW u, NEW k, NEW n, NEW x, NEW p, NEW ph, NEW last, NEW o,
         Added(f, g, r, s, u, k, n, x, p, ph, last, o), x # "comma", Filled(f, s, p, ph, o), Left(f, g, s, u, k, n),
         Older(f, n), \A i \in 1 .. Len(s) : s[i] < n,
         NEW I, Grouping(f, I), NEW J, \A m \in Nodes \ {n} : m \in J <=> m \in I, n \in J
  PROVE  Arranged(g, J) /\ Bound(g, J)
<1>1. /\ Insertable(f, g, r, s, u, k, n) /\ f \in NodesType /\ g \in NodesType /\ Linked(f) /\ Below(f) /\ Chain(f, r, s) /\ n \in Nodes
      /\ k \in 1 .. Len(s) /\ Len(s) > 0 /\ Len(s) \in Nat /\ (\A i \in 1 .. Len(s) : s[i] \in Nodes \ {n})
      /\ 1 \in 1 .. Len(s) /\ s[1] = r /\ r \in Nodes
  <2>1. /\ Insertable(f, g, r, s, u, k, n) /\ f \in NodesType /\ g \in NodesType /\ Linked(f) /\ Below(f) /\ Chain(f, r, s) /\ n \in Nodes
    BY DEF Added, Insertable
  <2>2. k \in 1 .. Len(s) /\ Len(s) > 0 /\ Len(s) \in Nat /\ \A i \in 1 .. Len(s) : s[i] \in Nodes \ {n}
    BY AddedFacts
  <2>3. s[1] = r
    BY <2>1 DEF Chain
  <2> QED  BY <2>1, <2>2, <2>3
<1>2. PICK q : q = IF k = 1 THEN NULL ELSE s[k - 1]
  OBVIOUS
<1>3. /\ q # NULL => k > 1 /\ k - 1 \in 1 .. Len(s) /\ q = s[k - 1]
      /\ q = NULL => k = 1
  <2>1. k # 1 => k > 1 /\ k - 1 \in 1 .. Len(s)
    BY <1>1
  <2>2. \A i \in 1 .. Len(s) : s[i] # NULL
    BY <1>1, Numbers
  <2> QED  BY <1>2, <2>1, <2>2
<1>4. PICK t \in Nodes \ {n} : t = s[k]
  BY <1>1
<1>5. Grafted(f, g, q, t, n)
  BY <1>1, <1>2, <1>4, LeftGrafts
<1>6. Grafting(f, g, r, s, q, t, n)
  <2>1. q = NULL \/ (q # n /\ \E h \in 1 .. Len(s) : q = s[h])
    BY <1>1, <1>3
  <2>2. q = NULL => t = r
    BY <1>1, <1>3, <1>4
  <2> QED  BY <1>1, <1>4, <1>5, <2>1, <2>2 DEF Grafting
<1>7. /\ k > 1 => Fastened(f, s[k - 1], n)
      /\ f[t].priority > f[n].priority \/ (f[t].priority = f[n].priority /\ f[n].sym \notin {"=", "!"})
      /\ Arranged(f, I) /\ Starts(f, I) /\ Bound(f, I)
  BY <1>4, LeftFastens DEF Grouping
<1>8. (q # NULL => q < n /\ Fastened(f, q, n)) /\ r < n
  BY <1>1, <1>3, <1>7
<1>9. Arranged(g, J)
  BY <1>1, <1>6, <1>7, <1>8, ArrangedGrafted
<1>10. Bound(g, J)
  BY <1>6, <1>7, <1>8, BoundGrafted
<1> QED  BY <1>9, <1>10

LEMMA GroupingKept ==
  ASSUME NEW f, NEW g, NEW r, NEW s, NEW u, NEW k, NEW n, NEW x, NEW p, NEW ph, NEW last, NEW o,
         Added(f, g, r, s, u, k, n, x, p, ph, last, o), Filled(f, s, p, ph, o), x = "comma" => TakenBy(f, s, p),
         Older(f, n), \A i \in 1 .. Len(s) : s[i] < n,
         NEW I, Grouping(f, I), NEW J, \A m \in Nodes \ {n} : m \in J <=> m \in I,
         x # "comma" => (n \in J <=> ph \in {"operator", "method"}),
         NEW r2, Chain(g, r2, u)
  PROVE  Grouping(g, J) /\ Subtree(g, r2) = Subtree(f, r) \cup (IF x = "comma" THEN {} ELSE {n})
<1>1. Insertable(f, g, r, s, u, k, n) /\ Arranged(f, I) /\ Starts(f, I) /\ Bound(f, I)
  BY DEF Added, Grouping
<1>2. CASE x = "comma"
  <2>1. Comma(f, g, s, u, k, n)
    BY <1>2, CommaFinds
  <2>2. Arranged(g, J) /\ Bound(g, J)
    BY <1>1, <2>1, GroupingComma
  <2>3. ~Right(f, g, s, u, k, n)
    BY <2>1 DEF Comma, Right
  <2>4. Starts(g, J)
    BY <1>1, <2>3, StartsKept
  <2>5. Subtree(g, r2) = Subtree(f, r)
    BY <1>1, <2>1, WholeTree
  <2> QED  BY <1>2, <2>2, <2>4, <2>5 DEF Grouping
<1>3. CASE x # "comma"
  <2>1. /\ Right(f, g, s, u, k, n) \/ Left(f, g, s, u, k, n)
        /\ Right(f, g, s, u, k, n) => n \notin J
        /\ Left(f, g, s, u, k, n) => n \in J
    <3>1. /\ ~Comma(f, g, s, u, k, n)
          /\ Right(f, g, s, u, k, n) => ph \in {"operand", "first", "member"}
          /\ Left(f, g, s, u, k, n) => ph \in {"operator", "method"}
      BY <1>3, Sides
    <3> QED  BY <1>1, <1>3, <3>1 DEF Insertable, Inserted
  <2>2. Arranged(g, J) /\ Bound(g, J)
    BY <1>3, <2>1, GroupingRight, GroupingLeft
  <2>3. Starts(g, J)
    BY <1>1, <2>1, StartsKept
  <2>4. Subtree(g, r2) = Subtree(f, r) \cup {n}
    BY <1>1, <2>1, WholeTree
  <2> QED  BY <1>3, <2>2, <2>3, <2>4 DEF Grouping
<1> QED  BY <1>2, <1>3

(* The first node.                                                         *)
LEMMA GroupingFirst ==
  ASSUME NEW f \in NodesType, NEW g \in NodesType, NEW n \in Nodes, \A m \in Nodes \ {n} : g[m] = f[m],
         \A i \in Slots : f[n].params[i] = NULL /\ g[n].params[i] = NULL,
         \A m \in Nodes, i \in Slots : f[m].params[i] # n,
         g[n].sym \notin {"=", "!"} \/ g[n].index # 0,
         NEW I, Grouping(f, I), NEW J, \A m \in Nodes \ {n} : m \in J <=> m \in I, n \notin J
  PROVE  Grouping(g, J) /\ Subtree(g, n) = {n} /\ \A m \in Nodes \ {n} : Subtree(g, m) = Subtree(f, m)
<1>1. \A m \in Nodes : n \notin Children(f, m)
  BY DEF Children
<1>2. \A m \in Nodes \ {n} : Children(g, m) = Children(f, m) /\ Subtree(g, m) = Subtree(f, m)
  <2>1. \A m \in Nodes \ {n} : Children(g, m) = Children(f, m)
    BY DEF Children
  <2> QED  BY <1>1, <2>1, SubtreeSame
<1>3. Subtree(g, NULL) = {} /\ Subtree(f, NULL) = {}
  BY DEF Subtree
<1>4. Arranged(f, I) /\ Starts(f, I) /\ Bound(f, I)
  BY DEF Grouping
<1>5. ASSUME NEW m \in Nodes \ {n}, NEW i \in Slots PROVE Behind(g, J, m, i) /\ Binds(g, J, m, i)
  <2>1. Behind(f, I, m, i) /\ Binds(f, I, m, i)
    BY <1>4 DEF Arranged, Bound
  <2>2. g[m] = f[m] /\ \A j \in 0 .. i : f[m].params[j] \in (Nodes \ {n}) \cup {NULL}
    <3>1. \A j \in 0 .. i : j \in Slots
      BY Numbers
    <3> QED  BY <3>1, NodeFacts
  <2>3. \A j \in 0 .. i : Subtree(g, g[m].params[j]) = Subtree(f, f[m].params[j])
    BY <1>2, <1>3, <2>2
  <2>4. i \in 0 .. i /\ \A j \in 0 .. i - 1 : j \in 0 .. i
    BY Numbers
  <2>5. Behind(g, J, m, i)
    BY <2>1, <2>2, <2>3, <2>4 DEF Behind
  <2>6. f[m].params[i] # NULL => g[f[m].params[i]] = f[f[m].params[i]]
    BY <2>2, <2>4
  <2>7. Binds(g, J, m, i)
    BY <2>1, <2>2, <2>6 DEF Binds
  <2> QED  BY <2>5, <2>7
<1>6. \A i \in Slots : Behind(g, J, n, i) /\ Binds(g, J, n, i)
  BY DEF Behind, Binds
<1>7. Starts(g, J)
  BY <1>4 DEF Starts
<1>8. Subtree(g, n) = {n}
  <2>1. Children(g, n) = {}
    BY DEF Children
  <2> QED  BY <2>1, SubtreeIs
<1> QED  BY <1>2, <1>5, <1>6, <1>7, <1>8 DEF Arranged, Bound, Grouping

---------------------------------------------------------------------------
(* What TreeGroups says of the symbols y of a statement.                   *)
Opening(y, k) == {q \in 1 .. k : y[q] \in {"(", "["}}
Closing(y, k) == {q \in 1 .. k : y[q] \in {")", "]"}}

Level(y)      == Cardinality(Opening(y, Len(y))) - Cardinality(Closing(y, Len(y)))
DepthIn(y, p) == Cardinality(Opening(y, p - 1)) - Cardinality(Closing(y, p))

Finals == Operands \cup {"object", ")", "]"}

Nodeless == {"(", ")", "]", "comma"}

TermsIn(y)   == {p \in 1 .. Len(y) : y[p] \notin Nodeless}
InfixesIn(y) == {p \in 1 .. Len(y) : y[p] \in Binary \/ (y[p] = "[" /\ p > 1 /\ y[p - 1] \in Finals)}

LEMMA CountOne ==
  ASSUME NEW k \in Nat, NEW A, A \subseteq 1 .. k, NEW B, B = A \/ B = A \cup {k + 1}
  PROVE  /\ Cardinality(A) \in Int /\ Cardinality(B) \in Int
         /\ Cardinality(B) = IF k + 1 \in B THEN Cardinality(A) + 1 ELSE Cardinality(A)
<1>1. k + 1 \notin 1 .. k
  OBVIOUS
<1>2. IsFiniteSet(1 .. k)
  BY FS_Interval
<1>3. IsFiniteSet(A)
  BY <1>2, FS_Subset
<1>4. k + 1 \notin A
  BY <1>1
<1>5. Cardinality(A) \in Nat
  BY <1>3, FS_CardinalityType
<1>6. Cardinality(A \cup {k + 1}) = Cardinality(A) + 1
  BY <1>3, <1>4, FS_AddElement
<1>7. CASE B = A
  BY <1>4, <1>5, <1>7
<1>8. CASE B = A \cup {k + 1}
  BY <1>5, <1>6, <1>8
<1> QED  BY <1>7, <1>8

LEMMA AppendedTo ==
  ASSUME NEW y \in Seq(Kinds), NEW x \in Kinds, NEW z, z = Append(y, x), NEW n, n = Len(y) + 1
  PROVE  /\ Len(y) \in Nat /\ Len(z) = n /\ n - 1 = Len(y) /\ z[n] = x /\ n \in 1 .. n /\ 1 .. n = (1 .. Len(y)) \cup {n}
         /\ \A q \in 1 .. Len(y) : z[q] = y[q]
<1>1. Len(z) = Len(y) + 1 /\ z[Len(y) + 1] = x /\ (\A q \in 1 .. Len(y) : z[q] = y[q]) /\ Len(y) \in Nat
  BY Appended
<1> QED  BY <1>1

LEMMA AppendedTerms ==
  ASSUME NEW y \in Seq(Kinds), NEW x \in Kinds, NEW z, z = Append(y, x), NEW n, n = Len(y) + 1
  PROVE  TermsIn(z) = TermsIn(y) \cup (IF x \in Nodeless THEN {} ELSE {n})
<1>1. /\ Len(y) \in Nat /\ Len(z) = n /\ z[n] = x /\ 1 .. n = (1 .. Len(y)) \cup {n}
      /\ \A q \in 1 .. Len(y) : z[q] = y[q]
  BY AppendedTo
<1> QED  BY <1>1 DEF TermsIn

LEMMA AppendedDepths ==
  ASSUME NEW y \in Seq(Kinds), NEW x \in Kinds, NEW z, z = Append(y, x), NEW n, n = Len(y) + 1
  PROVE  \A p \in 1 .. Len(y) : z[p] = y[p] /\ DepthIn(z, p) = DepthIn(y, p)
<1>1. /\ Len(y) \in Nat /\ Len(z) = n /\ z[n] = x /\ 1 .. n = (1 .. Len(y)) \cup {n}
      /\ \A q \in 1 .. Len(y) : z[q] = y[q]
  BY AppendedTo
<1>2. ASSUME NEW p \in 1 .. Len(y) PROVE z[p] = y[p] /\ DepthIn(z, p) = DepthIn(y, p)
  <2>1. z[p] = y[p] /\ (\A q \in 1 .. p - 1 : z[q] = y[q]) /\ \A q \in 1 .. p : z[q] = y[q]
    BY <1>1
  <2>2. Opening(z, p - 1) = Opening(y, p - 1) /\ Closing(z, p) = Closing(y, p)
    BY <2>1 DEF Opening, Closing
  <2> QED  BY <2>1, <2>2 DEF DepthIn
<1> QED  BY <1>2

LEMMA AppendedInfixes ==
  ASSUME NEW y \in Seq(Kinds), NEW x \in Kinds, NEW z, z = Append(y, x), NEW n, n = Len(y) + 1
  PROVE  /\ n \in InfixesIn(z) <=> x \in Binary \/ (x = "[" /\ Len(y) > 0 /\ y[Len(y)] \in Finals)
         /\ \A m \in Nodes \ {n} : m \in InfixesIn(z) <=> m \in InfixesIn(y)
<1>1. /\ Len(y) \in Nat /\ Len(z) = n /\ n - 1 = Len(y) /\ z[n] = x /\ n \in 1 .. n /\ 1 .. n = (1 .. Len(y)) \cup {n}
      /\ \A q \in 1 .. Len(y) : z[q] = y[q]
  BY AppendedTo
<1>2. n \in InfixesIn(z) <=> x \in Binary \/ (x = "[" /\ Len(y) > 0 /\ y[Len(y)] \in Finals)
  <2>1. n > 1 <=> Len(y) > 0
    BY <1>1
  <2>2. Len(y) > 0 => z[n - 1] = y[Len(y)]
    <3>1. Len(y) > 0 => Len(y) \in 1 .. Len(y)
      BY <1>1
    <3>2. n - 1 = Len(y) /\ \A q \in 1 .. Len(y) : z[q] = y[q]
      BY <1>1
    <3> QED  BY <3>1, <3>2
  <2> QED  BY <1>1, <2>1, <2>2 DEF InfixesIn
<1>3. ASSUME NEW m \in Nodes \ {n} PROVE m \in InfixesIn(z) <=> m \in InfixesIn(y)
  <2>1. CASE m \in 1 .. Len(y)
    <3>1. z[m] = y[m] /\ m \in 1 .. Len(z)
      BY <1>1, <2>1
    <3>2. m > 1 => z[m - 1] = y[m - 1]
      BY <1>1, <2>1
    <3> QED  BY <2>1, <3>1, <3>2 DEF InfixesIn
  <2>2. CASE m \notin 1 .. Len(y)
    <3>1. m \notin 1 .. n
      BY <1>1, <1>3, <2>2
    <3> QED  BY <1>1, <2>2, <3>1 DEF InfixesIn
  <2> QED  BY <2>1, <2>2
<1> QED  BY <1>2, <1>3

LEMMA AppendedLevel ==
  ASSUME NEW y \in Seq(Kinds), NEW x \in Kinds, NEW z, z = Append(y, x), NEW n, n = Len(y) + 1
  PROVE  /\ Level(y) \in Int
         /\ Level(z) = Level(y) + (IF x \in {"(", "["} THEN 1 ELSE IF x \in {")", "]"} THEN -1 ELSE 0)
<1>1. /\ Len(y) \in Nat /\ Len(z) = n /\ n - 1 = Len(y) /\ z[n] = x /\ n \in 1 .. n /\ 1 .. n = (1 .. Len(y)) \cup {n}
      /\ \A q \in 1 .. Len(y) : z[q] = y[q]
  BY AppendedTo
<1>2. /\ Opening(z, n - 1) = Opening(y, Len(y)) /\ (x \notin {")", "]"} => Closing(z, n) = Closing(y, Len(y)))
      /\ Opening(z, n) = (IF x \in {"(", "["} THEN Opening(y, Len(y)) \cup {n} ELSE Opening(y, Len(y)))
      /\ Closing(z, n) = (IF x \in {")", "]"} THEN Closing(y, Len(y)) \cup {n} ELSE Closing(y, Len(y)))
  BY <1>1 DEF Opening, Closing
<1>3. /\ Cardinality(Opening(y, Len(y))) \in Int /\ Cardinality(Closing(y, Len(y))) \in Int
      /\ Cardinality(Opening(z, n)) = Cardinality(Opening(y, Len(y))) + (IF x \in {"(", "["} THEN 1 ELSE 0)
      /\ Cardinality(Closing(z, n)) = Cardinality(Closing(y, Len(y))) + (IF x \in {")", "]"} THEN 1 ELSE 0)
  <2>1. Opening(y, Len(y)) \subseteq 1 .. Len(y) /\ Closing(y, Len(y)) \subseteq 1 .. Len(y)
    BY <1>1 DEF Opening, Closing
  <2>2. /\ Cardinality(Opening(y, Len(y))) \in Int
        /\ Cardinality(Opening(z, n)) = IF n \in Opening(z, n) THEN Cardinality(Opening(y, Len(y))) + 1 ELSE Cardinality(Opening(y, Len(y)))
    BY <1>1, <1>2, <2>1, CountOne, SMTT(30)
  <2>3. /\ Cardinality(Closing(y, Len(y))) \in Int
        /\ Cardinality(Closing(z, n)) = IF n \in Closing(z, n) THEN Cardinality(Closing(y, Len(y))) + 1 ELSE Cardinality(Closing(y, Len(y)))
    BY <1>1, <1>2, <2>1, CountOne, SMTT(30)
  <2>4. (n \in Opening(z, n) <=> x \in {"(", "["}) /\ (n \in Closing(z, n) <=> x \in {")", "]"})
    BY <1>1 DEF Opening, Closing
  <2> QED  BY <2>2, <2>3, <2>4
<1>4. Level(y) \in Int
  BY <1>3 DEF Level
<1>5. Level(z) = Level(y) + (IF x \in {"(", "["} THEN 1 ELSE IF x \in {")", "]"} THEN -1 ELSE 0)
  BY <1>1, <1>3 DEF Level
<1> QED  BY <1>4, <1>5

LEMMA AppendedDepth ==
  ASSUME NEW y \in Seq(Kinds), NEW x \in Kinds, x # ")", x # "]", NEW z, z = Append(y, x), NEW n, n = Len(y) + 1
  PROVE  DepthIn(z, n) = Level(y)
<1>1. /\ Len(y) \in Nat /\ Len(z) = n /\ n - 1 = Len(y) /\ z[n] = x /\ n \in 1 .. n /\ 1 .. n = (1 .. Len(y)) \cup {n}
      /\ \A q \in 1 .. Len(y) : z[q] = y[q]
  BY AppendedTo
<1>2. Opening(z, n - 1) = Opening(y, Len(y)) /\ Closing(z, n) = Closing(y, Len(y))
  BY <1>1 DEF Opening, Closing
<1> QED  BY <1>2 DEF DepthIn, Level

(* What reading a symbol changes of these.                                 *)
LEMMA EndingRead ==
  ASSUME Typed, Plain, NEW x \in Symbols, ReadSymbol(x)
  PROVE  (Ending' <=> x \in Finals) /\ LastSymbol' = x
<1>1. x \in Kinds
  BY ReadFacts
<1>2. /\ x \in Operands => phase' = "operator"
      /\ x \in Callables => phase' = "callee"
      /\ x \in {"!", "return"} => phase' = "operand"
      /\ x = "object" => phase' = "method"
      /\ x \in {"+", "*", ".", "=", "comma"} => phase' \in {"member", "operand"}
      /\ x # "!=" /\ LastSymbol' = x
  BY ReadPhase
<1>3. /\ x = "[" => phase' = "first"
      /\ x = "(" => phase' \in {"operand", "first"}
      /\ x \in {")", "]"} => phase' = "operator"
  BY BracketPhase
<1>4. x \in Finals <=> phase' \in {"operator", "method"}
  BY <1>1, <1>2, <1>3 DEF Finals, Kinds, Operands, Callables, Binary
<1> QED  BY <1>2, <1>4 DEF Ending

LEMMA InfixRead ==
  ASSUME Typed, Plain, Ending <=> LastSymbol \in Finals, NEW x \in Symbols, ReadSymbol(x), x \notin Nodeless,
         NEW n, n = Len(symbols) + 1, NEW z, z = symbols'
  PROVE  n \in InfixesIn(z) <=> Ending
<1>1. x \in Kinds /\ symbols \in Seq(Kinds) /\ z = Append(symbols, x) /\ Len(symbols) \in Nat
  BY ReadFacts DEF Typed
<1>2. n \in InfixesIn(z) <=> x \in Binary \/ (x = "[" /\ Len(symbols) > 0 /\ symbols[Len(symbols)] \in Finals)
  BY <1>1, AppendedInfixes
<1>3. /\ x \in Operands \cup Callables \cup {"!", "return"} => Starting
      /\ x = "object" => phase = "member"
      /\ x \in {"+", "*", ".", "=", "comma"} => Ending
      /\ x # "!="
  BY ReadPhase
<1>4. Len(symbols) > 0 /\ symbols[Len(symbols)] \in Finals <=> LastSymbol \in Finals
  <2>1. CASE symbols = <<>>
    BY <2>1 DEF LastSymbol, Finals, Operands
  <2>2. CASE symbols # <<>>
    <3>1. Len(symbols) > 0 /\ LastSymbol = symbols[Len(symbols)]
      BY <1>1, <2>2 DEF LastSymbol, Last
    <3> QED  BY <3>1
  <2> QED  BY <2>1, <2>2
<1>5. CASE x = "["
  BY <1>2, <1>4, <1>5 DEF Binary
<1>6. CASE x \in Binary
  BY <1>2, <1>3, <1>6 DEF Binary
<1>7. CASE x \notin Binary /\ x # "["
  <2>1. ~Ending
    BY <1>1, <1>3, <1>7 DEF Kinds, Nodeless, Starting, Ending
  <2> QED  BY <1>2, <1>7, <2>1
<1> QED  BY <1>5, <1>6, <1>7

LEMMA LevelRead ==
  ASSUME Typed, NEW x \in Symbols, ReadSymbol(x), precedence = Level(symbols), NEW z, z = symbols'
  PROVE  precedence' = Level(z)
<1>1. x \in Kinds /\ symbols \in Seq(Kinds) /\ z = Append(symbols, x) /\ precedence \in Nat
  BY ReadFacts DEF Typed
<1>2. Level(z) = Level(symbols) + (IF x \in {"(", "["} THEN 1 ELSE IF x \in {")", "]"} THEN -1 ELSE 0)
  BY <1>1, AppendedLevel
<1>3. /\ x \in {"(", "["} => precedence' = precedence + 1
      /\ x \in {")", "]"} => precedence' = precedence - 1
      /\ x \notin {"(", "[", ")", "]"} => precedence' = precedence
  BY ReadFacts
<1>4. CASE x \in {"(", "["}
  BY <1>1, <1>2, <1>3, <1>4
<1>5. CASE x \in {")", "]"}
  BY <1>1, <1>2, <1>3, <1>5
<1>6. CASE x \notin {"(", "[", ")", "]"}
  BY <1>1, <1>2, <1>3, <1>6
<1> QED  BY <1>4, <1>5, <1>6

(* The nodes with a new one: only older nodes lead to others.              *)
LEMMA OlderFresh ==
  ASSUME NEW h \in NodesType, NEW f \in NodesType, NEW n \in Nodes, Linked(f), Loose(f, n),
         \A m \in Nodes \ {n} : f[m] = h[m], \A m \in Nodes : m >= n => h[m] = Blank
  PROVE  Older(f, n) /\ \A m \in Nodes, i \in Slots : h[m].params[i] # NULL => f[m].params[i] = h[m].params[i]
<1>1. ASSUME NEW m \in Nodes, NEW i \in Slots, f[m].params[i] # NULL PROVE m < n /\ f[m].params[i] < n
  <2>1. m # n
    BY <1>1 DEF Loose
  <2>2. m \in Nat /\ n \in Nat
    BY Numbers
  <2>3. ~ (m >= n)
    BY <1>1, <2>1, BlankIs
  <2>4. PICK c \in Nodes : c = f[m].params[i]
    BY <1>1, NodeFacts
  <2>5. f[c].parent = m /\ m # NULL
    BY <1>1, <2>4, Numbers DEF Linked
  <2>6. c # n
    BY <2>5 DEF Loose
  <2>7. ~ (c >= n)
    BY <2>4, <2>5, <2>6, BlankIs
  <2>8. c \in Nat
    BY <2>4, Numbers
  <2> QED  BY <2>2, <2>3, <2>4, <2>7, <2>8
<1>2. ASSUME NEW m \in Nodes, NEW i \in Slots, h[m].params[i] # NULL PROVE f[m].params[i] = h[m].params[i]
  <2>1. m # n
    BY <1>2, BlankIs, Numbers
  <2> QED  BY <2>1
<1> QED  BY <1>1, <1>2 DEF Older

---------------------------------------------------------------------------
(* The invariant of TreeGroups.                                            *)
Labelled(f, y) == \A p \in TermsIn(y) : f[p].sym = y[p] /\ f[p].priority = 13 * DepthIn(y, p) + Rank(y[p])

Standing ==
  root # NULL => \E s : /\ Chain(node, root, s) /\ Spined(s)
                        /\ Shaped(node, s, precedence, phase, LastSymbol, open)
                        /\ Filled(node, s, precedence, phase, open)

Grouped ==
  /\ Subtree(node, root) = TermsIn(symbols) /\ Labelled(node, symbols)
  /\ Grouping(node, InfixesIn(symbols))
  /\ precedence = Level(symbols) /\ (Ending <=> LastSymbol \in Finals)

Marked(g, n, x, l) == x \notin Nodeless => g[n].sym = x /\ g[n].priority = 13 * l + Rank(x)

LEMMA LabelledRead ==
  ASSUME NEW y \in Seq(Kinds), NEW x \in Kinds, NEW z, z = Append(y, x), NEW n, n = Len(y) + 1,
         NEW g, Labelled(g, y), Marked(g, n, x, Level(y))
  PROVE  Labelled(g, z)
<1>1. TermsIn(z) = TermsIn(y) \cup (IF x \in Nodeless THEN {} ELSE {n})
  BY ONLY y \in Seq(Kinds), x \in Kinds, z = Append(y, x), n = Len(y) + 1, AppendedTerms
<1>6. \A p \in 1 .. Len(y) : z[p] = y[p] /\ DepthIn(z, p) = DepthIn(y, p)
  BY ONLY y \in Seq(Kinds), x \in Kinds, z = Append(y, x), n = Len(y) + 1, AppendedDepths
<1>4. z[n] = x
  BY AppendedTo
<1>5. x \notin Nodeless => DepthIn(z, n) = Level(y)
  BY AppendedDepth DEF Nodeless
<1>2. ASSUME NEW p \in TermsIn(y) PROVE g[p].sym = z[p] /\ g[p].priority = 13 * DepthIn(z, p) + Rank(z[p])
  <2>1. p \in 1 .. Len(y)
    BY DEF TermsIn
  <2> QED  BY <1>6, <2>1 DEF Labelled
<1>3. x \notin Nodeless => g[n].sym = z[n] /\ g[n].priority = 13 * DepthIn(z, n) + Rank(z[n])
  BY <1>4, <1>5 DEF Marked
<1> QED  BY <1>1, <1>2, <1>3 DEF Labelled

(* The tree with the new node in no place yet.                             *)
LEMMA GroupingFresh ==
  ASSUME NEW x, NEW n, NEW f, NEW s, NEW u, NEW k, TreeStep(x, n, f, s, u, k), Grouping(node, InfixesIn(symbols))
  PROVE  /\ Grouping(f, InfixesIn(symbols)) /\ Subtree(f, root) = Subtree(node, root)
         /\ Older(f, n) /\ \A i \in 1 .. Len(s) : s[i] < n
<1>1. /\ n \in Nodes /\ n = Len(symbols) + 1 /\ Len(symbols) \in Nat /\ node \in NodesType /\ f \in NodesType
      /\ Linked(f) /\ Linked(node) /\ Loose(f, n) /\ (\A m \in Nodes \ {n} : f[m] = node[m]) /\ root \in Nodes /\ root # n
      /\ f[n].sym = x /\ f[n].index = IF x \in Callables THEN 0 ELSE 1
  <2>1. n \in Nodes /\ n = Len(symbols) + 1 /\ Len(symbols) \in Nat /\ f[n].sym = x
    BY StepFacts
  <2>2. /\ node \in NodesType /\ f \in NodesType /\ Linked(f) /\ Linked(node) /\ Loose(f, n)
        /\ (\A m \in Nodes \ {n} : f[m] = node[m]) /\ f[n].index = IF x \in Callables THEN 0 ELSE 1
    BY DEF TreeStep, Prepared, Typed, Built
  <2>3. Chain(node, root, s) /\ \A i \in 1 .. Len(s) : s[i] # n
    BY DEF TreeStep
  <2>4. root \in Nodes /\ s[1] = root /\ 1 \in 1 .. Len(s)
    BY <2>2, <2>3, ChainFacts DEF Chain
  <2> QED  BY <2>1, <2>2, <2>3, <2>4
<1>2. \A m \in Nodes : m >= n => node[m] = Blank
  <2>1. \A m \in Nodes : m > Len(symbols) => node[m] = Blank
    BY DEF TreeStep, Built, Fits
  <2>2. \A m \in Nodes : m >= n => m > Len(symbols)
    BY <1>1, Numbers
  <2> QED  BY <2>1, <2>2
<1>3. Older(f, n)
  BY <1>1, <1>2, OlderFresh
<1>4. \A i \in 1 .. Len(s) : s[i] < n
  <2>1. \A i \in 1 .. Len(s) : s[i] <= Len(symbols) /\ s[i] \in Nodes
    BY StepFacts
  <2> QED  BY <1>1, <2>1, Numbers
<1>5. \A i \in Slots : node[n].params[i] = NULL /\ f[n].params[i] = NULL
  <2>1. node[n] = Blank
    BY <1>1, <1>2, Numbers
  <2> QED  BY <1>1, <2>1, BlankIs DEF Loose
<1>6. \A m \in Nodes, i \in Slots : node[m].params[i] # n
  <2>1. n # NULL
    BY <1>1, Numbers
  <2> QED  BY <1>1, <1>5, <2>1 DEF Loose
<1>7. f[n].sym \notin {"=", "!"} \/ f[n].index # 0
  BY <1>1 DEF Callables
<1>8. n \notin InfixesIn(symbols)
  BY <1>1 DEF InfixesIn
<1>9. Grouping(f, InfixesIn(symbols)) /\ \A m \in Nodes \ {n} : Subtree(f, m) = Subtree(node, m)
  <2>1. PICK I : I = InfixesIn(symbols)
    OBVIOUS
  <2>2. Grouping(f, I) /\ \A m \in Nodes \ {n} : Subtree(f, m) = Subtree(node, m)
    BY <1>1, <1>5, <1>6, <1>7, <1>8, <2>1, GroupingFirst
  <2> QED  BY <2>1, <2>2
<1> QED  BY <1>1, <1>3, <1>4, <1>9

LEMMA GroupedNode ==
  ASSUME Typed, Built, Reading, stage = "parse", Plain, Leafy(node, {}), Grouped,
         NEW x \in Symbols, ReadSymbol(x), x \notin {"(", ")", "]"}, root # NULL,
         NEW n, n = Len(symbols) + 1, NEW z, z = symbols',
         NEW s, Chain(node, root, s), Spined(s), Shaped(node, s, precedence, phase, LastSymbol, open),
         Filled(node, s, precedence, phase, open)
  PROVE  /\ Subtree(node', root') = TermsIn(z) /\ Labelled(node', z) /\ Grouping(node', InfixesIn(z))
         /\ \E u : /\ Chain(node', root', u) /\ Spined(u)' /\ Shaped(node', u, precedence', phase', x, open')
                   /\ Filled(node', u, precedence', phase', open')
<1>1. PICK f, u, k : TreeStep(x, n, f, s, u, k)
  BY StepExists
<1>2. /\ Added(f, node', root, s, u, k, n, x, precedence, phase, LastSymbol, open)
      /\ Becomes(x, precedence, phase, open, precedence', phase', open')
  BY <1>1, StepAdds
<1>3. /\ n \in Nodes /\ x \in Kinds /\ symbols \in Seq(Kinds) /\ z = Append(symbols, x) /\ precedence \in Nat
      /\ f[n].sym = x /\ f[n].priority = 13 * precedence + Rank(x)
      /\ \A m \in Nodes \ {n} : f[m] = node[m]
      /\ \A m \in Nodes : node'[m].sym = f[m].sym /\ node'[m].priority = f[m].priority
      /\ f[s[Len(s)]] = node[s[Len(s)]]
  <2>1. n \in Nodes /\ precedence \in Nat /\ f[n].sym = x /\ f[n].priority = 13 * precedence + Rank(x)
    BY <1>2, AddedFacts DEF Added
  <2>2. \A m \in Nodes : node'[m].sym = f[m].sym /\ node'[m].priority = f[m].priority
    BY <1>1, StepFacts
  <2>3. x \in Kinds /\ symbols \in Seq(Kinds) /\ z = Append(symbols, x)
    BY ReadFacts DEF Typed
  <2>4. (\A m \in Nodes \ {n} : f[m] = node[m]) /\ \A i \in 1 .. Len(s) : f[s[i]] = node[s[i]]
    BY <1>1 DEF TreeStep, Prepared
  <2>5. Len(s) \in 1 .. Len(s)
    BY <1>2, AddedFacts
  <2> QED  BY <2>1, <2>2, <2>3, <2>4, <2>5
<1>15. n \in Nodes /\ x \in Kinds /\ symbols \in Seq(Kinds) /\ z = Append(symbols, x) /\ Len(symbols) \in Nat
  BY <1>3
<1>4. x = "comma" => TakenBy(f, s, precedence)
  <2>1. x = "comma" => precedence \in 1 .. precedence /\ open[precedence].kind \in {"call", "list"}
    BY <1>2 DEF Becomes
  <2> QED  BY <1>2, <2>1 DEF Added, Shaped, Takers
<1>5. Filled(f, s, precedence, phase, open)
  BY <1>3 DEF Filled
<1>6. /\ Grouping(f, InfixesIn(symbols)) /\ Subtree(f, root) = Subtree(node, root)
      /\ Older(f, n) /\ \A i \in 1 .. Len(s) : s[i] < n
  BY <1>1, GroupingFresh DEF Grouped
<1>7. x # "comma" => (n \in InfixesIn(z) <=> phase \in {"operator", "method"})
  <2>1. x # "comma" => x \notin Nodeless
    BY DEF Nodeless
  <2>2. Ending <=> LastSymbol \in Finals
    BY DEF Grouped
  <2>3. x # "comma" => (n \in InfixesIn(z) <=> Ending)
    BY <2>1, <2>2, InfixRead
  <2> QED  BY <2>3 DEF Ending
<1>8. \A m \in Nodes \ {n} : m \in InfixesIn(z) <=> m \in InfixesIn(symbols)
  BY ONLY <1>15, n = Len(symbols) + 1, AppendedInfixes
<1>9. Spined(u)' /\ Chain(node', root', u)
  BY <1>1, SpinedStep DEF TreeStep
<1>10. Shaped(node', u, precedence', phase', x, open')
  BY <1>2, ShapedComma, ShapedNode
<1>11. Filled(node', u, precedence', phase', open')
  BY <1>2, <1>5, FilledNode
<1>12. /\ Grouping(node', InfixesIn(z))
       /\ Subtree(node', root') = Subtree(f, root) \cup (IF x = "comma" THEN {} ELSE {n})
  <2>1. PICK I : I = InfixesIn(symbols)
    OBVIOUS
  <2>2. PICK J : J = InfixesIn(z)
    OBVIOUS
  <2>3. PICK g : g = node'
    OBVIOUS
  <2>4. PICK r2 : r2 = root'
    OBVIOUS
  <2>5. /\ Added(f, g, root, s, u, k, n, x, precedence, phase, LastSymbol, open) /\ Grouping(f, I)
        /\ \A m \in Nodes \ {n} : m \in J <=> m \in I
        /\ x # "comma" => (n \in J <=> phase \in {"operator", "method"})
        /\ Chain(g, r2, u)
    BY <1>2, <1>6, <1>7, <1>8, <1>9, <2>1, <2>2, <2>3, <2>4
  <2>6. Grouping(g, J) /\ Subtree(g, r2) = Subtree(f, root) \cup (IF x = "comma" THEN {} ELSE {n})
    BY <1>4, <1>5, <1>6, <2>5, GroupingKept
  <2> QED  BY <2>2, <2>3, <2>4, <2>6
<1>13. Subtree(node', root') = TermsIn(z)
  <2>1. TermsIn(z) = TermsIn(symbols) \cup (IF x \in Nodeless THEN {} ELSE {n})
    BY ONLY <1>15, n = Len(symbols) + 1, AppendedTerms
  <2>2. x \in Nodeless <=> x = "comma"
    BY DEF Nodeless
  <2> QED  BY <1>6, <1>12, <2>1, <2>2 DEF Grouped
<1>14. Labelled(node', z)
  <2>1. \A m \in TermsIn(symbols) : m \in Nodes /\ m # n
    <3>1. ASSUME NEW m \in 1 .. Len(symbols) PROVE m \in Nodes /\ m # n
      BY ONLY <1>15, n = Len(symbols) + 1, Numbers
    <3> QED  BY <3>1 DEF TermsIn
  <2>2. \A m \in TermsIn(symbols) : node'[m].sym = node[m].sym /\ node'[m].priority = node[m].priority
    BY <1>3, <2>1
  <2>3. Marked(node', n, x, Level(symbols))
    BY <1>3 DEF Grouped, Marked
  <2>4. Labelled(node', symbols)
    BY <2>2 DEF Grouped, Labelled
  <2>5. PICK g : g = node'
    OBVIOUS
  <2>6. Labelled(g, symbols) /\ Marked(g, n, x, Level(symbols))
    BY <2>3, <2>4, <2>5
  <2>7. Labelled(g, z)
    BY ONLY <1>15, <2>6, n = Len(symbols) + 1, LabelledRead
  <2> QED  BY <2>5, <2>7
<1> QED  BY <1>9, <1>10, <1>11, <1>12, <1>13, <1>14

LEMMA GroupedFirst ==
  ASSUME Typed, Built, Reading, stage = "parse", Plain, Leafy(node, {}), Shape, Grouped,
         NEW x \in Symbols, ReadSymbol(x), x \notin {"(", ")", "]"}, root = NULL,
         NEW n, n = Len(symbols) + 1, NEW z, z = symbols'
  PROVE  /\ Subtree(node', root') = TermsIn(z) /\ Labelled(node', z) /\ Grouping(node', InfixesIn(z))
         /\ Standing'
<1>1. /\ root' = n /\ n \in Nodes /\ Chain(node', n, <<n>>) /\ Spined(<<n>>)' /\ \A m \in Nodes \ {n} : node'[m] = node[m]
  BY FirstFacts
<1>2. /\ node'[n].sym = x /\ node'[n].priority = 13 * precedence + Rank(x) /\ \A i \in Slots : node'[n].params[i] = NULL
  BY FirstFacts
<1>3. precedence \in Nat /\ x \in Kinds /\ Starting /\ LastSymbol' = x /\ x \notin {"object", "comma", "!=", "=", "+", "*", "."}
  BY FirstFacts
<1>4. Becomes(x, precedence, phase, open, precedence', phase', open')
  BY FirstFacts
<1>5. x = "return" => phase' = "operand" /\ precedence' = precedence /\ open' = open
  BY FirstFacts
<1>6. \A j \in 1 .. precedence : open[j].kind = "group"
  BY FirstFacts
<1>7. n \in Nodes /\ x \in Kinds /\ symbols \in Seq(Kinds) /\ z = Append(symbols, x) /\ Len(symbols) \in Nat
  BY <1>1, <1>3, ReadFacts DEF Typed
<1>8. n \notin InfixesIn(z)
  <2>1. x \notin Nodeless
    BY <1>3 DEF Nodeless
  <2>2. Ending <=> LastSymbol \in Finals
    BY DEF Grouped
  <2>3. n \in InfixesIn(z) <=> Ending
    BY <2>1, <2>2, InfixRead
  <2> QED  BY <1>3, <2>3 DEF Starting, Ending
<1>9. \A m \in Nodes \ {n} : m \in InfixesIn(z) <=> m \in InfixesIn(symbols)
  BY ONLY <1>7, n = Len(symbols) + 1, AppendedInfixes
<1>10. /\ node \in NodesType /\ node' \in NodesType /\ \A i \in Slots : node[n].params[i] = NULL
       /\ \A m \in Nodes, i \in Slots : node[m].params[i] # n
  <2>1. node \in NodesType /\ node' \in NodesType /\ Linked(node)
    BY RootStep DEF Typed, Built
  <2>2. node[n] = Blank
    <3>1. n > Len(symbols)
      BY <1>7
    <3> QED  BY <1>1, <3>1 DEF Built, Fits
  <2>3. \A i \in Slots : node[n].params[i] = NULL
    BY <2>2, BlankIs
  <2>4. node[n].parent = NULL
    BY <2>2, BlankIs
  <2>5. n # NULL
    BY <1>1, Numbers
  <2>6. ASSUME NEW m \in Nodes, NEW i \in Slots PROVE node[m].params[i] # n
    BY <1>1, <2>1, <2>4, <2>5, Numbers DEF Linked
  <2> QED  BY <2>1, <2>3, <2>6
<1>11. Grouping(node', InfixesIn(z)) /\ Subtree(node', n) = {n}
  <2>1. PICK I : I = InfixesIn(symbols)
    OBVIOUS
  <2>2. PICK J : J = InfixesIn(z)
    OBVIOUS
  <2>3. PICK f : f = node
    OBVIOUS
  <2>4. PICK g : g = node'
    OBVIOUS
  <2>5. /\ f \in NodesType /\ g \in NodesType /\ (\A m \in Nodes \ {n} : g[m] = f[m])
        /\ (\A i \in Slots : f[n].params[i] = NULL /\ g[n].params[i] = NULL)
        /\ (\A m \in Nodes, i \in Slots : f[m].params[i] # n)
    BY <1>1, <1>2, <1>10, <2>3, <2>4
  <2>6. /\ g[n].sym \notin {"=", "!"} \/ g[n].index # 0
        /\ Grouping(f, I) /\ (\A m \in Nodes \ {n} : m \in J <=> m \in I) /\ n \notin J
    <3>1. g[n].sym \notin {"=", "!"} \/ g[n].index # 0
      <4>1. node'[n].index = IF x \in Callables \cup {"["} THEN 0 ELSE 1
        BY RootStep
      <4>2. x = "!" => node'[n].index = 1
        BY <4>1 DEF Callables
      <4> QED  BY <1>2, <1>3, <2>4, <4>2
    <3> QED  BY <1>8, <1>9, <2>1, <2>2, <2>3, <3>1 DEF Grouped
  <2>7. Grouping(g, J) /\ Subtree(g, n) = {n}
    BY <1>1, <2>5, <2>6, GroupingFirst
  <2> QED  BY <2>2, <2>4, <2>7
<1>12. Subtree(node', root') = TermsIn(z)
  <2>1. TermsIn(z) = TermsIn(symbols) \cup (IF x \in Nodeless THEN {} ELSE {n})
    BY ONLY <1>7, n = Len(symbols) + 1, AppendedTerms
  <2>2. x \notin Nodeless
    BY <1>3 DEF Nodeless
  <2>3. TermsIn(symbols) = {}
    <3>1. Subtree(node, NULL) = {}
      BY DEF Subtree
    <3> QED  BY <3>1 DEF Grouped
  <2> QED  BY <1>1, <1>11, <2>1, <2>2, <2>3
<1>13. Labelled(node', z)
  <2>1. \A m \in TermsIn(symbols) : m \in Nodes /\ m # n
    <3>1. ASSUME NEW m \in 1 .. Len(symbols) PROVE m \in Nodes /\ m # n
      BY ONLY <1>7, n = Len(symbols) + 1, Numbers
    <3> QED  BY <3>1 DEF TermsIn
  <2>2. \A m \in TermsIn(symbols) : node'[m] = node[m]
    BY <1>1, <2>1
  <2>3. Marked(node', n, x, Level(symbols))
    BY <1>2 DEF Grouped, Marked
  <2>4. Labelled(node', symbols)
    BY <2>2 DEF Grouped, Labelled
  <2>5. PICK g : g = node'
    OBVIOUS
  <2>6. Labelled(g, symbols) /\ Marked(g, n, x, Level(symbols))
    BY <2>3, <2>4, <2>5
  <2>7. Labelled(g, z)
    BY ONLY <1>7, <2>6, n = Len(symbols) + 1, LabelledRead
  <2> QED  BY <2>5, <2>7
<1>14. Shaped(node', <<n>>, precedence', phase', x, open')
  BY <1>2, <1>3, <1>4, <1>5, <1>6, ShapedRoot
<1>15. Filled(node', <<n>>, precedence', phase', open')
  BY <1>2, <1>3, <1>4, <1>5, FilledRoot
<1>16. Standing'
  BY <1>1, <1>3, <1>14, <1>15 DEF Standing
<1> QED  BY <1>11, <1>12, <1>13, <1>16

(* A parenthesis or a closing bracket.                                     *)
LEMMA GroupingSame ==
  ASSUME NEW f, NEW I, Grouping(f, I), NEW J, \A m \in Nodes : m \in J <=> m \in I
  PROVE  Grouping(f, J)
BY DEF Grouping, Arranged, Starts, Bound, Behind, Binds

LEMMA GroupedBracket ==
  ASSUME Typed, Built, Reading, stage = "parse", Plain, Leafy(node, {}), Grouped, Standing,
         NEW x \in Symbols, ReadSymbol(x), x \in {"(", ")", "]"}, NEW z, z = symbols'
  PROVE  /\ Subtree(node', root') = TermsIn(z) /\ Labelled(node', z) /\ Grouping(node', InfixesIn(z))
         /\ Standing'
<1>1. /\ node' = node /\ root' = root
      /\ \A s : root # NULL /\ Chain(node, root, s) /\ Spined(s) => Spined(s)'
  BY BracketStep
<1>2. Bracketed(x, precedence, phase, open, precedence', phase', open') /\ LastSymbol' = x
  BY BracketedRead
<1>3. PICK n : n = Len(symbols) + 1
  OBVIOUS
<1>4. n \in Nodes /\ x \in Kinds /\ symbols \in Seq(Kinds) /\ z = Append(symbols, x) /\ Len(symbols) \in Nat
  BY <1>3, ReadFacts DEF Typed
<1>5. TermsIn(z) = TermsIn(symbols)
  <2>1. TermsIn(z) = TermsIn(symbols) \cup (IF x \in Nodeless THEN {} ELSE {n})
    BY ONLY <1>4, <1>3, AppendedTerms
  <2>2. x \in Nodeless
    BY DEF Nodeless
  <2> QED  BY <2>1, <2>2
<1>6. Labelled(node, z)
  <2>1. Marked(node, n, x, Level(symbols))
    BY DEF Marked, Nodeless
  <2>2. PICK g : g = node
    OBVIOUS
  <2>3. Labelled(g, symbols) /\ Marked(g, n, x, Level(symbols))
    BY <2>1, <2>2 DEF Grouped
  <2>4. Labelled(g, z)
    BY ONLY <1>3, <1>4, <2>3, LabelledRead
  <2> QED  BY <2>2, <2>4
<1>7. Grouping(node, InfixesIn(z))
  <2>1. \A m \in Nodes \ {n} : m \in InfixesIn(z) <=> m \in InfixesIn(symbols)
    BY ONLY <1>4, <1>3, AppendedInfixes
  <2>2. n \notin InfixesIn(symbols)
    BY <1>3, <1>4 DEF InfixesIn
  <2>3. n \notin InfixesIn(z)
    <3>1. n \in InfixesIn(z) <=> x \in Binary \/ (x = "[" /\ Len(symbols) > 0 /\ symbols[Len(symbols)] \in Finals)
      BY ONLY <1>4, <1>3, AppendedInfixes
    <3> QED  BY <3>1 DEF Binary
  <2>4. \A m \in Nodes : m \in InfixesIn(z) <=> m \in InfixesIn(symbols)
    BY <2>1, <2>2, <2>3
  <2> QED  BY <2>4, GroupingSame DEF Grouped
<1>8. Standing'
  <2>1. CASE root = NULL
    BY <1>1, <2>1 DEF Standing
  <2>2. CASE root # NULL
    <3>1. PICK s : /\ Chain(node, root, s) /\ Spined(s)
                   /\ Shaped(node, s, precedence, phase, LastSymbol, open)
                   /\ Filled(node, s, precedence, phase, open)
      BY <2>2 DEF Standing
    <3>2. Len(s) \in Nat /\ Len(s) > 0 /\ Len(s) \in 1 .. Len(s) /\ \A i \in 1 .. Len(s) : s[i] \in Nodes /\ node[s[i]].priority \in Int
      BY <3>1, ChainFacts, NodeFacts DEF Typed
    <3>3. node[s[Len(s)]].sym = "object" => Takes(node, s[Len(s)])
      BY <3>2 DEF Leafy, Takes
    <3>4. Shaped(node, s, precedence', phase', x, open')
      BY <1>2, <3>1, <3>2, <3>3, ShapedBracket
    <3>5. Filled(node, s, precedence', phase', open')
      <4>1. Ended(node[s[Len(s)]], precedence, phase) /\ node[s[Len(s)]].priority \in Int
        BY <3>1, <3>2 DEF Shaped
      <4> QED  BY <1>2, <3>1, <4>1, FilledBracket
    <3>6. Spined(s)'
      BY <1>1, <2>2, <3>1
    <3> QED  BY <1>1, <1>2, <3>1, <3>4, <3>5, <3>6 DEF Standing
  <2> QED  BY <2>1, <2>2
<1>9. Subtree(node', root') = TermsIn(z)
  BY <1>1, <1>5 DEF Grouped
<1>10. Labelled(node', z) /\ Grouping(node', InfixesIn(z))
  BY <1>1, <1>6, <1>7
<1> QED  BY <1>8, <1>9, <1>10

(* The invariant.                                                          *)
GroupInv == TreeInv /\ (stage = "parse" => Grouped /\ Standing)

LEMMA GroupedRead ==
  ASSUME Plain, GroupInv, NEW x \in Symbols, ReadSymbol(x)
  PROVE  GroupInv'
<1>1. /\ stage = "parse" /\ stage' = "parse"
      /\ TreeInv /\ Typed /\ Built /\ Reading /\ Leafy(node, {}) /\ Shape /\ Grouped /\ Standing
  BY DEF GroupInv, TreeInv, IInv, ReadSymbol
<1>2. TreeInv'
  BY <1>1, ReadTreeInv
<1>3. PICK n, z : n = Len(symbols) + 1 /\ z = symbols'
  OBVIOUS
<1>4. (Ending' <=> x \in Finals) /\ LastSymbol' = x
  BY <1>1, EndingRead
<1>5. precedence' = Level(z)
  <2>1. precedence = Level(symbols)
    BY <1>1 DEF Grouped
  <2> QED  BY <1>1, <1>3, <2>1, LevelRead
<1>6. /\ Subtree(node', root') = TermsIn(z) /\ Labelled(node', z) /\ Grouping(node', InfixesIn(z))
      /\ Standing'
  <2>1. CASE x \in {"(", ")", "]"}
    BY <1>1, <1>3, <2>1, GroupedBracket
  <2>2. CASE x \notin {"(", ")", "]"} /\ root = NULL
    BY <1>1, <1>3, <2>2, GroupedFirst
  <2>3. CASE x \notin {"(", ")", "]"} /\ root # NULL
    <3>1. PICK s : /\ Chain(node, root, s) /\ Spined(s)
                   /\ Shaped(node, s, precedence, phase, LastSymbol, open)
                   /\ Filled(node, s, precedence, phase, open)
      BY <1>1, <2>3 DEF Standing
    <3>2. /\ Subtree(node', root') = TermsIn(z) /\ Labelled(node', z) /\ Grouping(node', InfixesIn(z))
          /\ \E u : /\ Chain(node', root', u) /\ Spined(u)' /\ Shaped(node', u, precedence', phase', x, open')
                    /\ Filled(node', u, precedence', phase', open')
      BY <1>1, <1>3, <2>3, <3>1, GroupedNode
    <3>3. Standing'
      BY <1>4, <3>2 DEF Standing
    <3> QED  BY <3>2, <3>3
  <2> QED  BY <2>1, <2>2, <2>3
<1>7. Grouped'
  <2>1. Ending' <=> LastSymbol' \in Finals
    BY <1>4
  <2> QED  BY <1>3, <1>5, <1>6, <2>1 DEF Grouped
<1> QED  BY <1>2, <1>6, <1>7 DEF GroupInv

LEMMA BlankGroup == Between => GroupInv
<1> SUFFICES ASSUME Between PROVE GroupInv
  OBVIOUS
<1>1. TreeInv
  BY BlankTree
<1>2. symbols = <<>> /\ root = NULL /\ precedence = 0 /\ phase = "operand" /\ LastSymbol = "none"
  BY DEF Between, LastSymbol
<1>3. node \in NodesType /\ \A m \in Nodes : node[m] = Blank
  BY BlankIs DEF Between
<1>4. Len(symbols) = 0
  BY <1>2
<1>5. TermsIn(symbols) = {} /\ Subtree(node, NULL) = {}
  BY <1>4 DEF TermsIn, Subtree
<1>6. Level(symbols) = 0
  <2>1. Opening(symbols, Len(symbols)) = {} /\ Closing(symbols, Len(symbols)) = {}
    BY <1>4 DEF Opening, Closing
  <2> QED  BY <2>1, FS_EmptySet DEF Level
<1>7. Grouping(node, InfixesIn(symbols))
  <2>1. \A m \in Nodes : node[m].sym = "none" /\ \A i \in Slots : node[m].params[i] = NULL
    BY <1>3, BlankIs
  <2>2. InfixesIn(symbols) = {}
    BY <1>4 DEF InfixesIn
  <2> QED  BY <2>1, <2>2 DEF Grouping, Arranged, Starts, Bound, Behind, Binds
<1>8. Grouped
  BY <1>2, <1>5, <1>6, <1>7 DEF Grouped, Labelled, Ending, Finals, Operands
<1> QED  BY <1>1, <1>2, <1>8 DEF GroupInv, Standing

---------------------------------------------------------------------------
(* The strength of a term by its rank.                                     *)
LEMMA StrengthIs ==
  ASSUME NEW p \in Terms, symbols \in Seq(Kinds)
  PROVE  /\ Rank(symbols[p]) \in 1 .. 13 /\ Strength(p) \in Int
         /\ Rank(symbols[p]) <= 10 => Strength(p) = Rank(symbols[p])
         /\ Rank(symbols[p]) >= 11 => Strength(p) = 99 \/ (Strength(p) = 10 /\ symbols[p] = "[")
         /\ Rank(symbols[p]) >= 11 /\ Infix(p) => Strength(p) = 10
         /\ symbols[p] = "[" => Rank(symbols[p]) = 11
         /\ Rank(symbols[p]) = 10 => symbols[p] = "."
         /\ Rank(symbols[p]) = 11 \/ Rank(symbols[p]) \in 1 .. 10 \/ Rank(symbols[p]) = 13
         /\ Infix(p) /\ Rank(symbols[p]) >= 11 => Rank(symbols[p]) = 11
<1>1. PICK x : x = symbols[p]
  OBVIOUS
<1>2. x \in Kinds /\ x \notin {"(", ")", "]", "comma"}
  BY <1>1 DEF Terms
<1>3. PICK r : r = Rank(x)
  OBVIOUS
<1>4. PICK t : t = Strength(p)
  OBVIOUS
<1>5. CASE x \in {"return", "=", "!=", "+", "*", "!", "."}
  <2>1. ~Indexes(p)
    BY <1>1, <1>5 DEF Indexes
  <2>2. /\ x = "return" => r = 1
        /\ x = "=" => r = 2
        /\ x = "!=" => r = 4
        /\ x = "+" => r = 6
        /\ x = "*" => r = 7
        /\ x = "!" => r = 9
        /\ x = "." => r = 10
    BY <1>3 DEF Rank, Get_Precedence
  <2>3. /\ x = "return" => t = 1
        /\ x = "=" => t = 2
        /\ x = "!=" => t = 4
        /\ x = "+" => t = 6
        /\ x = "*" => t = 7
        /\ x = "!" => t = 9
        /\ x = "." => t = 10
    BY <1>1, <1>4, <2>1 DEF Strength
  <2>4. r \in 1 .. 10 /\ t = r /\ (r = 10 => x = ".") /\ x # "["
    BY <1>5, <2>2, <2>3
  <2> QED  BY <1>1, <1>3, <1>4, <2>4
<1>6. CASE x \in Operands \cup Callables \cup {"object"}
  <2>1. r \in {11, 13} /\ t = 99
    <3>1. r \in {11, 13}
      BY <1>3, <1>6 DEF Rank, Get_Precedence, Scale, Operands, Callables
    <3>2. t = 99
      <4>1. x \notin {"return", "=", "!=", "+", "*", "!", ".", "["}
        BY <1>6 DEF Operands, Callables
      <4> QED  BY <1>1, <1>4, <4>1 DEF Strength, Indexes
    <3> QED  BY <3>1, <3>2
  <2>2. x # "[" /\ ~Infix(p)
    BY <1>1, <1>6 DEF Infix, Indexes, Binary, Operands, Callables
  <2> QED  BY <1>1, <1>3, <1>4, <2>1, <2>2
<1>7. CASE x = "["
  <2>1. r = 11
    BY <1>3, <1>7, Ranks
  <2>2. (Indexes(p) => t = 10) /\ (~Indexes(p) => t = 99)
    BY <1>1, <1>4, <1>7 DEF Strength
  <2>3. Infix(p) => Indexes(p)
    BY <1>1, <1>7 DEF Infix, Binary
  <2> QED  BY <1>1, <1>3, <1>4, <1>7, <2>1, <2>2, <2>3
<1> QED  BY <1>2, <1>5, <1>6, <1>7 DEF Kinds, Binary

(* From priorities to strengths.                                           *)
LEMMA StrongerBy ==
  ASSUME NEW dc \in Int, NEW dm \in Int, NEW rc \in 1 .. 13, NEW rm \in 1 .. 13, NEW tc \in Int, NEW tm \in Int,
         NEW pc, pc = 13 * dc + rc, NEW pm, pm = 13 * dm + rm, NEW front \in BOOLEAN, NEW right \in BOOLEAN,
         pc > pm \/ (pc = pm /\ (front <=> ~right)), right => rm <= 9,
         rc <= 10 => tc = rc, rm <= 10 => tm = rm, rc >= 11 => tc \in {10, 99}, rc > 11 => tc = 99, rm > 9 /\ tc = 10 /\ rc = 11 /\ rm <= 10 => front,
         rm >= 11 /\ ~(tm = 10 /\ rm = 11 /\ front) => pc > 13 * dm + 13
  PROVE  dc > dm \/ (dc = dm /\ tc > tm) \/ (dc = dm /\ tc = tm /\ tm < 99 /\ (front <=> ~right))
<1>1. dc >= dm
  BY ONLY dc \in Int, dm \in Int, rc \in 1 .. 13, rm \in 1 .. 13, pc = 13 * dc + rc, pm = 13 * dm + rm, pc > pm \/ (pc = pm /\ (front <=> ~right))
<1>2. CASE dc = dm
  <2>1. pc <= 13 * dm + 13 /\ (pc > pm <=> rc > rm) /\ (pc = pm <=> rc = rm)
    BY ONLY <1>2, dc \in Int, dm \in Int, rc \in 1 .. 13, rm \in 1 .. 13, pc = 13 * dc + rc, pm = 13 * dm + rm
  <2>2. rm >= 11 => tm = 10 /\ rm = 11 /\ front
    BY <2>1
  <2>3. CASE rm >= 11
    <3>1. tm = 10 /\ rm = 11 /\ front /\ rc >= 11 /\ ~right
      BY <2>1, <2>2, <2>3
    <3>2. tc \in {10, 99}
      BY <3>1
    <3> QED  BY <1>2, <3>1, <3>2
  <2>4. CASE rm <= 10
    <3>1. tm = rm /\ (rc > rm \/ (rc = rm /\ (front <=> ~right)))
      BY <2>1, <2>4
    <3>2. CASE rc <= 10
      <4>1. tc = rc
        BY <3>2
      <4> QED  BY <1>2, <3>1, <4>1
    <3>3. CASE rc >= 11
      <4>1. tc \in {10, 99}
        BY <3>3
      <4>2. tc > tm \/ (tc = 10 /\ rm = 10 /\ rc = 11)
        BY <2>4, <3>1, <3>3, <4>1
      <4>3. tc = 10 /\ rm = 10 /\ rc = 11 => front /\ ~right
        BY <3>1
      <4> QED  BY <1>2, <3>1, <4>1, <4>2, <4>3
    <3> QED  BY <3>2, <3>3
  <2> QED  BY <2>3, <2>4
<1>3. CASE dc # dm
  BY <1>1, <1>3
<1> QED  BY <1>2, <1>3

LEMMA DepthInt ==
  ASSUME symbols \in Seq(Kinds), NEW p \in 1 .. Len(symbols)
  PROVE  Depth(p) \in Int /\ Depth(p) = DepthIn(symbols, p)
<1>1. Len(symbols) \in Nat /\ p \in Nat /\ p - 1 \in Int
  OBVIOUS
<1> DEFINE A == {q \in 1 .. p - 1 : Opens(q)}
           B == {q \in 1 .. p : Closed(q)}
<1>2. Cardinality(A) \in Int
  <2>1. IsFiniteSet(1 .. p - 1) /\ A \subseteq 1 .. p - 1
    <3>1. \A k \in Int : IsFiniteSet(1 .. k)
      BY FS_Interval
    <3> QED  BY <1>1, <3>1
  <2> HIDE DEF A
  <2>2. IsFiniteSet(A)
    BY <2>1, FS_Subset
  <2> QED  BY <2>2, FS_CardinalityType
<1>3. Cardinality(B) \in Int
  <2>1. IsFiniteSet(1 .. p) /\ B \subseteq 1 .. p
    BY <1>1, FS_Interval
  <2> HIDE DEF B
  <2>2. IsFiniteSet(B)
    BY <2>1, FS_Subset
  <2> QED  BY <2>2, FS_CardinalityType
<1>4. Depth(p) = Cardinality(A) - Cardinality(B)
  BY DEF Depth
<1>5. Opening(symbols, p - 1) = A /\ Closing(symbols, p) = B
  BY DEF Opening, Closing, Opens, Closed
<1> HIDE DEF A, B
<1> QED  BY <1>2, <1>3, <1>4, <1>5 DEF DepthIn

LEMMA GroupsFollows == GroupInv => TreeGroups
<1> SUFFICES ASSUME GroupInv, Complete PROVE TreeGroups
  BY DEF TreeGroups
<1>1. /\ Grouped /\ Typed /\ Built /\ Leafy(node, {}) /\ node \in NodesType /\ symbols \in Seq(Kinds)
  BY DEF GroupInv, TreeInv, IInv, Complete, Typed
<1>2. /\ Terms = TermsIn(symbols) /\ Subtree(node, root) = Terms
      /\ \A p \in Terms : Infix(p) <=> p \in InfixesIn(symbols)
  <2>1. Terms = TermsIn(symbols)
    BY DEF Terms, TermsIn, Nodeless
  <2>2. ASSUME NEW p \in Terms PROVE Infix(p) <=> p \in InfixesIn(symbols)
    <3>1. p \in 1 .. Len(symbols)
      BY DEF Terms
    <3> QED  BY <3>1 DEF Infix, Indexes, EndsOperand, InfixesIn, Finals
  <2> QED  BY <1>1, <2>1, <2>2 DEF Grouped
<1>3. root \in Nodes \/ Terms = {}
  <2>1. root = NULL => Subtree(node, root) = {}
    BY DEF Subtree
  <2> QED  BY <1>1, <1>2, <2>1 DEF Typed
<1>4. \A p \in Terms : /\ p \in Nodes /\ p \in 1 .. Len(symbols) /\ Depth(p) \in Int /\ node[p].sym = symbols[p]
                       /\ node[p].priority = 13 * Depth(p) + Rank(symbols[p])
  <2>1. ASSUME NEW p \in Terms
        PROVE  /\ p \in Nodes /\ p \in 1 .. Len(symbols) /\ Depth(p) \in Int /\ node[p].sym = symbols[p]
               /\ node[p].priority = 13 * Depth(p) + Rank(symbols[p])
    <3>1. p \in 1 .. Len(symbols)
      BY DEF Terms
    <3>2. Depth(p) \in Int /\ Depth(p) = DepthIn(symbols, p)
      BY <1>1, <3>1, DepthInt
    <3>3. node[p].sym = symbols[p] /\ node[p].priority = 13 * DepthIn(symbols, p) + Rank(symbols[p])
      BY <1>1, <1>2 DEF Grouped, Labelled
    <3>4. p \in Nodes
      BY <1>1, <1>2, <1>3, SubtreeFacts
    <3> QED  BY <3>1, <3>2, <3>3, <3>4
  <2> QED  BY <2>1
<1>5. ASSUME NEW m \in Terms, NEW i \in Slots, NEW c, c = node[m].params[i], c # NULL
      PROVE  /\ IF i = 0 /\ Infix(m) THEN Before(Subtree(node, c), {m}) ELSE Before({m}, Subtree(node, c))
             /\ \A j \in 0 .. i - 1 : Before(Subtree(node, node[m].params[j]), Subtree(node, c))
             /\ Stronger(c, m) \/ (AsStrong(c, m) /\ (i = 0 <=> ~GroupsRight(m)))
  <2>1. m \in Nodes
    BY <1>4
  <2>2. c \in Terms
    <3>1. c \in Children(node, m)
      BY <1>5 DEF Children
    <3>2. root \in Nodes
      BY <1>3
    <3> QED  BY <1>1, <1>2, <3>1, <3>2, SubtreeFacts
  <2>3. PICK I : I = InfixesIn(symbols)
    OBVIOUS
  <2>4. Arranged(node, I) /\ Bound(node, I) /\ (Infix(m) <=> m \in I)
    BY <1>1, <1>2, <2>3 DEF Grouped, Grouping
  <2>5. Behind(node, I, m, i) /\ Binds(node, I, m, i)
    BY <2>1, <2>4 DEF Arranged, Bound
  <2>6. /\ IF i = 0 /\ Infix(m) THEN Before(Subtree(node, c), {m}) ELSE Before({m}, Subtree(node, c))
        /\ \A j \in 0 .. i - 1 : Before(Subtree(node, node[m].params[j]), Subtree(node, c))
    BY <1>5, <2>4, <2>5 DEF Behind
  <2>7. PICK dc, dm, rc, rm, tc, tm, pc, pm : /\ dc = Depth(c) /\ dm = Depth(m) /\ rc = Rank(symbols[c]) /\ rm = Rank(symbols[m])
                                      /\ tc = Strength(c) /\ tm = Strength(m) /\ pc = node[c].priority /\ pm = node[m].priority
    OBVIOUS
  <2>8. /\ dc \in Int /\ dm \in Int /\ pc = 13 * dc + rc /\ pm = 13 * dm + rm
        /\ node[m].sym = symbols[m] /\ node[c].sym = symbols[c]
    BY <1>4, <2>2, <2>7
  <2>9. /\ rc \in 1 .. 13 /\ tc \in Int /\ (rc <= 10 => tc = rc) /\ (rc >= 11 => tc = 99 \/ (tc = 10 /\ symbols[c] = "["))
        /\ symbols[c] = "[" => rc = 11
    BY <1>1, <2>2, <2>7, StrengthIs
  <2>10. /\ rm \in 1 .. 13 /\ tm \in Int /\ (rm <= 10 => tm = rm) /\ (rm >= 11 /\ Infix(m) => tm = 10 /\ rm = 11)
         /\ rm = 10 => symbols[m] = "."
    BY <1>1, <2>7, StrengthIs
  <2>11. PICK front \in BOOLEAN : front <=> i = 0
    OBVIOUS
  <2>12. PICK right \in BOOLEAN : right <=> GroupsRight(m)
    OBVIOUS
  <2>13. pc > pm \/ (pc = pm /\ (front <=> ~right))
    BY <1>5, <2>5, <2>7, <2>8, <2>11, <2>12 DEF Binds, GroupsRight
  <2>14. right => rm <= 9
    BY <2>7, <2>12, Ranks DEF GroupsRight
  <2>15. tc = 10 /\ rc = 11 /\ rm = 10 => front
    <3> SUFFICES ASSUME tc = 10, rc = 11, rm = 10, ~front PROVE FALSE
      OBVIOUS
    <3>1. symbols[c] = "[" /\ symbols[m] = "."
      BY <2>9, <2>10
    <3>2. node[m].sym = "." /\ node[c].sym = "["
      BY <2>8, <3>1
    <3>3. node[m].index = 1 /\ ~(i > 1)
      BY <1>1, <1>5, <2>1, <3>2 DEF Built, Dotted, Below
    <3>4. i = 1
      <4>1. i \in Nat
        BY Numbers
      <4> QED  BY <2>11, <3>3, <4>1
    <3>5. node[c].sym = "object"
      BY <1>1, <1>5, <2>1, <3>2, <3>4 DEF Leafy
    <3> QED  BY <3>2, <3>5
  <2>16. rm >= 11 /\ ~(tm = 10 /\ rm = 11 /\ front) => pc > 13 * dm + 13
    <3> SUFFICES ASSUME rm >= 11, ~(tm = 10 /\ rm = 11 /\ front) PROVE pc > 13 * dm + 13
      OBVIOUS
    <3>1. ~(i = 0 /\ m \in I)
      BY <2>4, <2>10, <2>11
    <3>2. \A l \in Int : node[m].priority = 13 * l + Rank(node[m].sym) /\ Rank(node[m].sym) >= 11 => node[c].priority > 13 * l + 13
      BY <1>5, <2>5, <3>1 DEF Binds
    <3>3. node[m].priority = 13 * dm + Rank(node[m].sym) /\ Rank(node[m].sym) >= 11
      BY <2>7, <2>8
    <3> QED  BY <2>7, <2>8, <3>2, <3>3
  <2>17. rc >= 11 => tc \in {10, 99}
    BY <2>9
  <2>18. rc > 11 => tc = 99
    BY <2>9
  <2>19. rm > 9 /\ tc = 10 /\ rc = 11 /\ rm <= 10 => front
    BY <2>10, <2>15
  <2>20. dc > dm \/ (dc = dm /\ tc > tm) \/ (dc = dm /\ tc = tm /\ tm < 99 /\ (front <=> ~right))
    BY <2>8, <2>9, <2>10, <2>13, <2>14, <2>16, <2>17, <2>18, <2>19, StrongerBy
  <2>21. Stronger(c, m) \/ (AsStrong(c, m) /\ (i = 0 <=> ~GroupsRight(m)))
    BY <2>7, <2>11, <2>12, <2>20 DEF Stronger, AsStrong
  <2> QED  BY <2>6, <2>21
<1> QED  BY <1>2, <1>5 DEF TreeGroups

LEMMA NextGroup ==
  ASSUME Plain, GroupInv, [Next]_vars
  PROVE  GroupInv'
<1>1. TreeInv'
  BY NextTreeInv DEF GroupInv
<1>2. ASSUME NEW x \in Symbols, ReadSymbol(x) PROVE GroupInv'
  BY <1>2, GroupedRead
<1>3. ASSUME EndStatement PROVE GroupInv'
  <2>1. Between'
    BY <1>3, EndBetween DEF GroupInv, TreeInv
  <2>2. Between' => GroupInv'
    BY BlankGroup, PTL
  <2> QED  BY <2>1, <2>2
<1>4. ASSUME NewLine \/ \E n \in todo : Evaluate(n) PROVE GroupInv'
  <2>1. stage' = "evaluate"
    BY <1>4 DEF NewLine, Evaluate, GroupInv, TreeInv, IInv, Typed
  <2> QED  BY <1>1, <2>1 DEF GroupInv
<1>5. ASSUME UNCHANGED vars PROVE GroupInv'
  <2>1. /\ node' = node /\ root' = root /\ stage' = stage /\ phase' = phase /\ precedence' = precedence /\ open' = open
        /\ symbols' = symbols /\ target' = target
    BY <1>5 DEF vars
  <2>2. Grouped => Grouped'
    BY <2>1 DEF Grouped, Labelled, Ending, LastSymbol
  <2>3. Standing => Standing'
    BY <2>1 DEF Standing, Spined, LastSymbol
  <2> QED  BY <1>1, <2>1, <2>2, <2>3 DEF GroupInv
<1> QED  BY <1>2, <1>3, <1>4, <1>5 DEF Next

(* Every complete statement has become a tree of all of its symbols in     *)
(* which the operands of each stand around it in their order and bind      *)
(* stronger, in every program that neither compares with != nor indexes    *)
(* the result of a method (Process, Get_Precedence, Finalize).             *)
THEOREM StatementAlwaysGrouped == Plain => (Spec => []TreeGroups)
<1>1. Init => GroupInv
  BY InitBetween, BlankGroup
<1>2. Plain /\ GroupInv /\ [Next]_vars => GroupInv'
  BY NextGroup
<1>3. GroupInv => TreeGroups
  BY GroupsFollows
<1> SUFFICES ASSUME Plain PROVE Spec => []TreeGroups
  OBVIOUS
<1>4. GroupInv /\ [Next]_vars => GroupInv'
  BY <1>2
<1> QED  BY <1>1, <1>3, <1>4, PTL DEF Spec
=============================================================================
