------------------------------ MODULE FilterProofs ------------------------------
(***************************************************************************)
(* Theorems about Compiler for programs without any of the Habits, but for *)
(* an index out of range: the clarity filters cover what happens at run    *)
(* time, and the code is right for the types it meets.                     *)
(*                                                                         *)
(* The argument is Floyd's, over code that is still being written: every   *)
(* position of the code and every label that is not placed yet has a set   *)
(* of environments (an annotation), every instruction leads from the set   *)
(* at its position into the set at the next and at its target, the end of  *)
(* the code has what the filters say, and a label has what they say of the *)
(* locals that no block above the label has corrupted.                     *)
(***************************************************************************)
EXTENDS CompilerProofs, FiniteSetTheorems

Envs == [Symbols -> RT]

(* What a filter admits here; Admits is at least that. *)
Adm(f) == f.flags \cup IF Only(f, CRY_REFERENCE) /\ "range" \in Allowed THEN {CRY_NIL} ELSE {}

(* The environments that the filters st cover on the symbols S. *)
Covered(st, S) == {e \in Envs : \A s \in S : e[s] \in Adm(st[s])}

(* Label p belongs to the block of depth -p \div 2.                        *)
Corrupted(lk, p) == UNION {lk[k].corruptions : k \in {j \in 1 .. Len(lk) : 2 * j + 1 + p >= 0}}
Waits(st, lk)    == [p \in Int |-> Covered(st, Locals \ Corrupted(lk, p))]

(* Where the back jumps of loops lead, without a loop whose condition is   *)
(* still being compiled, and with it.                                      *)
Entered(lk) == {lk[k].back : k \in {j \in 1 .. Len(lk) : lk[j].back # 0 /\ ~lk[j].pending}}
Backs(lk)   == {lk[k].back : k \in {j \in 1 .. Len(lk) : lk[j].back # 0}}

Sound(i, e) == e[i.dest] \in i.dneeds /\ (IF i.src \in Symbols THEN e[i.src] ELSE i.src) \in i.sneeds

(* Executing i in environment e may give e2, and go on behind i. *)
Leads(i, e, e2) ==
  \/ i.do = "write" /\ \E t \in i.gives : e2 = [e EXCEPT ![i.dest] = t]
  \/ i.do \in {"store", "branch"} /\ e2 = e
  \/ i.do = "copy" /\ e2 = [e EXCEPT ![i.dest] = e[i.src]]
  \/ /\ i.do = "copy_ref"
     /\ \E t \in IF e[i.dest] = CRY_REFERENCE THEN {CRY_REFERENCE} ELSE Deref(e[i.src]) :
          e2 = [e EXCEPT ![i.dest] = t]
  \/ i.do = "swap" /\ e2 = [e EXCEPT ![i.dest] = e[i.src], ![i.src] = e[i.dest]]
  \/ i.do = "not" /\ e2 = [e EXCEPT ![i.dest] = IF @ = CRY_NIL THEN CRY_NIL ELSE CRY_BOOL]
  \/ /\ i.do = "obscure"
     /\ \E t \in Dynamic(i.op, e[i.dest], IF i.src \in Symbols THEN e[i.src] ELSE i.src) :
          e2 = [e EXCEPT ![i.dest] = t]

(* A constant stored through an element that is not there is unsound. *)
Strict == "range" \notin Allowed \/ Literals = {}

Fits(i, P, Q) ==
  \A e \in P : (Strict => Sound(i, e)) /\ (Sound(i, e) => \A e2 : Leads(i, e, e2) => e2 \in Q)

Annotates(A, c, T, L, B) ==
  /\ A \in [Int -> SUBSET Envs]
  /\ \A j \in 1 .. Len(c) : /\ Fits(c[j], A[j], A[j + 1])
                            /\ c[j].do \in {"jump", "branch"} => A[j] \subseteq A[c[j].to]
  /\ A[Len(c) + 1] = T
  /\ \A p \in Int : p < 0 => A[p] = L[p]
  /\ \A b \in B : A[b] = Envs

(* Jumps of i lead to where they are expected. *)
Joins(i, T, L, B) ==
  i.do \in {"jump", "branch"} => i.to \in B \/ (i.to < 0 /\ T \subseteq L[i.to])

(* The labels admit as much as before. *)
Grows(labels, L, L2) ==
  L2 \in [Int -> SUBSET Envs] /\ \A p \in labels : L[p] \subseteq L2[p]

(* A2 admits as much as A at the positions up to the end of code c. *)
Widens(c, A, A2) == \A p \in 1 .. Len(c) + 1 : A[p] \subseteq A2[p]

(* d is code c and one more instruction. *)
Adds(c, i, d) == Len(d) = Len(c) + 1 /\ d[Len(c) + 1] = i /\ \A j \in 1 .. Len(c) : d[j] = c[j]

PendingLoop == Pending /\ Last(lookups).back # 0

(* What the filters say of what can be read.  A condition of a loop is run *)
(* again after the body, when only its own results are known.              *)
Here(K) == Covered(states, K \cup live)

Basic == \A x \in Symbols : states[x] = Obscurity \/ \E t \in RT : states[x] = Set(t)

Cover ==
  /\ Basic
  /\ pc # 0 => \E A : /\ Annotates(A, code, Here(Locals), Waits(states, lookups), Entered(lookups))
                      /\ env \in A[pc]
  /\ pc # 0 /\ PendingLoop =>
       \E A : Annotates(A, code, Here({}), Waits(states, lookups), Backs(lookups))
---------------------------------------------------------------------------
(* Annotations.                                                            *)

LEMMA FitsMonotone ==
  ASSUME NEW i, NEW P, NEW Q, NEW P2, NEW Q2, Fits(i, P, Q), P2 \subseteq P, Q \subseteq Q2
  PROVE  Fits(i, P2, Q2)
BY DEF Fits

LEMMA WaitsType ==
  ASSUME NEW st, NEW lk PROVE Waits(st, lk) \in [Int -> SUBSET Envs]
BY DEF Waits, Covered

LEMMA CodeElements ==
  ASSUME NEW c, NEW lk, CodeType(c, lk)
  PROVE  /\ Len(c) \in Nat /\ c \in Seq(Instructions) /\ DOMAIN c = 1 .. Len(c)
         /\ \A j \in 1 .. Len(c) : /\ c[j] \in Instructions /\ c[j].to \in Int
                                   /\ c[j].to <= Len(c) + 1
                                   /\ c[j].to < 0 => c[j].to \in Labels(lk)
<1>1. Len(c) \in Nat /\ c \in Seq(Instructions) /\ DOMAIN c = 1 .. Len(c)
  BY DEF CodeType
<1>2. \A i \in Instructions : i.to \in Int
  BY DEF Instructions
<1> QED  BY <1>1, <1>2 DEF CodeType, Placed

(* No code. *)
LEMMA Empty ==
  ASSUME NEW T \in SUBSET Envs, NEW L \in [Int -> SUBSET Envs]
  PROVE  \E A : Annotates(A, <<>>, T, L, {}) /\ A[1] = T
<1> DEFINE A == [p \in Int |-> IF p < 0 THEN L[p] ELSE T]
<1>1. A \in [Int -> SUBSET Envs] /\ A[1] = T /\ \A p \in Int : p < 0 => A[p] = L[p]
  OBVIOUS
<1>2. Len(<<>>) = 0
  BY EmptySeq
<1> HIDE DEF A
<1>3. Annotates(A, <<>>, T, L, {})
  BY <1>1, <1>2 DEF Annotates
<1> QED  BY <1>1, <1>3

(* Back jumps lead where they led, or to the end where anything may be. *)
BacksKept(c, T, B, B2) ==
  B2 \subseteq B \cup (IF T = Envs THEN {Len(c) + 1} ELSE {}) /\ B2 \subseteq 1 .. Len(c) + 1

(* More at the end and at the labels. *)
LEMMA Relaxed ==
  ASSUME NEW c, NEW lk, CodeType(c, lk), NEW A, NEW T, NEW L, NEW B,
         Annotates(A, c, T, L, B),
         NEW T2 \in SUBSET Envs, T \subseteq T2, NEW L2, Grows(Labels(lk), L, L2),
         NEW B2, BacksKept(c, T2, B, B2)
  PROVE  \E A2 : /\ Annotates(A2, c, T2, L2, B2)
                 /\ Widens(c, A, A2)
<1> DEFINE A2 == [p \in Int |-> IF p < 0 THEN L2[p] ELSE IF p = Len(c) + 1 THEN T2 ELSE A[p]]
<1>1. Len(c) \in Nat /\ \A j \in 1 .. Len(c) : c[j].to \in Int /\ (c[j].to < 0 => c[j].to \in Labels(lk))
  BY CodeElements
<1>2. /\ A \in [Int -> SUBSET Envs] /\ A[Len(c) + 1] = T /\ \A p \in Int : p < 0 => A[p] = L[p]
      /\ \A b \in B : A[b] = Envs
  BY DEF Annotates
<1>3. /\ A2 \in [Int -> SUBSET Envs] /\ A2[Len(c) + 1] = T2
      /\ \A p \in Int : p < 0 => A2[p] = L2[p]
      /\ \A p \in Int : p >= 0 /\ p # Len(c) + 1 => A2[p] = A[p]
  BY <1>1, <1>2 DEF Grows
<1> HIDE DEF A2
<1>4. \A p \in Int : p >= 0 \/ p \in Labels(lk) => A[p] \subseteq A2[p]
  BY <1>1, <1>2, <1>3 DEF Grows
<1>5. \A p \in 1 .. Len(c) + 1 : p \in Int /\ p >= 0
  BY <1>1
<1>6. \A b \in B2 : A2[b] = Envs
  <2>1. \A b \in B2 : b \in 1 .. Len(c) + 1
    BY DEF BacksKept
  <2>2. ASSUME NEW b \in B2 PROVE A2[b] = Envs
    <3>1. CASE b = Len(c) + 1
      <4>1. CASE b \in B
        <5>1. T = Envs
          BY <1>2, <3>1, <4>1
        <5> QED  BY <1>3, <3>1, <5>1
      <4>2. CASE b \notin B
        BY <1>3, <3>1, <4>2 DEF BacksKept
      <4> QED  BY <4>1, <4>2
    <3>2. CASE b # Len(c) + 1
      <4>1. b \in B
        BY <3>2 DEF BacksKept
      <4> QED  BY <1>2, <1>3, <1>5, <2>1, <3>2, <4>1
    <3> QED  BY <3>1, <3>2
  <2> QED  BY <2>2
<1>7. ASSUME NEW j \in 1 .. Len(c)
      PROVE  /\ Fits(c[j], A2[j], A2[j + 1])
             /\ c[j].do \in {"jump", "branch"} => A2[j] \subseteq A2[c[j].to]
  <2>1. A2[j] = A[j] /\ A[j + 1] \subseteq A2[j + 1] /\ A[c[j].to] \subseteq A2[c[j].to]
    <3>1. j \in Int /\ j >= 0 /\ j # Len(c) + 1 /\ j + 1 \in Int /\ j + 1 >= 0
      BY <1>1
    <3> QED  BY <1>1, <1>3, <1>4, <3>1
  <2>2. Fits(c[j], A[j], A[j + 1]) /\ (c[j].do \in {"jump", "branch"} => A[j] \subseteq A[c[j].to])
    BY DEF Annotates
  <2> QED  BY <2>1, <2>2, FitsMonotone
<1>8. Annotates(A2, c, T2, L2, B2)
  BY <1>3, <1>6, <1>7 DEF Annotates
<1> QED  BY <1>4, <1>5, <1>8 DEF Widens
(* One more instruction. *)
LEMMA Appended ==
  ASSUME NEW c, NEW lk, CodeType(c, lk), NEW A, NEW T, NEW L, NEW B,
         Annotates(A, c, T, L, B), B \subseteq 1 .. Len(c) + 1,
         NEW T2 \in SUBSET Envs, NEW L2, Grows(Labels(lk), L, L2),
         NEW i \in Instructions, Fits(i, T, T2), Joins(i, T, L2, B),
         NEW d, Adds(c, i, d)
  PROVE  \E A2 : /\ Annotates(A2, d, T2, L2, B)
                 /\ Widens(c, A, A2)
<1> DEFINE A2 == [p \in Int |-> IF p < 0 THEN L2[p] ELSE IF p = Len(c) + 2 THEN T2 ELSE A[p]]
<1>1. Len(c) \in Nat /\ c \in Seq(Instructions) /\ i.to \in Int
      /\ \A j \in 1 .. Len(c) : c[j].to \in Int /\ c[j].to <= Len(c) + 1
                                /\ (c[j].to < 0 => c[j].to \in Labels(lk))
  BY CodeElements DEF Instructions
<1>2. L2 \in [Int -> SUBSET Envs] /\ \A p \in Labels(lk) : L[p] \subseteq L2[p]
  BY DEF Grows
<1>3. Len(d) = Len(c) + 1 /\ d[Len(c) + 1] = i /\ \A j \in 1 .. Len(c) : d[j] = c[j]
  BY DEF Adds
<1>4. /\ A \in [Int -> SUBSET Envs] /\ A[Len(c) + 1] = T /\ \A p \in Int : p < 0 => A[p] = L[p]
      /\ \A b \in B : A[b] = Envs
  BY DEF Annotates
<1>5. /\ A2 \in [Int -> SUBSET Envs] /\ A2[Len(c) + 2] = T2
      /\ \A p \in Int : p < 0 => A2[p] = L2[p]
      /\ \A p \in Int : p >= 0 /\ p <= Len(c) + 1 => A2[p] = A[p]
  BY <1>1, <1>2, <1>4
<1> HIDE DEF A2
<1>6. \A p \in 1 .. Len(c) + 1 : A2[p] = A[p]
  BY <1>1, <1>5
<1>7. \A b \in B : A2[b] = Envs
  BY <1>4, <1>6
<1>8. ASSUME NEW j \in 1 .. Len(c) + 1
      PROVE  /\ Fits(d[j], A2[j], A2[j + 1])
             /\ d[j].do \in {"jump", "branch"} => A2[j] \subseteq A2[d[j].to]
  <2>1. CASE j \in 1 .. Len(c)
    <3>1. A2[j] = A[j] /\ A[j + 1] = A2[j + 1] /\ A[c[j].to] \subseteq A2[c[j].to]
      <4>1. j + 1 \in 1 .. Len(c) + 1
        BY <1>1, <2>1
      <4>2. c[j].to \in Int /\ c[j].to <= Len(c) + 1 /\ (c[j].to < 0 => c[j].to \in Labels(lk))
        BY <1>1, <2>1
      <4>3. A[c[j].to] \subseteq A2[c[j].to]
        BY <1>2, <1>4, <1>5, <4>2
      <4> QED  BY <1>6, <4>1, <4>3
    <3>2. Fits(c[j], A[j], A[j + 1]) /\ (c[j].do \in {"jump", "branch"} => A[j] \subseteq A[c[j].to])
      BY <2>1 DEF Annotates
    <3>3. d[j] = c[j]
      BY <1>3, <2>1
    <3> QED  BY <3>1, <3>2, <3>3
  <2>2. CASE j = Len(c) + 1
    <3>1. d[j] = i /\ A2[j] = T /\ A2[j + 1] = T2
      <4>1. j \in 1 .. Len(c) + 1 /\ j + 1 = Len(c) + 2
        BY <1>1, <2>2
      <4> QED  BY <1>3, <1>4, <1>5, <1>6, <2>2, <4>1
    <3>2. i.to \in B => A2[i.to] = Envs
      BY <1>7
    <3>3. T \subseteq Envs
      BY <1>1, <1>4
    <3>4. i.to < 0 => A2[i.to] = L2[i.to]
      BY <1>1, <1>5
    <3> QED  BY <3>1, <3>2, <3>3, <3>4 DEF Joins
  <2> QED  BY <1>1, <2>1, <2>2
<1>9. Annotates(A2, d, T2, L2, B)
  <2>1. Len(d) + 1 = Len(c) + 2
    BY <1>1, <1>3
  <2> QED  BY <1>3, <1>5, <1>7, <1>8, <2>1 DEF Annotates
<1> QED  BY <1>6, <1>9 DEF Widens

(* Labels are placed. *)
LEMMA LabelsPlaced ==
  ASSUME NEW c, NEW lk, CodeType(c, lk), NEW A, NEW T, NEW L, NEW B,
         Annotates(A, c, T, L, B),
         NEW labels, NEW T2 \in SUBSET Envs, NEW L2 \in [Int -> SUBSET Envs], T \subseteq T2,
         \A p \in labels : p < 0 /\ p \in Int /\ L[p] \subseteq T2,
         \A p \in Labels(lk) \ labels : L[p] \subseteq L2[p],
         NEW B2, B2 \subseteq B, B2 \subseteq 1 .. Len(c) + 1
  PROVE  \E A2 : /\ Annotates(A2, Landed(c, labels), T2, L2, B2)
                 /\ Widens(c, A, A2)
<1> DEFINE A2 == [p \in Int |-> IF p < 0 THEN L2[p] ELSE IF p = Len(c) + 1 THEN T2 ELSE A[p]]
<1>1. Len(c) \in Nat /\ c \in Seq(Instructions) /\ DOMAIN c = 1 .. Len(c)
      /\ \A j \in 1 .. Len(c) : c[j] \in Instructions /\ c[j].to \in Int /\ c[j].to <= Len(c) + 1
                                /\ (c[j].to < 0 => c[j].to \in Labels(lk))
  BY CodeElements
<1>2. PICK d : d = Landed(c, labels)
  OBVIOUS
<1>3. /\ Len(d) = Len(c)
      /\ \A j \in 1 .. Len(c) : d[j] = IF c[j].to \in labels THEN [c[j] EXCEPT !.to = Len(c) + 1] ELSE c[j]
  <2>1. Labels(lk) \ labels \subseteq Labels(lk)
    OBVIOUS
  <2>2. d = [j \in 1 .. Len(c) |-> IF c[j].to \in labels THEN [c[j] EXCEPT !.to = Len(c) + 1] ELSE c[j]]
    BY <1>1, <1>2 DEF Landed
  <2> QED  BY <1>1, <2>2
<1>4. /\ A \in [Int -> SUBSET Envs] /\ A[Len(c) + 1] = T /\ \A p \in Int : p < 0 => A[p] = L[p]
      /\ \A b \in B : A[b] = Envs
  BY DEF Annotates
<1>5. /\ A2 \in [Int -> SUBSET Envs] /\ A2[Len(c) + 1] = T2
      /\ \A p \in Int : p < 0 => A2[p] = L2[p]
      /\ \A p \in Int : p >= 0 /\ p # Len(c) + 1 => A2[p] = A[p]
  BY <1>1, <1>4
<1> HIDE DEF A2
<1>6. \A p \in Int : p >= 0 \/ p \in Labels(lk) \ labels => A[p] \subseteq A2[p]
  BY <1>1, <1>4, <1>5
<1>7. \A b \in B2 : A2[b] = Envs
  <2>1. ASSUME NEW b \in B2 PROVE A2[b] = Envs
    <3>1. b \in Int /\ b >= 0 /\ A[b] = Envs
      BY <1>1, <1>4
    <3> QED  BY <1>5, <1>6, <3>1
  <2> QED  BY <2>1
<1>8. ASSUME NEW j \in 1 .. Len(c)
      PROVE  /\ Fits(d[j], A2[j], A2[j + 1])
             /\ d[j].do \in {"jump", "branch"} => A2[j] \subseteq A2[d[j].to]
  <2>1. A2[j] = A[j] /\ A[j + 1] \subseteq A2[j + 1]
    <3>1. j \in Int /\ j >= 0 /\ j # Len(c) + 1 /\ j + 1 \in Int /\ j + 1 >= 0
      BY <1>1
    <3> QED  BY <1>5, <1>6, <3>1
  <2>2. Fits(c[j], A[j], A[j + 1]) /\ (c[j].do \in {"jump", "branch"} => A[j] \subseteq A[c[j].to])
    BY DEF Annotates
  <2>3. CASE c[j].to \in labels
    <3>1. d[j] = [c[j] EXCEPT !.to = Len(c) + 1] /\ c[j] \in Instructions
      BY <1>1, <1>3, <2>3
    <3>2. PICK i \in Instructions : i = c[j]
      BY <1>1
    <3>3. PICK n \in Int : n = Len(c) + 1
      BY <1>1
    <3>4. PICK i2 : i2 = [i EXCEPT !.to = n]
      OBVIOUS
    <3>5. /\ i2.do = i.do /\ i2.to = n /\ i2.op = i.op /\ i2.dest = i.dest /\ i2.src = i.src
          /\ i2.dneeds = i.dneeds /\ i2.sneeds = i.sneeds /\ i2.gives = i.gives
      BY <3>4 DEF Instructions
    <3>6. Fits(i, A2[j], A2[j + 1])
      BY <2>1, <2>2, <3>2, FitsMonotone
    <3>7. Fits(i2, A2[j], A2[j + 1])
      <4>1. \A e : Sound(i2, e) = Sound(i, e)
        BY <3>5 DEF Sound
      <4>2. ASSUME NEW e, NEW e2, Leads(i2, e, e2)
            PROVE  Leads(i, e, e2)
        BY ONLY <3>5, <4>2 DEF Leads
      <4> QED  BY <3>6, <4>1, <4>2 DEF Fits
    <3>8. A[c[j].to] \subseteq A2[n]
      BY <1>4, <1>5, <2>3, <3>3
    <3> QED  BY <2>1, <2>2, <3>1, <3>2, <3>3, <3>4, <3>5, <3>7, <3>8
  <2>4. CASE c[j].to \notin labels
    <3>1. d[j] = c[j] /\ A[c[j].to] \subseteq A2[c[j].to]
      <4>1. c[j].to \in Int /\ (c[j].to >= 0 \/ c[j].to \in Labels(lk) \ labels)
        BY <1>1, <2>4
      <4> QED  BY <1>3, <1>6, <2>4, <4>1
    <3> QED  BY <2>1, <2>2, <3>1, FitsMonotone
  <2> QED  BY <2>3, <2>4
<1>9. Annotates(A2, d, T2, L2, B2)
  BY <1>3, <1>5, <1>7, <1>8 DEF Annotates
<1>10. \A p \in 1 .. Len(c) + 1 : p \in Int /\ p >= 0
  BY <1>1
<1> QED  BY <1>2, <1>6, <1>9, <1>10 DEF Widens
(* Code that is executed is dropped when no loop is open. *)
LEMMA Settled ==
  ASSUME NEW c, NEW p, NEW open, Settle(c, p, open), LookupsType(open), PlaceOK(c, p, open), p # 0,
         NEW A, NEW T, NEW L \in [Int -> SUBSET Envs], NEW B, Annotates(A, c, T, L, B),
         B \subseteq Backs(open), NEW e \in A[p]
  PROVE  /\ pc' # 0 /\ \E A2 : Annotates(A2, code', T, L, B) /\ e \in A2[pc']
         /\ Looping(open) => code' = c /\ pc' = p
<1> DEFINE idle == (p < 0 \/ p = Len(c) + 1) /\ \A l \in Range(open) : l.back = 0
<1>1. /\ code' = IF idle THEN <<>> ELSE c
      /\ pc'   = IF idle /\ p > 0 THEN 1 ELSE p
  BY DEF Settle
<1>2. (\A l \in Range(open) : l.back = 0) <=> ~Looping(open)
  BY LookupsElements DEF Range, Looping
<1>3. p \in Int /\ Len(c) \in Nat
  BY DEF PlaceOK, CodeType
<1>4. A \in [Int -> SUBSET Envs] /\ A[Len(c) + 1] = T /\ \A q \in Int : q < 0 => A[q] = L[q]
  BY DEF Annotates
<1>5. CASE idle
  <2>1. B = {}
    BY <1>2, <1>5 DEF Backs, Looping
  <2>2. T \in SUBSET Envs
    BY <1>3, <1>4
  <2>3. PICK A2 : Annotates(A2, <<>>, T, L, {}) /\ A2[1] = T
    BY <2>2, Empty
  <2>4. code' = <<>> /\ (p > 0 => pc' = 1 /\ e \in T) /\ (p < 0 => pc' = p /\ e \in L[p]) /\ (p > 0 \/ p < 0)
    BY <1>1, <1>3, <1>4, <1>5
  <2>5. p < 0 => A2[p] = L[p]
    BY <1>3, <2>3 DEF Annotates
  <2>6. Annotates(A2, code', T, L, B) /\ e \in A2[pc']
    BY <2>1, <2>3, <2>4, <2>5
  <2>7. ~Looping(open)
    BY <1>2, <1>5
  <2> HIDE DEF idle
  <2> QED  BY <2>4, <2>6, <2>7
<1>6. CASE ~idle
  <2> HIDE DEF idle
  <2>1. code' = c /\ pc' = p
    BY <1>1, <1>6
  <2> QED  BY <2>1
<1> QED  BY <1>5, <1>6

(* Execution. *)
LEMMA RunLeads ==
  ASSUME Run
  PROVE  \/ pc' = 0 /\ UNCHANGED <<states, lookups, live>>
         \/ /\ Running /\ Sound(This, env)
            /\ \E p : /\ Goto(p)
                      /\ \/ p = pc + 1 /\ Leads(This, env, env')
                         \/ p = This.to /\ env' = env /\ This.do \in {"jump", "branch"}
<1>1. CodeSound /\ Running => Sound(This, env)
  BY DEF CodeSound, Sound, TypeOf
<1>2. CASE Run_Write
  BY <1>1, <1>2 DEF Run_Write, Execute, Yields, Leads
<1>3. CASE Run_Store
  BY <1>1, <1>3 DEF Run_Store, Execute, Leads
<1>4. CASE Run_Copy
  BY <1>1, <1>4 DEF Run_Copy, Execute, Yields, Leads
<1>5. CASE Run_Copy_Ref
  BY <1>1, <1>5 DEF Run_Copy_Ref, Execute, Yields, Leads
<1>6. CASE Run_Swap
  BY <1>1, <1>6 DEF Run_Swap, Execute, Leads
<1>7. CASE Run_Not
  BY <1>1, <1>7 DEF Run_Not, Execute, Yields, Leads
<1>8. CASE Run_Obscure
  BY <1>1, <1>8 DEF Run_Obscure, Execute, Yields, Leads, TypeOf
<1>9. CASE Run_Jump
  BY <1>1, <1>9 DEF Run_Jump, Execute
<1>10. CASE Run_Branch
  BY <1>1, <1>10 DEF Run_Branch, Execute, Leads
<1>11. CASE Run_Return
  BY <1>11 DEF Run_Return
<1> QED  BY <1>2, <1>3, <1>4, <1>5, <1>6, <1>7, <1>8, <1>9, <1>10, <1>11 DEF Run

LEMMA RunCover ==
  ASSUME Struct, Cover, Run
  PROVE  Cover'
<1>1. CASE pc' = 0 /\ UNCHANGED <<states, lookups, live>>
  BY <1>1 DEF Cover, Basic
<1>2. CASE Running /\ Sound(This, env) /\ \E p : /\ Goto(p)
                      /\ \/ p = pc + 1 /\ Leads(This, env, env')
                         \/ p = This.to /\ env' = env /\ This.do \in {"jump", "branch"}
  <2>1. PICK p : /\ Goto(p)
                 /\ \/ p = pc + 1 /\ Leads(This, env, env')
                    \/ p = This.to /\ env' = env /\ This.do \in {"jump", "branch"}
    BY <1>2
  <2>2. /\ CodeType(code, lookups) /\ PlaceOK(code, pc, lookups) /\ LookupsType(lookups)
        /\ Len(code) \in Nat /\ pc \in 1 .. Len(code)
    BY <1>2, CodeElements DEF Struct, PlaceOK, Running
  <2>3. This = code[pc] /\ This.to \in Int /\ This.to <= Len(code) + 1
        /\ (This.to < 0 => This.to \in Labels(lookups))
    BY <2>2, CodeElements DEF This
  <2>4. PICK A : /\ Annotates(A, code, Here(Locals), Waits(states, lookups), Entered(lookups))
                 /\ env \in A[pc]
    BY <2>2 DEF Cover
  <2>5. /\ Fits(This, A[pc], A[pc + 1])
        /\ This.do \in {"jump", "branch"} => A[pc] \subseteq A[This.to]
    BY <2>2, <2>3, <2>4 DEF Annotates
  <2>6. env' \in A[p]
    BY <1>2, <2>1, <2>4, <2>5 DEF Fits
  <2>7. p \in Int /\ p <= Len(code) + 1 /\ (p < 0 => p \in Labels(lookups)) /\ Behind(lookups, Len(code) + 1)
    BY <2>1, <2>2, <2>3 DEF PlaceOK
  <2>8. PlaceOK(code, p, lookups)
    BY <2>2, <2>7 DEF PlaceOK
  <2>9. Settle(code, p, lookups) /\ UNCHANGED <<states, lookups, live>>
    BY <2>1 DEF Goto
  <2>10. CASE p # 0
    <3>1. Entered(lookups) \subseteq Backs(lookups)
      BY DEF Entered, Backs
    <3>2. /\ \E A2 : /\ Annotates(A2, code', Here(Locals), Waits(states, lookups), Entered(lookups))
                     /\ env' \in A2[pc']
          /\ Looping(lookups) => code' = code
      BY <2>2, <2>4, <2>6, <2>8, <2>9, <2>10, <3>1, Settled, WaitsType
    <3>3. PendingLoop => Looping(lookups)
      <4>1. lookups # <<>> => Len(lookups) \in 1 .. Len(lookups) /\ Last(lookups) = lookups[Len(lookups)]
        BY <2>2, LookupsElements, EmptySeq DEF Last
      <4> QED  BY <4>1 DEF PendingLoop, Pending, Looping
    <3>4. PendingLoop' = PendingLoop /\ Here(Locals)' = Here(Locals) /\ Here({})' = Here({}) /\ Basic'
      BY <2>9 DEF PendingLoop, Pending, Here, Cover, Basic
    <3>5. Waits(states, lookups)' = Waits(states, lookups) /\ Entered(lookups)' = Entered(lookups)
          /\ Backs(lookups)' = Backs(lookups)
      BY <2>9
    <3>6. PendingLoop => \E A2 : Annotates(A2, code', Here({}), Waits(states, lookups), Backs(lookups))
      <4>1. pc # 0
        BY <2>2
      <4> QED  BY <3>2, <3>3, <4>1 DEF Cover
    <3> HIDE DEF Entered, Backs
    <3> QED  BY <3>2, <3>4, <3>5, <3>6 DEF Cover
  <2>11. CASE p = 0
    <3>1. pc' = 0
      <4>1. p = 0 /\ ~(p > 0) /\ ~(p = Len(code) + 1) /\ ~(p < 0)
        BY <2>2, <2>11
      <4> QED  BY <2>9, <4>1 DEF Settle
    <3> QED  BY <2>9, <3>1 DEF Cover, Basic
  <2> QED  BY <2>10, <2>11
<1> QED  BY <1>1, <1>2, RunLeads
(* A method appends an instruction. *)
LEMMA BacksPlaced ==
  ASSUME Struct, pc # 0
  PROVE  /\ Backs(lookups) \subseteq 1 .. Len(code) + 1 /\ Entered(lookups) \subseteq Backs(lookups)
         /\ ~InLoop => Backs(lookups) = {}
<1>1. /\ Behind(lookups, Len(code) + 1) /\ LookupsType(lookups) /\ Len(code) \in Nat
      /\ \A k \in 1 .. Len(lookups) : lookups[k].back \in Nat
  BY LookupsElements, CodeElements DEF Struct, PlaceOK
<1>2. ~InLoop => \A k \in 1 .. Len(lookups) : lookups[k].back = 0
  BY <1>1, LoopingIs DEF Looping
<1> QED  BY <1>1, <1>2 DEF Backs, Entered, Behind

LEMMA ExtendedFits ==
  ASSUME Struct, pc = Tip \/ pc < 0,
         NEW A, NEW T, NEW L, NEW B, Annotates(A, code, T, L, B), B \subseteq Backs(lookups),
         NEW T2 \in SUBSET Envs, NEW L2, Grows(Labels(lookups), L, L2),
         NEW i \in Instructions, Fits(i, T, T2), Joins(i, T, L2, B)
  PROVE  \E A2 : /\ Annotates(A2, Extended(<<i>>), T2, L2, B)
                 /\ A[pc] \subseteq A2[pc]
<1>1. /\ CodeType(code, lookups) /\ Len(code) \in Nat /\ pc \in Int /\ Tip = Len(code) + 1
      /\ LookupsType(lookups) /\ (pc < 0 => pc \in Labels(lookups)) /\ pc # 0
  BY CodeElements DEF Struct, PlaceOK, Tip
<1>2. B \subseteq 1 .. Len(code) + 1 /\ (~InLoop => B = {})
  BY <1>1, BacksPlaced
<1>3. \A p \in Int : p < 0 => A[p] = L[p]
  BY DEF Annotates
<1>4. CASE pc > 0 \/ InLoop
  <2>1. Extended(<<i>>) = code \o <<i>>
    BY <1>4 DEF Extended
  <2>2. PICK d : d = code \o <<i>>
    OBVIOUS
  <2>7. Adds(code, i, d)
    BY <1>1, <2>2, CodeElements DEF Adds
  <2>6. PICK A2 : /\ Annotates(A2, d, T2, L2, B)
                  /\ Widens(code, A, A2)
    BY <1>1, <1>2, <2>7, Appended
  <2>3. \A p \in Int : p < 0 => A2[p] = L2[p]
    BY <2>6 DEF Annotates
  <2>4. CASE pc = Tip
    <3>1. pc \in 1 .. Len(code) + 1
      BY <1>1, <2>4
    <3> QED  BY <2>1, <2>2, <2>6, <3>1 DEF Widens
  <2>5. CASE pc < 0
    BY <1>1, <1>3, <2>1, <2>2, <2>3, <2>5, <2>6 DEF Grows
  <2> QED  BY <2>4, <2>5
<1>5. CASE ~(pc > 0 \/ InLoop)
  <2>1. Extended(<<i>>) = code /\ code = <<>> /\ pc < 0
    BY <1>1, <1>5, LoopingIs DEF Extended, Struct, Idle, Tip
  <2>2. PICK A2 : Annotates(A2, <<>>, T2, L2, {})
    BY Empty DEF Grows
  <2>3. \A p \in Int : p < 0 => A2[p] = L2[p]
    BY <2>2 DEF Annotates
  <2>4. A[pc] \subseteq A2[pc]
    BY <1>1, <1>3, <2>1, <2>3 DEF Grows
  <2>5. B = {}
    BY <1>2, <1>5
  <2> QED  BY <2>1, <2>2, <2>4, <2>5
<1> QED  BY <1>4, <1>5

LEMMA HereType == ASSUME NEW K PROVE Here(K) \in SUBSET Envs
BY DEF Here, Covered

(* Instruction i leads from what the filters say to what they will say.    *)
FitsHere(i) ==
  \A K : K = Locals \/ (K = {} /\ PendingLoop) =>
    Fits(i, Here(K), Here(K)') /\ Joins(i, Here(K), Waits(states', lookups'), {})

LEMMA EmitCover ==
  ASSUME Struct, Cover, pc = Tip \/ pc < 0, NEW i \in Instructions, Emit(<<i>>), Basic',
         Entered(lookups)' = Entered(lookups), Backs(lookups)' = Backs(lookups),
         PendingLoop' => PendingLoop,
         Grows(Labels(lookups), Waits(states, lookups), Waits(states', lookups')),
         FitsHere(i)
  PROVE  Cover'
<1> DEFINE L == Waits(states, lookups)
           L2 == Waits(states', lookups')
<1>1. pc' = pc /\ env' = env /\ code' = Extended(<<i>>)
  BY DEF Emit
<1>2. pc # 0
  BY TipNat DEF Struct, PlaceOK, CodeType, Tip
<1>7. \A T, B : Joins(i, T, L2, {}) => Joins(i, T, L2, B)
  BY DEF Joins
<1>3. L2 \in [Int -> SUBSET Envs] /\ Entered(lookups) \subseteq Backs(lookups)
      /\ \A K : Here(K)' \in SUBSET Envs
  BY <1>2, WaitsType, HereType, BacksPlaced DEF Here, Covered
<1>4. \E A : Annotates(A, code', Here(Locals)', L2, Entered(lookups)) /\ env' \in A[pc']
  <2>1. PICK A : Annotates(A, code, Here(Locals), L, Entered(lookups)) /\ env \in A[pc]
    BY <1>2 DEF Cover
  <2>2. PICK T2 : T2 = Here(Locals)'
    OBVIOUS
  <2> HIDE DEF L, L2
  <2>3. \E A2 : Annotates(A2, Extended(<<i>>), T2, L2, Entered(lookups)) /\ A[pc] \subseteq A2[pc]
    BY <1>3, <1>7, <2>1, <2>2, ExtendedFits DEF L, L2, FitsHere
  <2> QED  BY <1>1, <2>1, <2>2, <2>3
<1>5. PendingLoop' => \E A : Annotates(A, code', Here({})', L2, Backs(lookups))
  <2> SUFFICES ASSUME PendingLoop
               PROVE  \E A : Annotates(A, code', Here({})', L2, Backs(lookups))
    OBVIOUS
  <2>1. PICK A : Annotates(A, code, Here({}), L, Backs(lookups))
    BY <1>2 DEF Cover
  <2>2. PICK T2 : T2 = Here({})'
    OBVIOUS
  <2> HIDE DEF L, L2
  <2>3. \E A2 : Annotates(A2, Extended(<<i>>), T2, L2, Backs(lookups)) /\ A[pc] \subseteq A2[pc]
    BY <1>3, <1>7, <2>1, <2>2, ExtendedFits DEF L, L2, FitsHere
  <2> QED  BY <1>1, <2>1, <2>2, <2>3
<1> HIDE DEF L2
<1>6. L2 = Waits(states', lookups')
  BY DEF L2
<1> QED  BY <1>4, <1>5, <1>6 DEF Cover
---------------------------------------------------------------------------
(* Filters.                                                                *)

LEMMA NoHabit ==
  ASSUME Allowed \subseteq {"range"}
  PROVE  /\ "condition" \notin Allowed /\ "stale" \notin Allowed /\ "element" \notin Allowed
         /\ "compound" \notin Allowed /\ "swap" \notin Allowed /\ "not" \notin Allowed
         /\ "operand" \notin Allowed /\ "else" \notin Allowed
OBVIOUS

LEMMA AdmIs ==
  /\ \A t \in RT : /\ t \in Adm(Set(t)) /\ Set(t).flags = {t} /\ Size(Set(t)) = 1
                   /\ t # CRY_REFERENCE => Adm(Set(t)) = {t}
                   /\ ~Only(Set(t), CRY_REFERENCE) => t # CRY_REFERENCE
  /\ Adm(Set(CRY_REFERENCE)) \subseteq {CRY_REFERENCE, CRY_NIL}
  /\ "range" \in Allowed => CRY_NIL \in Adm(Set(CRY_REFERENCE))
  /\ RT \subseteq Adm(Obscurity) /\ ~Only(Obscurity, CRY_REFERENCE) /\ Size(Obscurity) # 1
  /\ \A f : Adm(f) \subseteq Admits(f)
<1>1. \A t : Only(Set(t), CRY_REFERENCE) <=> t = CRY_REFERENCE
  BY DEF Only, Set
<1>2. RT \subseteq Types /\ ~Only(Obscurity, CRY_REFERENCE) /\ Size(Obscurity) # 1 /\ Obscurity.flags = Types
  <2>1. 0 \in Types /\ 6 \in Types
    BY TypesAre
  <2> QED  BY <2>1 DEF Only, Obscurity, CRY_REFERENCE, Size, CRY_SYMS, RT
<1>3. \A t : Set(t).flags = {t} /\ Size(Set(t)) = 1
  BY DEF Set, Size
<1> QED  BY <1>1, <1>2, <1>3 DEF Adm, Admits

LEMMA LabelsAre ==
  ASSUME NEW lk, LookupsType(lk), NEW p \in Labels(lk)
  PROVE  p \in Int /\ p < 0 /\ Len(lk) \in Nat \ {0} /\ 2 * Len(lk) + 1 + p >= 0
<1>1. Len(lk) \in Nat /\ DOMAIN lk = 1 .. Len(lk)
  BY LookupsElements
<1>2. PICK k \in 1 .. Len(lk) : p \in {lk[k].next, lk[k].block}
  BY <1>1 DEF Labels
<1>3. p = -2 * k \/ p = -2 * k - 1
  BY <1>2 DEF LookupsType, NextLabel, BlockLabel
<1> QED  BY <1>1, <1>2, <1>3

(* A label admits of x as much as before. *)
Kept(x, st, lk, st2, lk2, labels) ==
  \/ RT \subseteq Adm(st2[x])
  \/ /\ Adm(st[x]) \subseteq Adm(st2[x])
     /\ \A p \in labels : x \in Corrupted(lk, p) => x \in Corrupted(lk2, p)
  \/ \A p \in labels : x \in Corrupted(lk2, p)

LEMMA WaitsGrow ==
  ASSUME NEW st, NEW lk, NEW st2, NEW lk2, NEW labels, labels \subseteq Int,
         \A x \in Locals : Kept(x, st, lk, st2, lk2, labels)
  PROVE  Grows(labels, Waits(st, lk), Waits(st2, lk2))
<1>1. Waits(st2, lk2) \in [Int -> SUBSET Envs]
  BY WaitsType
<1> SUFFICES ASSUME NEW p \in labels, NEW e \in Covered(st, Locals \ Corrupted(lk, p)),
                    NEW x \in Locals, x \notin Corrupted(lk2, p)
             PROVE  e[x] \in Adm(st2[x])
  BY <1>1 DEF Waits, Covered, Grows
<1>2. e[x] \in RT
  BY DEF Covered, Envs, Symbols
<1> QED  BY <1>2 DEF Covered, Kept

(* The top block is marked.                                                *)
LEMMA CorruptSame ==
  ASSUME Struct, NEW x, x \in Symbols, Corrupt(x) \/ UNCHANGED lookups
  PROVE  /\ Entered(lookups)' = Entered(lookups) /\ Backs(lookups)' = Backs(lookups)
         /\ PendingLoop' = PendingLoop
         /\ \A p \in Labels(lookups) : /\ Corrupted(lookups, p) \subseteq Corrupted(lookups, p)'
                                       /\ Corrupt(x) => x \in Corrupted(lookups, p)'
<1>1. LookupsType(lookups) /\ (lookups = <<>> => Labels(lookups) = {})
  BY LabelsAre, LookupsElements, EmptySeq DEF Struct, Labels
<1>2. CASE UNCHANGED lookups /\ (Corrupt(x) => lookups = <<>>)
  BY <1>1, <1>2 DEF PendingLoop, Pending, Entered, Backs, Corrupted
<1>3. CASE lookups # <<>> /\ Corrupt(x)
  <2>1. lookups' = [lookups EXCEPT ![Len(lookups)].corruptions = @ \cup {x}]
    BY <1>3 DEF Corrupt
  <2>2. Len(lookups) \in Nat \ {0} /\ lookups \in Seq(Lookups) /\ Last(lookups) = lookups[Len(lookups)]
    BY <1>1, <1>3, LookupsElements, EmptySeq DEF Last
  <2> DEFINE new == [Last(lookups) EXCEPT !.corruptions = @ \cup {x}]
  <2>3. lookups' = [lookups EXCEPT ![Len(lookups)] = new]
    BY <2>1, <2>2
  <2>4. Last(lookups) \in Lookups
    BY <2>2
  <2>5. /\ new \in Lookups /\ new.next = Last(lookups).next /\ new.block = Last(lookups).block
        /\ new.back = Last(lookups).back /\ new.corruptions = Last(lookups).corruptions \cup {x}
        /\ new.pending = Last(lookups).pending
    BY <2>4 DEF Lookups
  <2>6. new.back # 0 => new.corruptions = Symbols
    BY <1>1, <2>2, <2>5 DEF LookupsType
  <2>7. {new.next, new.block} \subseteq {NextLabel(Len(lookups)), BlockLabel(Len(lookups))}
    BY <1>1, <2>2, <2>5 DEF LookupsType
  <2> HIDE DEF new
  <2>8. /\ Len(lookups') = Len(lookups) /\ lookups' # <<>> /\ Last(lookups') = new
        /\ \A k \in 1 .. Len(lookups) : lookups'[k] = IF k = Len(lookups) THEN new ELSE lookups[k]
    <3>1. Replaceable(lookups, new)
      BY <1>1, <1>3, <2>5, <2>6, <2>7 DEF Replaceable
    <3>2. Replaced(lookups, new, lookups')
      BY <2>3, <3>1, TopReplaced
    <3> QED  BY <3>2 DEF Replaced
  <2>9. \A k \in 1 .. Len(lookups) : /\ lookups'[k].back = lookups[k].back
                                     /\ lookups'[k].pending = lookups[k].pending
                                     /\ lookups[k].corruptions \subseteq lookups'[k].corruptions
                                     /\ k = Len(lookups) => x \in lookups'[k].corruptions
    BY <2>2, <2>5, <2>8
  <2>10. Entered(lookups') = Entered(lookups) /\ Backs(lookups') = Backs(lookups)
    BY <2>8, <2>9 DEF Entered, Backs
  <2>11. PendingLoop' = PendingLoop
    BY <1>3, <2>4, <2>5, <2>8 DEF PendingLoop, Pending
  <2>12. ASSUME NEW p \in Labels(lookups)
         PROVE  Corrupted(lookups, p) \subseteq Corrupted(lookups', p) /\ x \in Corrupted(lookups', p)
    <3>1. Corrupted(lookups, p) \subseteq Corrupted(lookups', p)
      BY <2>8, <2>9 DEF Corrupted
    <3>2. Len(lookups) \in {j \in 1 .. Len(lookups') : 2 * j + 1 + p >= 0}
      BY <1>1, <2>2, <2>8, LabelsAre
    <3>3. x \in lookups'[Len(lookups)].corruptions
      BY <2>2, <2>9
    <3> QED  BY <3>1, <3>2, <3>3 DEF Corrupted
  <2> QED  BY <2>10, <2>11, <2>12
<1> QED  BY <1>2, <1>3 DEF Corrupt
---------------------------------------------------------------------------
(* The methods for values.                                                 *)

(* The filters of the locals admit as much as before, but for x when it is *)
(* marked.                                                                 *)
Following(x) ==
  \A y \in Locals : \/ Adm(states[y]) \subseteq Adm(states'[y])
                    \/ RT \subseteq Adm(states'[y])
                    \/ lookups = <<>>
                    \/ y = x /\ Corrupt(x)

LEMMA StatesGrow ==
  ASSUME Struct, NEW x, x \in Symbols, Corrupt(x) \/ UNCHANGED lookups, Following(x)
  PROVE  Grows(Labels(lookups), Waits(states, lookups), Waits(states', lookups'))
<1>1. LookupsType(lookups) /\ (lookups = <<>> => Labels(lookups) = {})
  BY LookupsElements, EmptySeq DEF Struct, Labels
<1>2. Labels(lookups) \subseteq Int
  BY <1>1, LabelsAre
<1>3. \A p \in Labels(lookups) : /\ Corrupted(lookups, p) \subseteq Corrupted(lookups', p)
                                 /\ Corrupt(x) => x \in Corrupted(lookups', p)
  BY CorruptSame
<1>4. \A y \in Locals : Kept(y, states, lookups, states', lookups', Labels(lookups))
  BY <1>1, <1>3 DEF Kept, Following
<1> QED  BY <1>2, <1>4, WaitsGrow

LEMMA Known ==
  ASSUME "condition" \notin Allowed, NEW K, K = Locals \/ PendingLoop, NEW S, Reads(S),
         NEW s \in S, s \in Readable, NEW e \in Here(K)
  PROVE  e[s] \in Adm(states[s])
<1>1. s \in live \/ states[s] = Obscurity \/ s \in K
  BY DEF Reads, Disciplined, PendingLoop, Pending, Readable
<1>2. s \in Symbols /\ states[s] = Obscurity => e[s] \in RT /\ RT \subseteq Adm(states[s])
  BY AdmIs DEF Here, Covered, Envs
<1>3. s \in live \cup K => e[s] \in Adm(states[s])
  BY DEF Here, Covered
<1>4. CASE s \in Symbols
  BY <1>1, <1>2, <1>3, <1>4
<1>5. CASE s \notin Symbols
  <2>1. s \in live
    BY <1>5 DEF Readable, Symbols
  <2> QED  BY <1>3, <2>1
<1> QED  BY <1>4, <1>5

(* Of the symbols S2 but x, the filters st2 admit what st admits, and st   *)
(* is known to cover those of S.                                           *)
Carries(st, S, st2, S2, x) ==
  /\ S2 \subseteq Symbols
  /\ \A s \in S2 \ {x} : RT \subseteq Adm(st2[s]) \/ (s \in S /\ Adm(st[s]) \subseteq Adm(st2[s]))

LEMMA Assigned ==
  ASSUME NEW st, NEW S, NEW e \in Covered(st, S), NEW st2, NEW S2,
         NEW x \in Symbols, NEW t \in RT,
         Carries(st, S, st2, S2, x),
         x \in S2 => t \in Adm(st2[x])
  PROVE  [e EXCEPT ![x] = t] \in Covered(st2, S2)
<1>1. e \in Envs /\ \A s \in S : e[s] \in Adm(st[s])
  BY DEF Covered
<1>2. PICK e2 : e2 = [e EXCEPT ![x] = t]
  OBVIOUS
<1>3. e2 \in Envs /\ \A s \in Symbols : e2[s] = IF s = x THEN t ELSE e[s]
  BY <1>1, <1>2 DEF Envs
<1>4. \A s \in Symbols : e[s] \in RT
  BY <1>1 DEF Envs
<1>5. \A s \in S2 : e2[s] \in Adm(st2[s])
  BY <1>1, <1>3, <1>4 DEF Carries
<1> QED  BY <1>2, <1>3, <1>5 DEF Covered

(* The fields of instructions. *)
LEMMA WriteIs ==
  ASSUME NEW x \in Symbols, NEW G \in SUBSET RT
  PROVE  LET i == Write(x, G) IN
         /\ i \in Instructions /\ i.do = "write" /\ i.dest = x /\ i.src = x /\ i.gives = G
         /\ i.dneeds = Types /\ i.sneeds = Types
<1>1. PICK j : j = Instruction("write", x, x)
  OBVIOUS
<1>2. /\ j \in Instructions /\ j.do = "write" /\ j.dest = x /\ j.src = x
      /\ j.dneeds = Types /\ j.sneeds = Types
  BY <1>1, InstructionFields DEF Kinds
<1>3. PICK i : i = [j EXCEPT !.gives = G]
  OBVIOUS
<1>4. /\ i \in Instructions /\ i.do = "write" /\ i.dest = x /\ i.src = x /\ i.gives = G
      /\ i.dneeds = Types /\ i.sneeds = Types
  BY <1>2, <1>3, ConstantTypes DEF Instructions
<1> QED  BY <1>1, <1>3, <1>4 DEF Write

(* A result is written. *)
LEMMA WriteCover ==
  ASSUME Struct, Cover, pc = Tip \/ pc < 0, NEW x \in Symbols, NEW G \in SUBSET RT, NEW f,
         Emit(<<Write(x, G)>>), Corrupt(x) \/ UNCHANGED lookups,
         states' = [states EXCEPT ![x] = f], Basic', G \subseteq Adm(f),
         live' = live \cup ({x} \cap Registers),
         x \in Registers \/ Corrupt(x)
  PROVE  Cover'
<1> DEFINE i == Write(x, G)
<1>1. /\ i \in Instructions /\ i.do = "write" /\ i.dest = x /\ i.src = x /\ i.gives = G
      /\ i.dneeds = Types /\ i.sneeds = Types
  BY WriteIs
<1>2. states \in [Symbols -> Filter] /\ live \subseteq Registers
      /\ \A s \in Symbols : states'[s] = IF s = x THEN f ELSE states[s]
  BY DEF Struct
<1>3. Grows(Labels(lookups), Waits(states, lookups), Waits(states', lookups'))
  <2>1. \A y \in Locals : y \in Symbols /\ y \notin Registers
    BY ConstantsAssumption DEF Symbols
  <2>2. Following(x)
    BY <1>2, <2>1 DEF Following
  <2> QED  BY <2>2, StatesGrow
<1>4. ASSUME NEW K, K = Locals \/ (K = {} /\ PendingLoop)
      PROVE  Fits(i, Here(K), Here(K)')
  <2>1. K \cup live' \subseteq Symbols /\ K \cup live' \subseteq K \cup live \cup {x}
    BY <1>2, <1>4 DEF Symbols
  <2>2. ASSUME NEW e \in Covered(states, K \cup live), NEW t \in G
        PROVE  [e EXCEPT ![x] = t] \in Covered(states', K \cup live')
    <3>1. Carries(states, K \cup live, states', K \cup live', x) /\ t \in RT /\ t \in Adm(states'[x])
      BY <1>2, <2>1 DEF Carries
    <3> QED  BY <3>1, Assigned
  <2>3. \A e \in Envs : e[x] \in Types
    BY ConstantTypes DEF Envs
  <2> HIDE DEF i
  <2>4. \A e \in Envs : Sound(i, e)
    BY <1>1, <2>3 DEF Sound
  <2>5. \A e, e2 : Leads(i, e, e2) => \E t \in G : e2 = [e EXCEPT ![x] = t]
    BY <1>1 DEF Leads
  <2> QED  BY <2>2, <2>4, <2>5 DEF Fits, Here, Covered
<1>5. \A K : Joins(i, Here(K), Waits(states', lookups'), {})
  BY <1>1 DEF Joins
<1> HIDE DEF i
<1>6. FitsHere(i) /\ Emit(<<i>>)
  BY <1>4, <1>5 DEF FitsHere, i
<1>7. Entered(lookups)' = Entered(lookups) /\ Backs(lookups)' = Backs(lookups) /\ PendingLoop' = PendingLoop
  BY CorruptSame
<1> QED  BY <1>1, <1>3, <1>6, <1>7, EmitCover

LEMMA ValueCover ==
  ASSUME Struct, Cover, pc = Tip \/ pc < 0, NEW x, x \in Symbols, NEW i \in Instructions, Emit(<<i>>),
         Corrupt(x) \/ UNCHANGED lookups, Following(x), Basic', FitsHere(i)
  PROVE  Cover'
<1>1. Entered(lookups)' = Entered(lookups) /\ Backs(lookups)' = Backs(lookups) /\ PendingLoop' = PendingLoop
  BY CorruptSame
<1>2. Grows(Labels(lookups), Waits(states, lookups), Waits(states', lookups'))
  BY StatesGrow
<1> QED  BY <1>1, <1>2, EmitCover

LEMMA OneChanged ==
  ASSUME Cover, Struct, NEW x \in Symbols, NEW f, f = Obscurity \/ \E t \in RT : f = Set(t),
         states' = [states EXCEPT ![x] = f]
  PROVE  Basic' /\ \A s \in Symbols : states'[s] = IF s = x THEN f ELSE states[s]
<1>1. \A s \in Symbols : states'[s] = IF s = x THEN f ELSE states[s]
  BY DEF Struct
<1> QED  BY <1>1 DEF Cover, Basic

LEMMA LocalsOrRegisters ==
  \A x : (x \in Locals => x \in Symbols /\ x \notin Registers) /\ (x \in Registers => x \in Symbols)
BY ConstantsAssumption DEF Symbols

LEMMA LoadCover ==
  ASSUME Allowed \subseteq {"range"}, Struct, Cover, NEW x \in Symbols, NEW t \in Literals, Load(x, t)
  PROVE  Cover'
<1>1. /\ pc = Tip \/ pc < 0
      /\ Stores(x, Set(t)) /\ states' = [states EXCEPT ![x] = Set(t)] /\ Corrupt(x)
  BY DEF Load, Ready
<1>2. t \in RT /\ {t} \in SUBSET RT /\ {t} \subseteq Adm(Set(t)) /\ Set(t) # Obscurity
  <2>1. t \in RT
    BY ConstantTypes
  <2> QED  BY <2>1, AdmIs
<1>3. Basic' /\ \A s \in Symbols : states'[s] = IF s = x THEN Set(t) ELSE states[s]
  BY <1>1, <1>2, OneChanged
<1>4. CASE ~Only(states[x], CRY_REFERENCE)
  <2>1. Emit(<<Write(x, {t})>>) /\ live' = live \cup ({x} \cap Registers)
    BY <1>1, <1>4 DEF Load, Stores
  <2> QED  BY <1>1, <1>2, <1>3, <2>1, WriteCover
<1>5. CASE Only(states[x], CRY_REFERENCE)
  <2>1. x \in live /\ x \in Registers /\ x \notin Locals /\ live' = live \ {x} /\ live \subseteq Registers
    <3>1. x \notin Locals /\ x \in live
      BY <1>1, <1>2, <1>5, NoHabit DEF Stores, Disciplined, Symbols
    <3> QED  BY <1>1, <1>5, <3>1, NoHabit DEF Stores, Struct
  <2>2. PICK j : j = Instruction("store", x, x)
    OBVIOUS
  <2>3. /\ j \in Instructions /\ j.do = "store" /\ j.dest = x /\ j.src = x /\ j.sneeds = Types
    BY <2>2, InstructionFields DEF Kinds
  <2>4. PICK i : i = [j EXCEPT !.dneeds = {CRY_REFERENCE}]
    OBVIOUS
  <2>5. /\ i \in Instructions /\ i.do = "store" /\ i.dest = x /\ i.src = x
        /\ i.dneeds = {CRY_REFERENCE} /\ i.sneeds = Types
    <3>1. {CRY_REFERENCE} \in SUBSET Types
      BY ConstantTypes
    <3> QED  BY <2>3, <2>4, <3>1 DEF Instructions
  <2>6. Emit(<<i>>)
    BY <1>5, <2>2, <2>4 DEF Load
  <2>7. Following(x)
    BY <1>3, <2>1, LocalsOrRegisters DEF Following
  <2>8. ASSUME NEW K, K = Locals \/ (K = {} /\ PendingLoop)
        PROVE  Fits(i, Here(K), Here(K)')
    <3>1. ASSUME NEW e \in Covered(states, K \cup live), Strict
          PROVE  Sound(i, e)
      <4>1. e[x] \in Adm(states[x]) /\ e[x] \in Types
        BY <2>1, ConstantTypes DEF Covered, Envs
      <4>2. "range" \notin Allowed
        BY <3>1 DEF Strict
      <4>3. Adm(states[x]) = {CRY_REFERENCE}
        BY <1>5, <4>2 DEF Adm, Only
      <4> QED  BY <2>5, <4>1, <4>3 DEF Sound
    <3>2. ASSUME NEW e \in Covered(states, K \cup live)
          PROVE  e \in Covered(states', K \cup live')
      <4>1. \A s \in K \cup live' : s \in K \cup live /\ s # x /\ s \in Symbols
        BY <2>1, <2>8, LocalsOrRegisters
      <4> QED  BY <1>3, <4>1 DEF Covered
    <3>3. \A e, e2 : Leads(i, e, e2) => e2 = e
      BY <2>5 DEF Leads
    <3> QED  BY <3>1, <3>2, <3>3 DEF Fits, Here
  <2>9. FitsHere(i)
    BY <2>5, <2>8 DEF FitsHere, Joins
  <2> QED  BY <1>1, <1>3, <2>5, <2>6, <2>7, <2>9, ValueCover
<1> QED  BY <1>4, <1>5

(* What is in a filter is among the types its instructions are right for.  *)
LEMMA FiltersServe ==
  ASSUME NEW f, f = Obscurity \/ \E t \in RT : f = Set(t), NEW u \in RT, u \in Adm(f)
  PROVE  /\ u \in Returned(f)
         /\ ~Only(f, CRY_REFERENCE) =>
              /\ u \in Carried(f) /\ u \in Tested(f)
              /\ \A g : u \in Swapped(f, g) /\ u \in Swapped(g, f)
<1> DEFINE Tys == 0 .. 10
<1>1. RT = (0 .. 10) \ {7, 10}
  BY TypesAre DEF RT, CRY_POINTER, CRY_CLASS_OBJ
<1>2. CASE f = Obscurity
  <2>1. f.flags = 0 .. 10 /\ f.dilution = 11
    BY <1>2, TypesAre DEF Obscurity, CRY_SYMS
  <2>2. \A c \in 0 .. 10 : Order(f, c) /\ Test(f, c)
    <3>1. 10 \in 0 .. 10
      OBVIOUS
    <3> QED  BY <2>1, <3>1 DEF Order, Test
  <2>3. u \in Returned(f)
    BY <1>1, <2>2, TypesAre DEF Returned, CRY_POINTER
  <2>4. u \in Carried(f)
    BY <1>1, <2>1, <2>2 DEF Carried, Size, CRY_NIL, CRY_BOOL, CRY_INT, CRY_INT64, CRY_DOUBLE, CRY_TEXT,
       CRY_REFERENCE, CRY_POINTER, CRY_CLASS_OBJ
  <2>5. u \in Tested(f)
    BY <1>1, <2>1, <2>2, TypesAre DEF Tested, Size, CRY_NIL
  <2>6. \A g : u \in Swapped(f, g) /\ u \in Swapped(g, f)
    BY <1>1, <2>2 DEF Swapped, CRY_NIL, CRY_BOOL, CRY_INT, CRY_INT64, CRY_DOUBLE, CRY_TEXT,
       CRY_REFERENCE, CRY_POINTER, CRY_CLASS_OBJ
  <2> QED  BY <2>3, <2>4, <2>5, <2>6
<1>3. CASE \E t \in RT : f = Set(t)
  <2>1. PICK t \in RT : f = Set(t)
    BY <1>3
  <2>2. f.flags = {t} /\ Size(f) = 1 /\ (t # 6 => u = t) /\ (t = 6 => u \in {0, 6})
        /\ (Only(f, CRY_REFERENCE) <=> t = 6)
    BY <2>1 DEF Set, Size, Adm, Only, CRY_REFERENCE, CRY_NIL
  <2>3. \A c : (Order(f, c) <=> t >= c) /\ (Test(f, c) <=> t = c)
    BY <2>2 DEF Order, Test
  <2>4. t \in (0 .. 10) \ {7, 10}
    BY <1>1, <2>1
  <2> HIDE DEF Tys
  <2>5. u \in Returned(f)
    BY <2>2, <2>3, <2>4, TypesAre DEF Returned, CRY_POINTER, CRY_NIL, CRY_REFERENCE
  <2>6. t # 6 => u \in Carried(f)
    BY <2>2, <2>3, <2>4 DEF Carried, CRY_NIL, CRY_BOOL, CRY_INT, CRY_INT64, CRY_DOUBLE, CRY_TEXT,
       CRY_REFERENCE, CRY_POINTER, CRY_CLASS_OBJ
  <2>7. t # 6 => u \in Tested(f)
    BY <2>2, <2>3, <2>4, TypesAre DEF Tested, CRY_NIL
  <2>8. t # 6 => \A g : u \in Swapped(f, g) /\ u \in Swapped(g, f)
    BY <2>2, <2>3, <2>4 DEF Swapped, CRY_NIL, CRY_BOOL, CRY_INT, CRY_INT64, CRY_DOUBLE, CRY_TEXT,
       CRY_REFERENCE, CRY_POINTER, CRY_CLASS_OBJ
  <2> QED  BY <2>2, <2>5, <2>6, <2>7, <2>8
<1> QED  BY <1>2, <1>3

LEMMA CopyCover ==
  ASSUME Allowed \subseteq {"range"}, Struct, Cover, NEW x \in Symbols, NEW y \in Symbols, Copy(x, y)
  PROVE  Cover'
<1> DEFINE lone == Only(states[y], CRY_REFERENCE)
           new  == IF lone THEN Obscurity ELSE states[y]
           through == Only(states[x], CRY_REFERENCE)
<1>1. /\ pc = Tip \/ pc < 0
      /\ x # y /\ y \in Readable /\ Reads({y}) /\ Stores(x, new) /\ Corrupt(x)
      /\ states' = [states EXCEPT ![x] = new]
  BY DEF Copy, Ready
<1>2. /\ states[y] = Obscurity \/ \E t \in RT : states[y] = Set(t)
      /\ new = Obscurity \/ \E t \in RT : new = Set(t)
  BY DEF Cover, Basic
<1> HIDE DEF new
<1>3. Basic' /\ \A s \in Symbols : states'[s] = IF s = x THEN new ELSE states[s]
  BY <1>1, <1>2, OneChanged
<1>4. /\ live \subseteq Registers /\ live' \subseteq live \cup {x} /\ live' \subseteq Registers
      /\ through => x \notin live' \/ new = Obscurity
      /\ through /\ x \in Locals => new = Obscurity
  <2>1. live \subseteq Registers /\ live' \subseteq Registers
    BY <1>1, StoresLive DEF Struct
  <2>2. live' \subseteq live \cup {x}
    BY <1>1 DEF Stores
  <2>3. through => x \notin live' \/ new = Obscurity
    <3>1. CASE x \in live
      BY <1>1, <3>1, NoHabit DEF Stores
    <3>2. CASE x \in Locals
      BY <1>1, <3>2, NoHabit DEF Stores, Disciplined
    <3>3. CASE x \in Registers \ live
      BY <1>1, <3>3, NoHabit DEF Stores, Disciplined
    <3> QED  BY <3>1, <3>2, <3>3 DEF Symbols
  <2>4. through /\ x \in Locals => new = Obscurity
    BY <1>1, NoHabit DEF Stores, Disciplined
  <2> QED  BY <2>1, <2>2, <2>3, <2>4
<1>5. Following(x)
  BY <1>1, <1>3, LocalsOrRegisters DEF Following
<1>6. ASSUME NEW K, K = Locals \/ (K = {} /\ PendingLoop)
      PROVE  /\ Carries(states, K \cup live, states', K \cup live', x)
             /\ \A e \in Here(K) : e[y] \in Adm(states[y]) /\ e[y] \in RT /\ e[x] \in RT /\ e \in Envs
             /\ through /\ x \in K \cup live' => new = Obscurity
  <2>1. K \cup live' \subseteq Symbols /\ K \cup live' \subseteq K \cup live \cup {x}
    BY <1>4, <1>6, LocalsOrRegisters
  <2>2. Carries(states, K \cup live, states', K \cup live', x)
    BY <1>3, <2>1 DEF Carries
  <2>3. \A e \in Here(K) : e \in Envs /\ e[y] \in RT /\ e[x] \in RT
    BY DEF Here, Covered, Envs
  <2>4. \A e \in Here(K) : e[y] \in Adm(states[y])
    BY <1>1, <1>6, NoHabit, Known
  <2> QED  BY <1>4, <1>6, <2>2, <2>3, <2>4
<1>7. CASE lone \/ through
  <2>1. PICK i : i = Instruction("copy_ref", x, y)
    OBVIOUS
  <2>2. /\ i \in Instructions /\ i.do = "copy_ref" /\ i.dest = x /\ i.src = y
        /\ i.dneeds = Types /\ i.sneeds = Types
    BY <2>1, InstructionFields DEF Kinds
  <2>3. Emit(<<i>>)
    BY <1>7, <2>1 DEF Copy
  <2>4. ASSUME NEW K, K = Locals \/ (K = {} /\ PendingLoop)
        PROVE  Fits(i, Here(K), Here(K)')
    <3>1. \A e \in Here(K) : Sound(i, e)
      BY <1>6, <2>2, <2>4, ConstantTypes DEF Sound
    <3>2. new = Obscurity \/ (through /\ x \notin K \cup live')
      BY <1>4, <1>6, <1>7, <2>4 DEF new
    <3>3. ASSUME NEW e \in Here(K), NEW e2, Leads(i, e, e2)
          PROVE  e2 \in Here(K)'
      <4>1. PICK t \in RT : e2 = [e EXCEPT ![x] = t]
        <5>1. e[y] \in RT /\ CRY_REFERENCE \in RT /\ Deref(e[y]) \subseteq RT
          BY <1>6, <2>4, DerefType, ConstantTypes
        <5> QED  BY <2>2, <3>3, <5>1 DEF Leads
      <4>2. x \in K \cup live' => t \in Adm(states'[x])
        BY <1>3, <3>2, AdmIs
      <4>3. e \in Covered(states, K \cup live)
        BY DEF Here
      <4>4. [e EXCEPT ![x] = t] \in Covered(states', K \cup live')
        BY <1>6, <2>4, <4>2, <4>3, Assigned
      <4> QED  BY <4>1, <4>4 DEF Here
    <3> QED  BY <3>1, <3>3 DEF Fits
  <2>5. FitsHere(i)
    BY <2>2, <2>4 DEF FitsHere, Joins
  <2> QED  BY <1>1, <1>3, <1>5, <2>2, <2>3, <2>5, ValueCover
<1>8. CASE ~lone /\ ~through
  <2>1. PICK j : j = Instruction("copy", x, y)
    OBVIOUS
  <2>2. /\ j \in Instructions /\ j.do = "copy" /\ j.dest = x /\ j.src = y /\ j.dneeds = Types
    BY <2>1, InstructionFields DEF Kinds
  <2>3. PICK S \in SUBSET Types : S = Carried(states[y])
    BY FilterTypes DEF Struct
  <2>4. PICK i : i = [j EXCEPT !.sneeds = S]
    OBVIOUS
  <2>5. /\ i \in Instructions /\ i.do = "copy" /\ i.dest = x /\ i.src = y
        /\ i.dneeds = Types /\ i.sneeds = S
    BY <2>2, <2>4 DEF Instructions
  <2>6. Emit(<<i>>)
    BY <1>8, <2>1, <2>3, <2>4 DEF Copy
  <2>7. new = states[y]
    BY <1>8 DEF new
  <2>8. ASSUME NEW K, K = Locals \/ (K = {} /\ PendingLoop)
        PROVE  Fits(i, Here(K), Here(K)')
    <3>1. ASSUME NEW e \in Here(K) PROVE Sound(i, e)
      <4>1. e[y] \in S
        BY <1>2, <1>6, <1>8, <2>3, <2>8, FiltersServe
      <4>2. e[x] \in Types
        BY <1>6, <2>8, ConstantTypes
      <4> QED  BY <2>5, <4>1, <4>2 DEF Sound
    <3>3. ASSUME NEW e \in Here(K), NEW e2, Leads(i, e, e2)
          PROVE  e2 \in Here(K)'
      <4>1. e2 = [e EXCEPT ![x] = e[y]] /\ e[y] \in RT
        BY <1>6, <2>5, <2>8, <3>3 DEF Leads
      <4>2. x \in K \cup live' => e[y] \in Adm(states'[x])
        BY <1>3, <1>6, <2>7, <2>8
      <4>3. e \in Covered(states, K \cup live)
        BY DEF Here
      <4>4. [e EXCEPT ![x] = e[y]] \in Covered(states', K \cup live')
        BY <1>6, <2>8, <4>1, <4>2, <4>3, Assigned
      <4> QED  BY <4>1, <4>4 DEF Here
    <3> QED  BY <3>1, <3>3 DEF Fits
  <2>9. FitsHere(i)
    BY <2>5, <2>8 DEF FitsHere, Joins
  <2> QED  BY <1>1, <1>3, <1>5, <2>5, <2>6, <2>9, ValueCover
<1> QED  BY <1>7, <1>8

LEMMA SwapCover ==
  ASSUME Allowed \subseteq {"range"}, Struct, Cover, NEW x \in Symbols, NEW y \in Symbols, Swap(x, y)
  PROVE  Cover'
<1>1. /\ pc = Tip \/ pc < 0
      /\ x # y /\ x \in Readable /\ y \in Readable /\ Reads({x, y})
      /\ states' = [states EXCEPT ![x] = states[y], ![y] = states[x]]
      /\ UNCHANGED <<lookups, live>>
      /\ Unmarked(x, states[y]) /\ Unmarked(y, states[x])
      /\ ~Only(states[x], CRY_REFERENCE) /\ ~Only(states[y], CRY_REFERENCE)
  BY NoHabit DEF Swap, Ready, Disciplined
<1>2. \A s \in Symbols : states'[s] = IF s = x THEN states[y] ELSE IF s = y THEN states[x] ELSE states[s]
  BY <1>1 DEF Struct
<1>3. Basic'
  BY <1>2 DEF Cover, Basic
<1>4. Following(x)
  <2>1. ASSUME NEW z \in Locals, lookups # <<>>
        PROVE  states'[z] \in {states[z], Obscurity}
    <3>1. x \in Locals => states[y] \in {states[x], Obscurity}
      BY <1>1, <2>1, NoHabit DEF Unmarked, Disciplined
    <3>2. y \in Locals => states[x] \in {states[y], Obscurity}
      BY <1>1, <2>1, NoHabit DEF Unmarked, Disciplined
    <3> QED  BY <1>2, <3>1, <3>2, LocalsOrRegisters
  <2>2. ASSUME NEW z \in Locals, lookups # <<>>
        PROVE  Adm(states[z]) \subseteq Adm(states'[z]) \/ RT \subseteq Adm(states'[z])
    BY <2>1, <2>2, AdmIs
  <2> QED  BY <2>2 DEF Following
<1>5. PICK S \in SUBSET Types : S = Swapped(states[x], states[y])
  BY FilterTypes DEF Struct
<1>6. PICK j : j = Instruction("swap", x, y)
  OBVIOUS
<1>7. j \in Instructions /\ j.do = "swap" /\ j.dest = x /\ j.src = y
  BY <1>6, InstructionFields DEF Kinds
<1>8. PICK i : i = [j EXCEPT !.dneeds = S, !.sneeds = S]
  OBVIOUS
<1>9. i \in Instructions /\ i.do = "swap" /\ i.dest = x /\ i.src = y /\ i.dneeds = S /\ i.sneeds = S
  BY <1>7, <1>8 DEF Instructions
<1>10. Emit(<<i>>)
  BY <1>5, <1>6, <1>8 DEF Swap
<1>11. ASSUME NEW K, K = Locals \/ (K = {} /\ PendingLoop)
       PROVE  Fits(i, Here(K), Here(K)')
  <2>1. ASSUME NEW e \in Here(K)
        PROVE  /\ e \in Envs /\ e[x] \in RT /\ e[y] \in RT
               /\ e[x] \in Adm(states[x]) /\ e[y] \in Adm(states[y])
    <3>1. e \in Envs /\ e[x] \in RT /\ e[y] \in RT
      BY DEF Here, Covered, Envs
    <3>2. x \in {x, y} /\ y \in {x, y}
      OBVIOUS
    <3>3. e[x] \in Adm(states[x])
      BY <1>1, <1>11, <3>2, NoHabit, Known
    <3>4. e[y] \in Adm(states[y])
      BY <1>1, <1>11, <3>2, NoHabit, Known
    <3> QED  BY <3>1, <3>3, <3>4
  <2>2. ASSUME NEW e \in Here(K) PROVE Sound(i, e)
    <3>1. e[x] \in S /\ e[y] \in S
      BY <1>1, <1>5, <2>1, FiltersServe DEF Cover, Basic
    <3> QED  BY <1>9, <3>1 DEF Sound
  <2>3. ASSUME NEW e \in Here(K), NEW e2, Leads(i, e, e2)
        PROVE  e2 \in Here(K)'
    <3>1. e2 = [e EXCEPT ![x] = e[y], ![y] = e[x]]
      BY <1>9, <2>3 DEF Leads
    <3>2. e2 \in Envs /\ \A s \in Symbols : e2[s] = IF s = x THEN e[y] ELSE IF s = y THEN e[x] ELSE e[s]
      BY <1>1, <2>1, <3>1 DEF Envs
    <3>3. \A s \in K \cup live : e[s] \in Adm(states[s]) /\ s \in Symbols
      BY <1>11, LocalsOrRegisters DEF Here, Covered, Struct
    <3>4. \A s \in K \cup live : e2[s] \in Adm(states'[s])
      BY <1>1, <1>2, <2>1, <3>2, <3>3
    <3> QED  BY <1>1, <3>2, <3>4 DEF Here, Covered
  <2> QED  BY <2>2, <2>3 DEF Fits
<1>12. FitsHere(i)
  BY <1>9, <1>11 DEF FitsHere, Joins
<1> QED  BY <1>1, <1>3, <1>4, <1>9, <1>10, <1>12, ValueCover

LEMMA NotCover ==
  ASSUME Allowed \subseteq {"range"}, Struct, Cover, NEW r \in Registers, Not(r)
  PROVE  Cover'
<1>1. /\ pc = Tip \/ pc < 0
      /\ r \in live /\ r \in Symbols /\ UNCHANGED <<states, lookups, live>>
      /\ states[r] \in {Obscurity, Set(CRY_BOOL), Set(CRY_NIL)}
  BY NoHabit, LocalsOrRegisters DEF Not, Ready, Disciplined
<1>2. Basic' /\ Following(r)
  BY <1>1 DEF Cover, Basic, Following
<1>3. PICK i : i = Instruction("not", r, r)
  OBVIOUS
<1>4. i \in Instructions /\ i.do = "not" /\ i.dest = r /\ i.src = r /\ i.dneeds = Types /\ i.sneeds = Types
  BY <1>1, <1>3, InstructionFields DEF Kinds
<1>5. Emit(<<i>>)
  BY <1>3 DEF Not
<1>6. ASSUME NEW K, K = Locals \/ (K = {} /\ PendingLoop)
      PROVE  Fits(i, Here(K), Here(K)')
  <2>1. \A e \in Here(K) : e \in Envs /\ e[r] \in RT /\ e[r] \in Adm(states[r])
    BY <1>1 DEF Here, Covered, Envs
  <2>2. \A e \in Here(K) : Sound(i, e)
    BY <1>1, <1>4, <2>1, ConstantTypes DEF Sound
  <2>3. ASSUME NEW e \in Here(K), NEW e2, Leads(i, e, e2)
        PROVE  e2 \in Here(K)'
    <3>1. PICK t : t = IF e[r] = CRY_NIL THEN CRY_NIL ELSE CRY_BOOL
      OBVIOUS
    <3>2. e2 = [e EXCEPT ![r] = t]
      BY <1>4, <2>3, <3>1 DEF Leads
    <3>3. t \in RT /\ t \in Adm(states[r])
      <4>1. /\ {CRY_NIL, CRY_BOOL} \subseteq RT
            /\ CRY_NIL # CRY_REFERENCE /\ CRY_BOOL # CRY_REFERENCE /\ CRY_NIL # CRY_BOOL
        BY ConstantTypes DEF CRY_NIL, CRY_REFERENCE, CRY_BOOL
      <4>2. /\ states[r] = Set(CRY_BOOL) => Adm(states[r]) = {CRY_BOOL}
            /\ states[r] = Set(CRY_NIL) => Adm(states[r]) = {CRY_NIL}
            /\ states[r] = Obscurity => RT \subseteq Adm(states[r])
        BY <4>1, AdmIs
      <4> QED  BY <1>1, <2>1, <3>1, <4>1, <4>2
    <3>4. Carries(states, K \cup live, states', K \cup live', r)
      BY <1>1, <1>6, LocalsOrRegisters DEF Carries, Struct
    <3>5. e \in Covered(states, K \cup live)
      BY DEF Here
    <3>6. [e EXCEPT ![r] = t] \in Covered(states', K \cup live')
      BY <1>1, <3>3, <3>4, <3>5, Assigned
    <3> QED  BY <3>2, <3>6 DEF Here
  <2> QED  BY <2>2, <2>3 DEF Fits
<1>7. FitsHere(i)
  BY <1>4, <1>6 DEF FitsHere, Joins
<1> QED  BY <1>1, <1>2, <1>4, <1>5, <1>7, ValueCover

LEMMA ResultWritten ==
  ASSUME Struct, Cover, pc = Tip \/ pc < 0, NEW r \in Registers, NEW f, NEW G \in SUBSET RT,
         f = Obscurity \/ \E t \in RT : f = Set(t), G \subseteq Adm(f),
         Results(r, f), Emit(<<Write(r, G)>>), Corrupt(r) \/ UNCHANGED lookups
  PROVE  Cover'
<1>1. r \in Symbols
  BY LocalsOrRegisters
<1>2. states' = [states EXCEPT ![r] = f] /\ live' = live \cup ({r} \cap Registers)
  BY DEF Results
<1>3. Basic'
  BY <1>1, <1>2, OneChanged
<1> QED  BY <1>1, <1>2, <1>3, WriteCover

LEMMA ResultCover ==
  ASSUME Struct, Cover, NEW r \in Registers, Call(r) \/ Make_Array(r) \/ Array_Index(r) \/ Get(r)
  PROVE  Cover'
<1>1. pc = Tip \/ pc < 0
  BY DEF Call, Make_Array, Array_Index, Get, Ready
<1>2. CASE Call(r)
  <2>1. PICK G : G = Values \cup {CRY_REFERENCE}
    OBVIOUS
  <2>2. G \in SUBSET RT /\ G \subseteq Adm(Obscurity)
    BY <2>1, ConstantTypes, AdmIs
  <2>3. Results(r, Obscurity) /\ Emit(<<Write(r, G)>>) /\ UNCHANGED lookups
    BY <1>2, <2>1 DEF Call
  <2> QED  BY <1>1, <2>2, <2>3, ResultWritten
<1>3. CASE Make_Array(r)
  <2>1. {CRY_ARRAY} \in SUBSET RT /\ {CRY_ARRAY} \subseteq Adm(Set(CRY_ARRAY)) /\ CRY_ARRAY \in RT
    BY ConstantTypes, AdmIs
  <2>2. Results(r, Set(CRY_ARRAY)) /\ Emit(<<Write(r, {CRY_ARRAY})>>) /\ Corrupt(r)
    BY <1>3 DEF Make_Array
  <2> QED  BY <1>1, <2>1, <2>2, ResultWritten
<1>4. CASE Array_Index(r)
  <2>1. PICK G : G = {CRY_REFERENCE} \cup (IF "range" \in Allowed THEN {CRY_NIL} ELSE {})
    OBVIOUS
  <2>2. G \in SUBSET RT /\ G \subseteq Adm(Set(CRY_REFERENCE)) /\ CRY_REFERENCE \in RT
    BY <2>1, ConstantTypes, AdmIs
  <2>3. Results(r, Set(CRY_REFERENCE)) /\ Emit(<<Write(r, G)>>) /\ Corrupt(r)
    BY <1>4, <2>1 DEF Array_Index
  <2> QED  BY <1>1, <2>2, <2>3, ResultWritten
<1>5. CASE Get(r)
  <2>1. {CRY_REFERENCE} \in SUBSET RT /\ {CRY_REFERENCE} \subseteq Adm(Set(CRY_REFERENCE)) /\ CRY_REFERENCE \in RT
    BY ConstantTypes, AdmIs
  <2>2. Results(r, Set(CRY_REFERENCE)) /\ Emit(<<Write(r, {CRY_REFERENCE})>>) /\ UNCHANGED lookups
    BY <1>5 DEF Get
  <2> QED  BY <1>1, <2>1, <2>2, ResultWritten
<1> QED  BY <1>2, <1>3, <1>4, <1>5

LEMMA UnmarkedFollows ==
  ASSUME Allowed \subseteq {"range"}, Struct, NEW x \in Symbols, NEW f, Unmarked(x, f),
         states' = [states EXCEPT ![x] = f]
  PROVE  Following(x)
<1>1. \A s \in Symbols : states'[s] = IF s = x THEN f ELSE states[s]
  BY DEF Struct
<1>2. x \in Locals /\ lookups # <<>> => f = states[x] \/ f = Obscurity
  BY NoHabit DEF Unmarked, Disciplined
<1> QED  BY <1>1, <1>2, AdmIs, LocalsOrRegisters DEF Following

(* An operator whose result has type u. *)
LEMMA OperatorWrites ==
  ASSUME Allowed \subseteq {"range"}, Struct, Cover, pc = Tip \/ pc < 0,
         NEW x \in Symbols, NEW u \in RT, NEW i \in Instructions, Emit(<<i>>),
         i.do = "write", i.dest = x, i.gives = {u},
         states' = [states EXCEPT ![x] = Set(u)], UNCHANGED <<lookups, live>>, Unmarked(x, Set(u)),
         \A K : K = Locals \/ (K = {} /\ PendingLoop) => \A e \in Here(K) : Sound(i, e)
  PROVE  Cover'
<1>1. Following(x)
  BY UnmarkedFollows
<1>2. Basic' /\ \A s \in Symbols : states'[s] = IF s = x THEN Set(u) ELSE states[s]
  <2>1. PICK f : f = Set(u)
    OBVIOUS
  <2>2. states' = [states EXCEPT ![x] = f] /\ (f = Obscurity \/ \E t \in RT : f = Set(t))
    BY <2>1
  <2>3. Cover /\ Struct /\ x \in Symbols
    OBVIOUS
  <2>4. Basic' /\ \A s \in Symbols : states'[s] = IF s = x THEN f ELSE states[s]
    BY ONLY <2>2, <2>3, OneChanged
  <2> QED  BY <2>1, <2>4
<1>3. ASSUME NEW K, K = Locals \/ (K = {} /\ PendingLoop), NEW e \in Here(K), NEW e2, Leads(i, e, e2)
      PROVE  e2 \in Here(K)'
  <2>1. e2 = [e EXCEPT ![x] = u]
    BY <1>3 DEF Leads
  <2>2. Carries(states, K \cup live, states', K \cup live', x)
    BY <1>2, <1>3, LocalsOrRegisters DEF Carries, Struct
  <2>3. e \in Covered(states, K \cup live) /\ u \in Adm(states'[x])
    BY <1>2, AdmIs DEF Here
  <2>4. [e EXCEPT ![x] = u] \in Covered(states', K \cup live')
    BY <2>2, <2>3, Assigned
  <2> QED  BY <2>1, <2>4 DEF Here
<1>4. FitsHere(i)
  BY <1>3 DEF FitsHere, Fits, Joins
<1> QED  BY <1>1, <1>2, <1>4, ValueCover

LEMMA ResolvedIs ==
  ASSUME NEW f, f = Obscurity \/ \E t \in RT : f = Set(t), NEW u \in RT
  PROVE  /\ Resolved(f, u) = Set(u)
         /\ \A v \in Adm(f) \cap RT : u # CRY_REFERENCE => v \in ResolveNeeds(f, u)
<1>1. Size(f) = 1 => \E t \in RT : f = Set(t)
  BY AdmIs
<1>2. \A t \in RT : f = Set(t) /\ Test(f, u) => t = u
  BY AdmIs DEF Test
<1> QED  BY <1>1, <1>2, AdmIs, ConstantTypes DEF Resolved, ResolveNeeds

LEMMA OperatorCover ==
  ASSUME Allowed \subseteq {"range"}, Struct, Cover,
         NEW op \in Operators, NEW x \in Symbols, NEW y \in Readable \cup Literals, Operator(op, x, y)
  PROVE  Cover'
<1> DEFINE const == y \notin Symbols
           l     == states[x]
           r     == IF const THEN Set(y) ELSE states[y]
           both  == Combind(l, r)
           t     == StaticResult(op, l, r, const)
<1>0. Allowed \subseteq {"range"} /\ Struct /\ Cover
  OBVIOUS
<1>1. /\ pc = Tip \/ pc < 0
      /\ Reads({x, y} \cap Symbols) /\ x \in Readable /\ UNCHANGED <<lookups, live>>
      /\ op \in OperatorKinds
  BY ConstantsAssumption DEF Operator, Ready, Readable
<1>2. /\ Readable \subseteq Symbols /\ Literals \subseteq RT /\ RT \subseteq Types
      /\ CRY_REFERENCE \notin Literals /\ (const => y \in Literals) /\ (~const => y \in Readable)
  <2>1. Readable \subseteq Symbols
    BY DEF Readable, Symbols, Struct
  <2>2. Literals \subseteq RT /\ RT \subseteq Types /\ CRY_REFERENCE \notin Literals
    BY ConstantTypes, ConstantsAssumption
       DEF CRY_REFERENCE, CRY_NIL, CRY_BOOL, CRY_INT, CRY_DOUBLE, CRY_TEXT
  <2>3. Symbols \cap Types = {}
    BY ConstantsAssumption
  <2> QED  BY <2>1, <2>2, <2>3
<1>3. /\ l = Obscurity \/ \E u \in RT : l = Set(u)
      /\ r = Obscurity \/ \E u \in RT : r = Set(u)
  BY <1>2 DEF Cover, Basic
<1>4. l \in Filter /\ r \in Filter
  BY <1>2, FilterTypes DEF Struct
<1>5. ASSUME NEW K, K = Locals \/ (K = {} /\ PendingLoop), NEW e \in Here(K)
      PROVE  /\ e[x] \in Adm(l) /\ e[x] \in RT
             /\ LET v == IF y \in Symbols THEN e[y] ELSE y IN v \in Adm(r) /\ v \in RT
  <2>1. \A s \in Symbols : e[s] \in RT
    BY DEF Here, Covered, Envs
  <2>2. x \in {x, y} \cap Symbols
    OBVIOUS
  <2>3. e[x] \in Adm(l)
    BY <1>1, <1>5, <2>2, NoHabit, Known
  <2>4. CASE const
    <3>1. y \in Adm(r) /\ y \in RT
      BY <1>2, <2>4, AdmIs
    <3> QED  BY <2>1, <2>3, <2>4, <3>1
  <2>5. CASE ~const
    <3>1. y \in {x, y} \cap Symbols /\ y \in Readable
      BY <1>2, <2>5
    <3>2. e[y] \in Adm(states[y])
      BY <1>1, <1>5, <3>1, NoHabit, Known
    <3> QED  BY <2>1, <2>3, <2>5, <3>1, <3>2
  <2> QED  BY <2>4, <2>5
<1>6. CASE op = "And"
  <2>1. /\ Unmarked(x, Resolved(l, CRY_BOOL))
        /\ Emit(<<[Write(x, {CRY_BOOL}) EXCEPT !.dneeds = ResolveNeeds(l, CRY_BOOL)]>>)
        /\ states' = [states EXCEPT ![x] = Resolved(l, CRY_BOOL)]
    BY <1>6 DEF Operator
  <2>2. CRY_BOOL \in RT /\ {CRY_BOOL} \in SUBSET RT /\ CRY_BOOL # CRY_REFERENCE
    BY ConstantTypes DEF CRY_BOOL, CRY_REFERENCE
  <2>3. Resolved(l, CRY_BOOL) = Set(CRY_BOOL)
    BY <1>3, <2>2, ResolvedIs
  <2>4. PICK D \in SUBSET Types : D = ResolveNeeds(l, CRY_BOOL)
    BY <1>2, <1>4, <2>2, FilterTypes
  <2>5. PICK j : j = Write(x, {CRY_BOOL})
    OBVIOUS
  <2>6. /\ j \in Instructions /\ j.do = "write" /\ j.dest = x /\ j.src = x /\ j.gives = {CRY_BOOL}
        /\ j.sneeds = Types
    BY <2>2, <2>5, WriteIs
  <2>7. PICK i : i = [j EXCEPT !.dneeds = D]
    OBVIOUS
  <2>8. /\ i \in Instructions /\ i.do = "write" /\ i.dest = x /\ i.src = x /\ i.gives = {CRY_BOOL}
        /\ i.dneeds = D /\ i.sneeds = Types
    BY <2>6, <2>7 DEF Instructions
  <2>9. Emit(<<i>>)
    BY <2>1, <2>4, <2>5, <2>7
  <2>10. ASSUME NEW K, K = Locals \/ (K = {} /\ PendingLoop), NEW e \in Here(K)
         PROVE  Sound(i, e)
    <3>1. e[x] \in Adm(l) \cap RT
      BY <1>5, <2>10
    <3>2. e[x] \in D /\ e[x] \in Types
      BY <1>2, <1>3, <2>2, <2>4, <3>1, ResolvedIs
    <3> QED  BY <2>8, <3>2 DEF Sound
  <2> HIDE DEF l
  <2> QED  BY <1>1, <2>1, <2>2, <2>3, <2>8, <2>9, <2>10, OperatorWrites
<1>7. CASE op # "And" /\ Static(l, r)
  <2>1. /\ Unmarked(x, StaticFilter(op, l, r, t))
        /\ Emit(<<[Write(x, {t}) EXCEPT !.src = y, !.dneeds = Single(l), !.sneeds = Single(r)]>>)
        /\ states' = [states EXCEPT ![x] = StaticFilter(op, l, r, t)]
    BY <1>7 DEF Operator
  <2>2. PICK a \in RT, b \in RT : l = Set(a) /\ r = Set(b) /\ a # CRY_REFERENCE /\ b # CRY_REFERENCE
    <3>1. Size(l) = 1 /\ Size(r) = 1 /\ ~Only(l, CRY_REFERENCE) /\ ~Only(r, CRY_REFERENCE)
      BY <1>7 DEF Static
    <3> HIDE DEF l, r
    <3> QED  BY <1>3, <3>1, AdmIs
  <2> HIDE DEF l, r, const
  <2>3. Single(l) = {a} /\ Single(r) = {b}
    <3>1. Cardinality({a}) = 1 /\ Cardinality({b}) = 1
      BY FS_Singleton
    <3>2. l.flags = {a} /\ r.flags = {b}
      BY <2>2, AdmIs
    <3> QED  BY <2>2, <3>1, <3>2 DEF Single
  <2>4. t \in RT /\ {t} \in SUBSET RT
    BY <1>1, <1>4, StaticType DEF const
  <2>5. StaticFilter(op, l, r, t) = Set(t)
    <3>1. Resolved(l, t) = Set(t)
      BY <1>3, <2>4, ResolvedIs
    <3>2. Null_Op(op, l, r) => t = CRY_NIL
      <4>1. Null_Op(op, l, r) => op \in Arithmetic
        BY DEF Null_Op
      <4>2. Null_Op(op, l, r) => op # "Les"
        BY <4>1 DEF Arithmetic
      <4> QED  BY <4>2 DEF StaticResult
    <3> HIDE DEF t
    <3> QED  BY <3>1, <3>2 DEF StaticFilter
  <2> HIDE DEF t
  <2>6. PICK j : j = Write(x, {t})
    OBVIOUS
  <2>7. /\ j \in Instructions /\ j.do = "write" /\ j.dest = x /\ j.gives = {t}
    BY <2>4, <2>6, WriteIs
  <2>8. PICK i : i = [j EXCEPT !.src = y, !.dneeds = {a}, !.sneeds = {b}]
    OBVIOUS
  <2>9. /\ i \in Instructions /\ i.do = "write" /\ i.dest = x /\ i.src = y /\ i.gives = {t}
        /\ i.dneeds = {a} /\ i.sneeds = {b}
    <3>1. y \in Symbols \cup Types /\ {a} \in SUBSET Types /\ {b} \in SUBSET Types
      BY <1>2 DEF const
    <3> QED  BY <2>7, <2>8, <3>1 DEF Instructions
  <2>10. Emit(<<i>>)
    BY <2>1, <2>3, <2>6, <2>8
  <2>11. ASSUME NEW K, K = Locals \/ (K = {} /\ PendingLoop), NEW e \in Here(K)
         PROVE  Sound(i, e)
    <3>1. Adm(l) = {a} /\ Adm(r) = {b}
      BY <2>2, AdmIs
    <3> QED  BY <1>5, <2>9, <2>11, <3>1 DEF Sound
  <2>12. /\ states' = [states EXCEPT ![x] = Set(t)] /\ UNCHANGED <<lookups, live>>
         /\ Unmarked(x, Set(t)) /\ t \in RT /\ x \in Symbols
    BY <1>1, <2>1, <2>4, <2>5
  <2> QED  BY ONLY <1>0, <1>1, <2>9, <2>10, <2>11, <2>12, OperatorWrites
<1>8. CASE op # "And" /\ ~Static(l, r)
  <2>1. /\ Unmarked(x, both) /\ Disciplined("operand", both = Obscurity)
        /\ Emit(<<[Instruction("obscure", x, y) EXCEPT !.op = op]>>)
        /\ states' = [z \in Symbols |-> IF z \in {x, y} THEN both ELSE states[z]]
    BY <1>8 DEF Operator
  <2>2. both = Obscurity
    BY <2>1, NoHabit DEF Disciplined
  <2>3. \A z \in Symbols : states'[z] = Obscurity \/ states'[z] = states[z]
    BY <2>1, <2>2
  <2>4. Basic' /\ Following(x) /\ states'[x] = Obscurity
    BY <2>1, <2>2, <2>3, AdmIs, LocalsOrRegisters DEF Cover, Basic, Following
  <2>5. PICK j : j = Instruction("obscure", x, y)
    OBVIOUS
  <2>6. /\ j \in Instructions /\ j.do = "obscure" /\ j.dest = x /\ j.src = y
        /\ j.dneeds = Types /\ j.sneeds = Types
    <3>1. y \in Symbols \cup Types
      BY <1>2
    <3> QED  BY <2>5, <3>1, InstructionFields DEF Kinds
  <2>7. PICK i : i = [j EXCEPT !.op = op]
    OBVIOUS
  <2>8. /\ i \in Instructions /\ i.do = "obscure" /\ i.dest = x /\ i.src = y
        /\ i.dneeds = Types /\ i.sneeds = Types
    BY <1>1, <2>6, <2>7 DEF Instructions
  <2>9. Emit(<<i>>)
    BY <2>1, <2>5, <2>7
  <2>10. ASSUME NEW K, K = Locals \/ (K = {} /\ PendingLoop)
         PROVE  Fits(i, Here(K), Here(K)')
    <3>1. \A e \in Here(K) : Sound(i, e)
      BY <1>2, <1>5, <2>8, <2>10 DEF Sound
    <3>2. ASSUME NEW e \in Here(K), NEW e2, Leads(i, e, e2)
          PROVE  e2 \in Here(K)'
      <4>1. PICK u \in RT : e2 = [e EXCEPT ![x] = u]
        <5>1. e[x] \in RT
          BY <1>5, <2>10
        <5>2. Dynamic(i.op, e[x], IF y \in Symbols THEN e[y] ELSE y) \subseteq RT
          BY <5>1, DynamicType
        <5> QED  BY <2>8, <3>2, <5>2 DEF Leads
      <4>2. Carries(states, K \cup live, states', K \cup live', x)
        <5>1. K \cup live \subseteq Symbols
          BY <2>10, LocalsOrRegisters DEF Struct
        <5> QED  BY <1>1, <2>3, <5>1, AdmIs DEF Carries
      <4>3. e \in Covered(states, K \cup live) /\ u \in Adm(states'[x])
        BY <2>4, AdmIs DEF Here
      <4>4. [e EXCEPT ![x] = u] \in Covered(states', K \cup live')
        BY <4>2, <4>3, Assigned
      <4> QED  BY <4>1, <4>4 DEF Here
    <3> QED  BY <3>1, <3>2 DEF Fits
  <2>11. FitsHere(i)
    BY <2>8, <2>10 DEF FitsHere, Joins
  <2> QED  BY <1>1, <2>4, <2>8, <2>9, <2>11, ValueCover
<1> QED  BY <1>6, <1>7, <1>8
---------------------------------------------------------------------------
(* The methods for blocks.                                                 *)

LEMMA PushedSame ==
  ASSUME Struct, ~Pending, Len(lookups) < MaxNesting, NEW new \in Lookups,
         {new.next, new.block} \subseteq {NextLabel(Len(lookups) + 1), BlockLabel(Len(lookups) + 1)},
         new.back # 0 => new.corruptions = Symbols,
         lookups' = Append(lookups, new)
  PROVE  /\ Backs(lookups)' = Backs(lookups) \cup {b \in {new.back} : b # 0}
         /\ Entered(lookups)' = Entered(lookups) \cup {b \in {new.back} : b # 0 /\ ~new.pending}
         /\ \A p : Corrupted(lookups, p) \subseteq Corrupted(lookups', p)
         /\ PendingLoop' <=> new.pending /\ new.back # 0
         /\ LookupsType(lookups')
<1>1. LookupsType(lookups) /\ (lookups # <<>> => ~Last(lookups).pending)
  BY DEF Struct, Pending
<1>2. /\ Len(lookups) \in Nat /\ LookupsType(lookups') /\ Len(lookups') = Len(lookups) + 1
      /\ lookups' # <<>> /\ Last(lookups') = new
      /\ \A k \in 1 .. Len(lookups) : lookups'[k] = lookups[k]
      /\ lookups'[Len(lookups) + 1] = new
  BY <1>1, Pushed
<1>3. \A k : k \in 1 .. Len(lookups) + 1 <=> k \in 1 .. Len(lookups) \/ k = Len(lookups) + 1
  BY <1>2
<1>4. ASSUME NEW b
      PROVE  /\ b \in Backs(lookups') <=> b \in Backs(lookups) \/ (b = new.back /\ b # 0)
             /\ b \in Entered(lookups') <=> b \in Entered(lookups) \/ (b = new.back /\ b # 0 /\ ~new.pending)
  BY <1>2, <1>3 DEF Backs, Entered
<1>5. \A p : Corrupted(lookups, p) \subseteq Corrupted(lookups', p)
  BY <1>2, <1>3 DEF Corrupted
<1>6. PendingLoop' <=> new.pending /\ new.back # 0
  BY <1>2 DEF PendingLoop, Pending
<1> QED  BY <1>2, <1>4, <1>5, <1>6

LEMMA PendingEnds ==
  ASSUME Struct, Pending, lookups' = [lookups EXCEPT ![Len(lookups)].pending = FALSE]
  PROVE  /\ Backs(lookups)' = Backs(lookups) /\ Entered(lookups)' = Backs(lookups)
         /\ Last(lookups).back = 0 => Entered(lookups) = Backs(lookups)
         /\ \A p : Corrupted(lookups, p) = Corrupted(lookups', p)
         /\ ~PendingLoop' /\ LookupsType(lookups') /\ Labels(lookups') = Labels(lookups)
         /\ Len(lookups) \in Nat \ {0} /\ Last(lookups) = lookups[Len(lookups)] /\ LookupsType(lookups)
<1>1. LookupsType(lookups) /\ lookups # <<>>
  BY DEF Struct, Pending
<1>2. Len(lookups) \in Nat \ {0} /\ lookups \in Seq(Lookups) /\ Last(lookups) = lookups[Len(lookups)]
  BY <1>1, LookupsElements, EmptySeq DEF Last
<1> DEFINE new == [Last(lookups) EXCEPT !.pending = FALSE]
<1>3. lookups' = [lookups EXCEPT ![Len(lookups)] = new]
  BY <1>2
<1>4. Last(lookups) \in Lookups
  BY <1>2
<1>5. /\ new \in Lookups /\ new.next = Last(lookups).next /\ new.block = Last(lookups).block
      /\ new.back = Last(lookups).back /\ new.corruptions = Last(lookups).corruptions
      /\ new.pending = FALSE
  BY <1>4 DEF Lookups
<1>6. /\ {new.next, new.block} \subseteq {NextLabel(Len(lookups)), BlockLabel(Len(lookups))}
      /\ new.back # 0 => new.corruptions = Symbols
  BY <1>1, <1>2, <1>5 DEF LookupsType
<1> HIDE DEF new
<1>7. /\ Len(lookups') = Len(lookups) /\ lookups' # <<>> /\ Last(lookups') = new /\ LookupsType(lookups')
      /\ \A k \in 1 .. Len(lookups) : lookups'[k] = IF k = Len(lookups) THEN new ELSE lookups[k]
  <2>1. Replaceable(lookups, new)
    BY <1>1, <1>5, <1>6 DEF Replaceable
  <2>2. Replaced(lookups, new, [lookups EXCEPT ![Len(lookups)] = new])
    BY ONLY <2>1, TopReplaced
  <2>3. Replaced(lookups, new, lookups')
    BY ONLY <1>3, <2>2
  <2> QED  BY <2>3 DEF Replaced
<1>8. \A k \in 1 .. Len(lookups) : k # Len(lookups) => k \in 1 .. Len(lookups) - 1
  BY <1>2
<1>9. \A k \in 1 .. Len(lookups) :
        /\ lookups'[k].back = lookups[k].back /\ lookups'[k].corruptions = lookups[k].corruptions
        /\ lookups'[k].next = lookups[k].next /\ lookups'[k].block = lookups[k].block
        /\ ~lookups'[k].pending
        /\ k # Len(lookups) => ~lookups[k].pending
  BY <1>1, <1>2, <1>5, <1>7, <1>8 DEF LookupsType
<1>10. Backs(lookups') = Backs(lookups) /\ Entered(lookups') = Backs(lookups)
  BY <1>7, <1>9 DEF Backs, Entered
<1>11. Last(lookups).back = 0 => Entered(lookups) = Backs(lookups)
  BY <1>2, <1>9 DEF Backs, Entered
<1>12. \A p : Corrupted(lookups, p) = Corrupted(lookups', p)
  BY <1>7, <1>9 DEF Corrupted
<1>13. Labels(lookups') = Labels(lookups)
  <2>1. DOMAIN lookups = 1 .. Len(lookups) /\ DOMAIN lookups' = 1 .. Len(lookups)
    BY <1>1, <1>7, LookupsElements
  <2> QED  BY <1>9, <2>1 DEF Labels
<1>14. ~PendingLoop'
  BY <1>5, <1>7 DEF PendingLoop, Pending
<1> QED  BY <1>1, <1>2, <1>7, <1>10, <1>11, <1>12, <1>13, <1>14

LEMMA BranchIs ==
  ASSUME NEW v \in Symbols, NEW S \in SUBSET Types, NEW to \in Int
  PROVE  LET i == Branch(v, S, to) IN
         /\ i \in Instructions /\ i.do = "branch" /\ i.dest = v /\ i.src = v /\ i.to = to
         /\ i.dneeds = Types /\ i.sneeds = S
<1>1. PICK j : j = Instruction("branch", v, v)
  OBVIOUS
<1>2. /\ j \in Instructions /\ j.do = "branch" /\ j.dest = v /\ j.src = v
      /\ j.dneeds = Types /\ j.sneeds = Types
  BY <1>1, InstructionFields DEF Kinds
<1>3. PICK i : i = [j EXCEPT !.sneeds = S, !.to = to]
  OBVIOUS
<1>4. /\ i \in Instructions /\ i.do = "branch" /\ i.dest = v /\ i.src = v /\ i.to = to
      /\ i.dneeds = Types /\ i.sneeds = S
  BY <1>2, <1>3 DEF Instructions
<1> QED  BY <1>1, <1>3, <1>4 DEF Branch

(* Filters that stay cover less symbols. *)
LEMMA LessCovered ==
  ASSUME NEW st, NEW S, NEW S2, S2 \subseteq S
  PROVE  Covered(st, S) \subseteq Covered(st, S2)
BY DEF Covered

LEMMA TestedCover ==
  ASSUME Allowed \subseteq {"range"}, Struct, Cover, ~PendingLoop, NEW v, NEW to \in Int, to < 0,
         pc = Tip \/ pc < 0,
         Test_Condition(v, to), UNCHANGED states,
         Entered(lookups)' = Entered(lookups), Backs(lookups)' = Backs(lookups), ~PendingLoop',
         \A p : Corrupted(lookups, p) \subseteq Corrupted(lookups', p), Labels(lookups) \subseteq Int
  PROVE  Cover'
<1>1. /\ v \in Readable /\ ~Only(states[v], CRY_REFERENCE) /\ live' = {}
      /\ Emit(<<Branch(v, Tested(states[v]), to)>>)
  BY NoHabit DEF Test_Condition, Disciplined
<1>2. v \in Symbols
  BY <1>1 DEF Readable, Symbols, Struct
<1>3. PICK S \in SUBSET Types : S = Tested(states[v])
  BY <1>2, FilterTypes DEF Struct
<1>4. PICK i : i = Branch(v, S, to)
  OBVIOUS
<1>5. /\ i \in Instructions /\ i.do = "branch" /\ i.dest = v /\ i.src = v /\ i.to = to
      /\ i.dneeds = Types /\ i.sneeds = S /\ Emit(<<i>>)
  BY <1>1, <1>2, <1>3, <1>4, BranchIs
<1>6. Basic'
  BY DEF Cover, Basic
<1>7. Grows(Labels(lookups), Waits(states, lookups), Waits(states', lookups'))
  <2>1. \A x \in Locals : Kept(x, states, lookups, states', lookups', Labels(lookups))
    BY DEF Kept
  <2> QED  BY <2>1, WaitsGrow
<1>8. Fits(i, Here(Locals), Here(Locals)')
  <2>1. ASSUME NEW e \in Here(Locals)
        PROVE  Sound(i, e)
    <3>1. e[v] \in RT /\ e[v] \in Adm(states[v])
      BY <1>1, <1>2 DEF Here, Covered, Envs, Readable
    <3>2. PICK f : f = states[v]
      OBVIOUS
    <3>3. f = Obscurity \/ \E t \in RT : f = Set(t)
      BY <1>2, <3>2 DEF Cover, Basic
    <3>4. e[v] \in Tested(f)
      BY <1>1, <3>1, <3>2, <3>3, FiltersServe
    <3>5. e[v] \in S /\ e[v] \in Types
      BY <1>3, <3>1, <3>2, <3>4, ConstantTypes
    <3> QED  BY <1>2, <1>5, <3>5 DEF Sound
  <2>2. Here(Locals) \subseteq Here(Locals)'
    BY <1>1, LessCovered DEF Here
  <2>3. \A e, e2 : Leads(i, e, e2) => e2 = e
    BY <1>5 DEF Leads
  <2> QED  BY <2>1, <2>2, <2>3 DEF Fits
<1>9. Joins(i, Here(Locals), Waits(states', lookups'), {})
  <2>1. Waits(states', lookups')[to] = Covered(states', Locals \ Corrupted(lookups', to))
    BY DEF Waits
  <2>2. Here(Locals) \subseteq Covered(states', Locals \ Corrupted(lookups', to))
    BY LessCovered DEF Here
  <2> QED  BY <1>5, <2>1, <2>2 DEF Joins
<1>10. FitsHere(i)
  BY <1>8, <1>9 DEF FitsHere
<1> QED  BY <1>5, <1>6, <1>7, <1>10, EmitCover

LEMMA IfCover ==
  ASSUME Allowed \subseteq {"range"}, Struct, Cover, NEW v, If(v)
  PROVE  Cover'
<1> DEFINE to == NextLabel(Len(lookups) + 1)
           new == [back |-> 0, next |-> to, block |-> BlockLabel(Len(lookups) + 1),
                   corruptions |-> {}, pending |-> FALSE]
<1>1. /\ lookups' = Append(lookups, new) /\ Test_Condition(v, to) /\ UNCHANGED states
      /\ ~Pending /\ Len(lookups) < MaxNesting /\ (pc = Tip \/ pc < 0)
  BY DEF If, Nested, Ready
<1>2. LookupsType(lookups) /\ Len(lookups) \in Nat
  BY LookupsElements DEF Struct
<1>3. to \in Int /\ to < 0
  BY <1>2, PushLabel
<1>4. /\ new \in Lookups /\ new.back = 0 /\ ~new.pending
      /\ {new.next, new.block} \subseteq {NextLabel(Len(lookups) + 1), BlockLabel(Len(lookups) + 1)}
  BY <1>2, PushLabel DEF Lookups
<1> HIDE DEF new, to
<1>5. /\ Backs(lookups)' = Backs(lookups) \cup {b \in {new.back} : b # 0}
      /\ Entered(lookups)' = Entered(lookups) \cup {b \in {new.back} : b # 0 /\ ~new.pending}
      /\ \A p : Corrupted(lookups, p) \subseteq Corrupted(lookups', p)
      /\ ~PendingLoop'
  BY <1>1, <1>4, PushedSame
<1>6. Backs(lookups)' = Backs(lookups) /\ Entered(lookups)' = Entered(lookups)
  BY <1>4, <1>5
<1>7. ~PendingLoop /\ Labels(lookups) \subseteq Int
  BY <1>1, <1>2, LabelsAre DEF PendingLoop
<1> QED  BY <1>1, <1>3, <1>5, <1>6, <1>7, TestedCover

LEMMA ElseIfCover ==
  ASSUME Allowed \subseteq {"range"}, Struct, Cover, NEW v, ElseIf(v)
  PROVE  Cover'
<1> DEFINE to == Last(lookups).next
<1>1. /\ lookups' = [lookups EXCEPT ![Len(lookups)].pending = FALSE]
      /\ Test_Condition(v, to) /\ UNCHANGED states
      /\ Pending /\ Last(lookups).back = 0 /\ (pc = Tip \/ pc < 0)
  BY DEF ElseIf, Ready
<1>2. LookupsType(lookups) /\ lookups # <<>>
  BY <1>1, PendingEmpty DEF Struct
<1>3. to \in Int /\ to < 0
  BY <1>2, NextLabels
<1> HIDE DEF to
<1>4. /\ Backs(lookups)' = Backs(lookups) /\ Entered(lookups)' = Entered(lookups)
      /\ \A p : Corrupted(lookups, p) \subseteq Corrupted(lookups', p)
      /\ ~PendingLoop'
  BY <1>1, PendingEnds
<1>5. ~PendingLoop /\ Labels(lookups) \subseteq Int
  BY <1>1, <1>2, LabelsAre DEF PendingLoop
<1> QED  BY <1>1, <1>3, <1>4, <1>5, TestedCover

LEMMA ReturnCover ==
  ASSUME Struct, Cover, NEW v, Return(v)
  PROVE  Cover'
<1>1. /\ pc = Tip \/ pc < 0
      /\ ~Pending /\ v \in Readable /\ UNCHANGED <<states, lookups>>
      /\ Emit(<<[Instruction("return", v, v) EXCEPT !.sneeds = Returned(states[v])]>>)
  BY DEF Return, Ready
<1>2. v \in Symbols
  BY <1>1 DEF Readable, Symbols, Struct
<1>3. PICK S \in SUBSET Types : S = Returned(states[v])
  BY <1>2, FilterTypes DEF Struct
<1>4. PICK j : j = Instruction("return", v, v)
  OBVIOUS
<1>5. /\ j \in Instructions /\ j.do = "return" /\ j.dest = v /\ j.src = v /\ j.dneeds = Types
  BY <1>2, <1>4, InstructionFields DEF Kinds
<1>6. PICK i : i = [j EXCEPT !.sneeds = S]
  OBVIOUS
<1>7. /\ i \in Instructions /\ i.do = "return" /\ i.dest = v /\ i.src = v
      /\ i.dneeds = Types /\ i.sneeds = S
  BY <1>5, <1>6 DEF Instructions
<1>8. Emit(<<i>>)
  BY <1>1, <1>3, <1>4, <1>6
<1>9. Basic' /\ ~PendingLoop
  BY <1>1 DEF Cover, Basic, PendingLoop
<1>10. FitsHere(i)
  <2>1. ASSUME NEW e \in Here(Locals)
        PROVE  Sound(i, e)
    <3>1. e[v] \in RT /\ e[v] \in Adm(states[v])
      BY <1>1, <1>2 DEF Here, Covered, Envs, Readable
    <3>2. PICK f : f = states[v]
      OBVIOUS
    <3>3. f = Obscurity \/ \E t \in RT : f = Set(t)
      BY <1>2, <3>2 DEF Cover, Basic
    <3>4. e[v] \in Returned(f)
      BY <3>1, <3>2, <3>3, FiltersServe
    <3>5. e[v] \in S /\ e[v] \in Types
      BY <1>3, <3>1, <3>2, <3>4, ConstantTypes
    <3> QED  BY <1>2, <1>7, <3>5 DEF Sound
  <2>2. \A e, e2 : ~Leads(i, e, e2)
    BY <1>7 DEF Leads
  <2> QED  BY <1>7, <1>9, <2>1, <2>2 DEF FitsHere, Fits, Joins
<1>11. Following(v)
  BY <1>1 DEF Following
<1>12. UNCHANGED lookups
  BY <1>1
<1> QED  BY <1>1, <1>2, <1>7, <1>8, <1>9, <1>10, <1>11, <1>12, ValueCover

(* The second annotation is the one to go on with once the condition of a  *)
(* loop is complete.                                                       *)
LEMMA SecondReached ==
  ASSUME Struct, Cover, pc = Tip \/ pc < 0, NEW A, NEW B,
         Annotates(A, code, Here({}), Waits(states, lookups), B)
  PROVE  env \in A[pc]
<1>1. pc # 0 /\ pc \in Int /\ Tip = Len(code) + 1
  BY TipNat DEF Struct, PlaceOK, CodeType, Tip
<1>2. PICK A2 : Annotates(A2, code, Here(Locals), Waits(states, lookups), Entered(lookups)) /\ env \in A2[pc]
  BY <1>1 DEF Cover
<1>3. CASE pc = Tip
  <2>1. A[pc] = Here({}) /\ A2[pc] = Here(Locals)
    BY <1>1, <1>2, <1>3 DEF Annotates
  <2>2. Here(Locals) \subseteq Here({})
    BY LessCovered DEF Here
  <2> QED  BY <1>2, <2>1, <2>2
<1>4. CASE pc < 0
  <2>1. A[pc] = Waits(states, lookups)[pc] /\ A2[pc] = Waits(states, lookups)[pc]
    BY <1>1, <1>2, <1>4 DEF Annotates
  <2> QED  BY <1>2, <2>1
<1> QED  BY <1>3, <1>4

(* A loop marks everything. *)
LEMMA LoopWaits ==
  ASSUME Struct, Pending, Last(lookups).back # 0,
         lookups' = [lookups EXCEPT ![Len(lookups)].pending = FALSE]
  PROVE  \A p \in Labels(lookups) : p \in Int /\ Waits(states', lookups')[p] = Envs
<1>1. /\ LookupsType(lookups) /\ Len(lookups) \in Nat \ {0} /\ Last(lookups) = lookups[Len(lookups)]
      /\ \A p : Corrupted(lookups, p) = Corrupted(lookups', p)
  BY PendingEnds
<1>2. Len(lookups) \in 1 .. Len(lookups)
  BY <1>1
<1>3. lookups[Len(lookups)].corruptions = Symbols
  BY <1>1, <1>2 DEF LookupsType
<1>4. ASSUME NEW p \in Labels(lookups)
      PROVE  p \in Int /\ Waits(states', lookups')[p] = Envs
  <2>1. p \in Int /\ 2 * Len(lookups) + 1 + p >= 0
    BY <1>1, LabelsAre
  <2>2. Symbols \subseteq Corrupted(lookups, p)
    BY <1>2, <1>3, <2>1 DEF Corrupted
  <2>3. Locals \ Corrupted(lookups', p) = {}
    BY <1>1, <2>2, LocalsOrRegisters
  <2> QED  BY <2>1, <2>3 DEF Waits, Covered
<1> QED  BY <1>4

LEMMA WhileCover ==
  ASSUME Struct, Cover, NEW v, While(v)
  PROVE  Cover'
<1> DEFINE to == Last(lookups).next
           L  == Waits(states, lookups)
           L2 == Waits(states', lookups')
<1>1. /\ Pending /\ Last(lookups).back # 0 /\ (pc = Tip \/ pc < 0) /\ v \in Readable
      /\ lookups' = [lookups EXCEPT ![Len(lookups)].pending = FALSE]
      /\ Emit(<<Branch(v, Types, to)>>) /\ live' = {}
      /\ states' = [x \in Symbols |-> Obscurity]
  BY DEF While, Ready
<1>2. LookupsType(lookups) /\ lookups # <<>> /\ pc # 0
  BY <1>1, PendingEmpty, TipNat DEF Struct, PlaceOK, CodeType, Tip
<1>3. to \in Int /\ to < 0 /\ to \in Labels(lookups)
  BY <1>2, NextLabels
<1>4. Entered(lookups)' = Backs(lookups) /\ ~PendingLoop'
  BY <1>1, PendingEnds
<1>5. v \in Symbols
  BY <1>1 DEF Readable, Symbols, Struct
<1>6. Basic' /\ Here(Locals)' = Envs
  <2>1. \A x \in Locals : states'[x] = Obscurity
    BY <1>1, LocalsOrRegisters
  <2>2. \A e \in Envs, x \in Locals : e[x] \in RT
    BY LocalsOrRegisters DEF Envs
  <2>3. \A e \in Envs, x \in Locals : e[x] \in Adm(states'[x])
    BY <2>1, <2>2, AdmIs
  <2> QED  BY <1>1, <2>3 DEF Basic, Here, Covered
<1>7. \A p \in Labels(lookups) : L2[p] = Envs
  BY <1>1, LoopWaits
<1>8. L2 \in [Int -> SUBSET Envs] /\ L \in [Int -> SUBSET Envs]
  BY WaitsType
<1>9. \A p \in Labels(lookups) : p \in Int
  BY <1>2, LabelsAre
<1>10. PICK A : Annotates(A, code, Here({}), L, Backs(lookups))
  BY <1>1, <1>2 DEF Cover, PendingLoop
<1>11. env \in A[pc]
  BY <1>1, <1>10, SecondReached
<1> HIDE DEF L, L2, to
<1>12. PICK i : i = Branch(v, Types, to)
  OBVIOUS
<1>13. /\ i \in Instructions /\ i.do = "branch" /\ i.dest = v /\ i.src = v /\ i.to = to
       /\ i.dneeds = Types /\ i.sneeds = Types
  BY <1>3, <1>5, <1>12, BranchIs
<1>14. Grows(Labels(lookups), L, L2)
  BY <1>7, <1>8, <1>9 DEF Grows
<1>15. Fits(i, Here({}), Envs)
  <2>1. \A e \in Envs : e[v] \in Types
    BY <1>5, ConstantTypes DEF Envs
  <2>2. \A e \in Envs : Sound(i, e)
    BY <1>5, <1>13, <2>1 DEF Sound
  <2>3. \A e, e2 : Leads(i, e, e2) => e2 = e
    BY <1>13 DEF Leads
  <2> QED  BY <2>2, <2>3, HereType DEF Fits
<1>16. Joins(i, Here({}), L2, Backs(lookups))
  BY <1>3, <1>7, <1>13, HereType DEF Joins
<1>17. PICK A2 : Annotates(A2, Extended(<<i>>), Envs, L2, Backs(lookups)) /\ A[pc] \subseteq A2[pc]
  <2>1. Envs \in SUBSET Envs
    OBVIOUS
  <2> QED  BY ONLY Struct, <1>1, <1>10, <1>13, <1>14, <1>15, <1>16, <2>1, ExtendedFits
<1>18. code' = Extended(<<i>>) /\ pc' = pc /\ env' = env
  BY <1>1, <1>12 DEF Emit
<1>19. Annotates(A2, code', Here(Locals)', L2, Entered(lookups)') /\ env' \in A2[pc']
  BY <1>4, <1>6, <1>11, <1>17, <1>18
<1>20. L2 = Waits(states', lookups')
  BY DEF L2
<1> QED  BY <1>4, <1>6, <1>19, <1>20 DEF Cover

LEMMA InCover ==
  ASSUME Struct, Cover, NEW x \in Locals, In(x)
  PROVE  Cover'
<1> DEFINE to == Last(lookups).next
           L  == Waits(states, lookups)
           L2 == Waits(states', lookups')
<1>1. /\ Pending /\ Last(lookups).back # 0 /\ (pc = Tip \/ pc < 0)
      /\ lookups' = [lookups EXCEPT ![Len(lookups)].pending = FALSE]
      /\ Emit(<<Branch(x, Types, to), Write(x, {CRY_REFERENCE})>>) /\ live' = {}
      /\ states' = [y \in Symbols |-> IF y = x THEN Set(CRY_REFERENCE) ELSE Obscurity]
  BY DEF In, Ready
<1>2. LookupsType(lookups) /\ lookups # <<>> /\ pc # 0 /\ CodeType(code, lookups) /\ Len(code) \in Nat
      /\ pc \in Int /\ (pc < 0 => pc \in Labels(lookups)) /\ Tip = Len(code) + 1
  BY <1>1, PendingEmpty, TipNat DEF Struct, PlaceOK, CodeType, Tip
<1>3. to \in Int /\ to < 0 /\ to \in Labels(lookups)
  BY <1>2, NextLabels
<1>4. Entered(lookups)' = Backs(lookups) /\ ~PendingLoop'
  BY <1>1, PendingEnds
<1>5. x \in Symbols /\ CRY_REFERENCE \in RT /\ {CRY_REFERENCE} \in SUBSET RT
  BY LocalsOrRegisters, ConstantTypes
<1>6. \A y \in Symbols : states'[y] = IF y = x THEN Set(CRY_REFERENCE) ELSE Obscurity
  BY <1>1
<1>7. Basic' /\ Here(Locals)' = Covered(states', Locals)
  BY <1>1, <1>5, <1>6 DEF Basic, Here
<1>8. \A p \in Labels(lookups) : p \in Int /\ L2[p] = Envs
  BY <1>1, LoopWaits
<1>9. L2 \in [Int -> SUBSET Envs] /\ L \in [Int -> SUBSET Envs]
  BY WaitsType
<1>10. PICK A : Annotates(A, code, Here({}), L, Backs(lookups))
  BY <1>1, <1>2 DEF Cover, PendingLoop
<1>11. env \in A[pc]
  BY <1>1, <1>10, SecondReached
<1> HIDE DEF L, L2, to
<1>12. PICK i1 : i1 = Branch(x, Types, to)
  OBVIOUS
<1>13. /\ i1 \in Instructions /\ i1.do = "branch" /\ i1.dest = x /\ i1.src = x /\ i1.to = to
       /\ i1.dneeds = Types /\ i1.sneeds = Types
  BY <1>3, <1>5, <1>12, BranchIs
<1>14. PICK i2 : i2 = Write(x, {CRY_REFERENCE})
  OBVIOUS
<1>15. /\ i2 \in Instructions /\ i2.do = "write" /\ i2.dest = x /\ i2.src = x /\ i2.gives = {CRY_REFERENCE}
       /\ i2.dneeds = Types /\ i2.sneeds = Types
  BY <1>5, <1>14, WriteIs
<1>16. Grows(Labels(lookups), L, L2) /\ Grows(Labels(lookups), L2, L2)
  BY <1>8, <1>9 DEF Grows
<1>17. \A e \in Envs : e[x] \in Types
  BY <1>5, ConstantTypes DEF Envs
<1>18. Fits(i1, Here({}), Envs) /\ Joins(i1, Here({}), L2, Backs(lookups))
  <2>1. \A e \in Envs : Sound(i1, e)
    BY <1>5, <1>13, <1>17 DEF Sound
  <2>2. \A e, e2 : Leads(i1, e, e2) => e2 = e
    BY <1>13 DEF Leads
  <2> QED  BY <1>3, <1>8, <1>13, <2>1, <2>2, HereType DEF Fits, Joins
<1>19. Fits(i2, Envs, Covered(states', Locals)) /\ Joins(i2, Envs, L2, Backs(lookups))
  <2>1. \A e \in Envs : Sound(i2, e)
    BY <1>5, <1>15, <1>17 DEF Sound
  <2>2. \A e, e2 : Leads(i2, e, e2) => e2 = [e EXCEPT ![x] = CRY_REFERENCE]
    BY <1>15 DEF Leads
  <2>3. ASSUME NEW e \in Envs
        PROVE  [e EXCEPT ![x] = CRY_REFERENCE] \in Covered(states', Locals)
    <3>1. e \in Covered(states, {})
      BY DEF Covered
    <3>2. Carries(states, {}, states', Locals, x) /\ CRY_REFERENCE \in Adm(states'[x])
      BY <1>5, <1>6, AdmIs, LocalsOrRegisters DEF Carries
    <3> QED  BY <1>5, <3>1, <3>2, Assigned
  <2> QED  BY <1>15, <2>1, <2>2, <2>3 DEF Fits, Joins
<1>20. code' = code \o <<i1, i2>> /\ pc' = pc /\ env' = env
  <2>1. InLoop
    <3>1. Looping(lookups)
      BY <1>1, <1>2, NextLabels DEF Looping
    <3> QED  BY <1>2, <3>1, LoopingIs
  <2> QED  BY <1>1, <1>12, <1>14, <2>1 DEF Emit, Extended
<1>21. PICK d : d = code \o <<i1>>
  OBVIOUS
<1>22. code \in Seq(Instructions)
  BY <1>2, CodeElements
<1>23. Adds(code, i1, d) /\ Adds(d, i2, code')
  <2>1. PICK d2 : d2 = code \o <<i1, i2>>
    OBVIOUS
  <2>2. /\ Len(d) = Len(code) + 1 /\ d[Len(code) + 1] = i1 /\ \A j \in 1 .. Len(code) : d[j] = code[j]
    BY <1>2, <1>13, <1>21, <1>22
  <2>3. /\ Len(d2) = Len(code) + 2 /\ d2[Len(code) + 1] = i1 /\ d2[Len(code) + 2] = i2
        /\ \A j \in 1 .. Len(code) : d2[j] = code[j]
    BY <1>2, <1>13, <1>15, <1>22, <2>1
  <2>4. Len(d2) = Len(d) + 1 /\ Len(d) + 1 = Len(code) + 2
    BY <1>2, <2>2, <2>3
  <2>5. \A j \in 1 .. Len(d) : j \in 1 .. Len(code) \/ j = Len(code) + 1
    BY <1>2, <2>2
  <2>6. \A j \in 1 .. Len(d) : d2[j] = d[j]
    BY <2>2, <2>3, <2>5
  <2> QED  BY <1>20, <2>1, <2>2, <2>3, <2>4, <2>6 DEF Adds
<1>24. CodeType(d, lookups)
  <2>1. <<i1>> \in Seq(Instructions) /\ Len(<<i1>>) = 1 /\ <<i1>>[1] = i1
    BY <1>13
  <2>2. to <= Tip
    BY <1>2, <1>3
  <2>3. Placed(i1, lookups, Tip)
    BY <1>2, <1>3, <1>5, <1>12, <2>2, TipNat, JumpPlaced
  <2>4. PICK is : is = <<i1>>
    OBVIOUS
  <2>5. \A j \in 1 .. Len(is) : Placed(is[j], lookups, Len(code) + 1)
    BY <1>2, <2>1, <2>3, <2>4
  <2> QED  BY <1>2, <1>21, <2>1, <2>4, <2>5, CodeAppended
<1>25. Backs(lookups) \subseteq 1 .. Len(code) + 1 /\ Backs(lookups) \subseteq 1 .. Len(d) + 1
  <2>1. Backs(lookups) \subseteq 1 .. Len(code) + 1 /\ Len(d) = Len(code) + 1
    BY <1>2, <1>23, BacksPlaced DEF Adds
  <2> QED  BY <1>2, <2>1
<1>26. Envs \in SUBSET Envs /\ Covered(states', Locals) \in SUBSET Envs
  BY DEF Covered
<1>27. PICK A1 : Annotates(A1, d, Envs, L2, Backs(lookups)) /\ Widens(code, A, A1)
  BY ONLY <1>2, <1>10, <1>13, <1>16, <1>18, <1>23, <1>25, <1>26, Appended
<1>28. PICK A2 : Annotates(A2, code', Covered(states', Locals), L2, Backs(lookups)) /\ Widens(d, A1, A2)
  BY ONLY <1>15, <1>16, <1>19, <1>23, <1>24, <1>25, <1>26, <1>27, Appended
<1>29. env' \in A2[pc']
  <2>1. CASE pc = Tip
    <3>1. pc \in 1 .. Len(code) + 1 /\ pc \in 1 .. Len(d) + 1
      BY <1>2, <1>23, <2>1 DEF Adds
    <3> QED  BY <1>11, <1>20, <1>27, <1>28, <3>1 DEF Widens
  <2>2. CASE pc < 0
    <3>1. A2[pc] = L2[pc] /\ A[pc] = L[pc]
      BY <1>2, <1>10, <1>28, <2>2 DEF Annotates
    <3> QED  BY <1>2, <1>11, <1>16, <1>20, <2>2, <3>1 DEF Grows
  <2> QED  BY <1>1, <2>1, <2>2
<1>30. L2 = Waits(states', lookups')
  BY DEF L2
<1> QED  BY <1>4, <1>7, <1>28, <1>29, <1>30 DEF Cover

(* What the last block has corrupted is obscure.                           *)
Obscures(st) ==
  \A x \in Locals : IF x \in Last(lookups).corruptions THEN RT \subseteq Adm(st[x])
                    ELSE Adm(states[x]) \subseteq Adm(st[x])

(* The blocks but for the last one, perhaps with one that is not a loop.   *)
Trimmed(open) ==
  /\ LookupsType(open)
  /\ \A k \in 1 .. Len(lookups) - 1 : k \in 1 .. Len(open) /\ open[k] = lookups[k]
  /\ \A k \in 1 .. Len(open) : k \in 1 .. Len(lookups) - 1 \/ open[k].back = 0

LEMMA LandsHere ==
  ASSUME LookupsType(lookups), lookups # <<>>, NEW st, Obscures(st),
         NEW p \in {Last(lookups).next, Last(lookups).block}
  PROVE  p \in Int /\ p < 0 /\ Waits(states, lookups)[p] \subseteq Covered(st, Locals)
<1>1. /\ p \in Int /\ p < 0 /\ Len(lookups) \in Nat \ {0} /\ Last(lookups) = lookups[Len(lookups)]
  BY NextLabels
<1>2. p = -2 * Len(lookups) \/ p = -2 * Len(lookups) - 1
  <2>1. Len(lookups) \in 1 .. Len(lookups)
    BY <1>1
  <2> QED  BY <1>1, <2>1 DEF LookupsType, NextLabel, BlockLabel
<1>3. \A j \in 1 .. Len(lookups) : 2 * j + 1 + p >= 0 => j = Len(lookups)
  <2>1. PICK n \in Nat : n = Len(lookups)
    BY <1>1
  <2> QED  BY <1>2, <2>1
<1>4. Corrupted(lookups, p) \subseteq Last(lookups).corruptions
  BY <1>1, <1>3 DEF Corrupted
<1>5. ASSUME NEW e \in Covered(states, Locals \ Corrupted(lookups, p)), NEW x \in Locals
      PROVE  e[x] \in Adm(st[x])
  <2>1. e[x] \in RT
    BY LocalsOrRegisters DEF Covered, Envs
  <2> QED  BY <1>4, <2>1 DEF Covered, Obscures
<1> QED  BY <1>1, <1>5 DEF Waits, Covered

LEMMA TrimmedWaits ==
  ASSUME LookupsType(lookups), lookups # <<>>, NEW st, Obscures(st), NEW open, Trimmed(open)
  PROVE  /\ Grows(Labels(lookups), Waits(states, lookups), Waits(st, open))
         /\ Entered(open) \subseteq Entered(lookups)
<1>1. Len(lookups) \in Nat \ {0} /\ Last(lookups) = lookups[Len(lookups)]
  BY NextLabels
<1>2. \A k \in 1 .. Len(lookups) : k \in 1 .. Len(lookups) - 1 \/ k = Len(lookups)
  BY <1>1
<1>3. \A k \in 1 .. Len(lookups) - 1 : k \in 1 .. Len(lookups)
  BY <1>1
<1>4. ASSUME NEW x \in Locals
      PROVE  Kept(x, states, lookups, st, open, Labels(lookups))
  <2>1. CASE x \in Last(lookups).corruptions
    BY <2>1 DEF Kept, Obscures
  <2>2. CASE x \notin Last(lookups).corruptions
    <3>1. ASSUME NEW p, x \in Corrupted(lookups, p)
          PROVE  x \in Corrupted(open, p)
      <4>1. PICK k \in 1 .. Len(lookups) : 2 * k + 1 + p >= 0 /\ x \in lookups[k].corruptions
        BY <3>1 DEF Corrupted
      <4>2. k \in 1 .. Len(lookups) - 1
        BY <1>1, <1>2, <2>2, <4>1
      <4>3. k \in 1 .. Len(open) /\ open[k] = lookups[k]
        BY <4>2 DEF Trimmed
      <4> QED  BY <4>1, <4>3 DEF Corrupted
    <3> QED  BY <2>2, <3>1 DEF Kept, Obscures
  <2> QED  BY <2>1, <2>2
<1>5. Grows(Labels(lookups), Waits(states, lookups), Waits(st, open))
  <2>1. Labels(lookups) \subseteq Int
    BY LabelsAre
  <2> QED  BY <1>4, <2>1, WaitsGrow
<1>6. Entered(open) \subseteq Entered(lookups)
  BY <1>3 DEF Entered, Trimmed
<1> QED  BY <1>5, <1>6

LEMMA PlaceCover ==
  ASSUME Struct, Basic', ~PendingLoop', lookups # <<>>, pc = Tip \/ pc < 0,
         NEW labels, labels \subseteq {Last(lookups).next, Last(lookups).block},
         NEW c, CodeType(c, lookups), Len(code) <= Len(c),
         NEW A, Annotates(A, c, Covered(states, Locals), Waits(states, lookups), Entered(lookups)), env \in A[pc],
         NEW open, Place(labels, c, open), Trimmed(open), Obscures(states'),
         Labels(lookups) \ labels \subseteq Labels(open), Behind(open, Tip), live' = {}
  PROVE  Cover'
<1> DEFINE L  == Waits(states, lookups)
           L2 == Waits(states', open)
           T2 == Covered(states', Locals)
           p  == IF pc \in labels THEN Len(c) + 1 ELSE pc
<1>1. Settle(Landed(c, labels), p, open) /\ lookups' = open /\ env' = env
  BY DEF Place, Landed
<1>2. /\ LookupsType(lookups) /\ Tip = Len(code) + 1 /\ Len(code) \in Nat /\ Len(c) \in Nat
      /\ pc \in Int /\ pc <= Tip /\ (pc < 0 => pc \in Labels(lookups)) /\ LookupsType(open)
  BY CodeElements DEF Struct, PlaceOK, CodeType, Tip, Trimmed
<1>3. CodeType(Landed(c, labels), open) /\ Len(Landed(c, labels)) = Len(c)
  BY <1>2, LandedType
<1>4. Behind(open, Len(c) + 1)
  <2>1. \A k \in 1 .. Len(open) : open[k].back \in Nat
    BY <1>2, LookupsElements
  <2> QED  BY <1>2, <2>1 DEF Behind
<1>5. p \in Int /\ p <= Len(c) + 1 /\ (p < 0 => p \in Labels(open)) /\ p # 0
  BY <1>2
<1>6. \A q \in labels : q < 0 /\ q \in Int /\ L[q] \subseteq T2
  BY <1>2, LandsHere
<1>7. /\ L2 \in [Int -> SUBSET Envs] /\ T2 \in SUBSET Envs
      /\ \A q \in Labels(lookups) : L[q] \subseteq L2[q]
      /\ Entered(open) \subseteq Entered(lookups)
  <2>1. Grows(Labels(lookups), L, L2) /\ Entered(open) \subseteq Entered(lookups)
    BY <1>2, TrimmedWaits
  <2> HIDE DEF L, L2
  <2> QED  BY <2>1 DEF Grows, Covered
<1>8. Covered(states, Locals) \subseteq T2
  <2>1. \A e \in Envs, x \in Locals : e[x] \in RT
    BY LocalsOrRegisters DEF Envs
  <2>2. \A e \in Covered(states, Locals), x \in Locals : e[x] \in Adm(states'[x])
    BY <2>1 DEF Covered, Obscures
  <2> QED  BY <2>2 DEF Covered
<1>9. Entered(open) \subseteq 1 .. Len(c) + 1
  <2>1. Entered(lookups) \subseteq 1 .. Len(code) + 1
    BY <1>2, BacksPlaced, TipNat DEF Tip
  <2>2. \A n \in 1 .. Len(code) + 1 : n \in 1 .. Len(c) + 1
    BY <1>2
  <2> QED  BY <1>7, <2>1, <2>2
<1> HIDE DEF L, L2, T2
<1>10. Annotates(A, c, Covered(states, Locals), L, Entered(lookups))
  BY DEF L
<1>11. PICK A2 : Annotates(A2, Landed(c, labels), T2, L2, Entered(open)) /\ Widens(c, A, A2)
  <2>1. \A q \in Labels(lookups) \ labels : L[q] \subseteq L2[q]
    BY <1>7
  <2>2. /\ L2 \in [Int -> SUBSET Envs] /\ T2 \in SUBSET Envs
        /\ Entered(open) \subseteq Entered(lookups)
    BY <1>7
  <2> QED  BY ONLY CodeType(c, lookups), <1>6, <1>8, <1>9, <1>10, <2>1, <2>2, LabelsPlaced
<1>12. env \in A2[p]
  <2>1. A2[Len(c) + 1] = T2 /\ \A q \in Int : q < 0 => A2[q] = L2[q]
    BY <1>3, <1>11 DEF Annotates
  <2>2. \A q \in Int : q < 0 => A[q] = L[q]
    BY <1>10 DEF Annotates
  <2>3. CASE pc \in labels
    BY <1>2, <1>6, <2>1, <2>2, <2>3
  <2>4. CASE pc \notin labels /\ pc < 0
    BY <1>2, <1>7, <2>1, <2>2, <2>4
  <2>5. CASE pc \notin labels /\ pc = Tip
    <3>1. pc \in 1 .. Len(c) + 1
      BY <1>2, <2>5
    <3> QED  BY <1>11, <2>5, <3>1 DEF Widens
  <2> QED  BY <2>3, <2>4, <2>5
<1> HIDE DEF p
<1>13. PlaceOK(Landed(c, labels), p, open)
  BY <1>3, <1>4, <1>5 DEF PlaceOK
<1>14. PICK d : d = Landed(c, labels)
  OBVIOUS
<1>15. Entered(open) \subseteq Backs(open)
  BY DEF Entered, Backs
<1>16. PICK A3 : Annotates(A3, code', T2, L2, Entered(open)) /\ env \in A3[pc']
  <2>1. /\ Settle(d, p, open) /\ LookupsType(open) /\ PlaceOK(d, p, open) /\ p # 0
        /\ Annotates(A2, d, T2, L2, Entered(open))
    BY <1>1, <1>2, <1>5, <1>7, <1>11, <1>13, <1>14
  <2>2. PICK L3 \in [Int -> SUBSET Envs] : L3 = L2
    BY <1>7
  <2>3. PICK B : B = Entered(open)
    OBVIOUS
  <2>4. \E A3 : Annotates(A3, code', T2, L3, B) /\ env \in A3[pc']
    BY ONLY <1>12, <1>15, <2>1, <2>2, <2>3, Settled
  <2> QED  BY <2>2, <2>3, <2>4
<1>17. Here(Locals)' = T2
  BY DEF Here, T2
<1>18. L2 = Waits(states', lookups') /\ Entered(open) = Entered(lookups)'
  BY <1>1 DEF L2
<1> QED  BY <1>1, <1>16, <1>17, <1>18 DEF Cover

LEMMA JumpIs ==
  ASSUME NEW to \in Int
  PROVE  LET i == Jump(to) IN
         /\ i \in Instructions /\ i.do = "jump" /\ i.to = to
         /\ i.dest \in Symbols /\ i.src \in Symbols /\ i.dneeds = Types /\ i.sneeds = Types
<1>1. FirstRegister \in Symbols
  BY ConstantsAssumption DEF Symbols
<1>2. PICK j : j = Instruction("jump", FirstRegister, FirstRegister)
  OBVIOUS
<1>3. /\ j \in Instructions /\ j.do = "jump" /\ j.dest \in Symbols /\ j.src \in Symbols
      /\ j.dneeds = Types /\ j.sneeds = Types
  BY <1>1, <1>2, InstructionFields DEF Kinds
<1>4. PICK i : i = [j EXCEPT !.to = to]
  OBVIOUS
<1>5. /\ i \in Instructions /\ i.do = "jump" /\ i.to = to
      /\ i.dest \in Symbols /\ i.src \in Symbols /\ i.dneeds = Types /\ i.sneeds = Types
  BY <1>3, <1>4 DEF Instructions
<1> QED  BY <1>2, <1>4, <1>5 DEF Jump

(* A jump to a label of the last block, or back. *)
LEMMA JumpCover ==
  ASSUME Struct, Cover, pc = Tip \/ pc < 0, live = {}, NEW to \in Int, to <= Tip,
         to < 0 => to \in Labels(lookups),
         to \in Entered(lookups) \/ to < 0
  PROVE  /\ CodeType(Extended(<<Jump(to)>>), lookups) /\ Len(code) <= Len(Extended(<<Jump(to)>>))
         /\ \E A : /\ Annotates(A, Extended(<<Jump(to)>>), Covered(states, Locals),
                                Waits(states, lookups), Entered(lookups))
                   /\ env \in A[pc]
<1> DEFINE T == Covered(states, Locals)
           L == Waits(states, lookups)
<1>1. pc # 0 /\ Tip \in Nat
  BY TipNat DEF Struct, PlaceOK, CodeType, Tip
<1>2. CodeType(Extended(<<Jump(to)>>), lookups) /\ Len(code) <= Len(Extended(<<Jump(to)>>))
  <2>1. PICK is : is = <<Jump(to)>>
    OBVIOUS
  <2>2. is \in Seq(Instructions) /\ \A j \in 1 .. Len(is) : Placed(is[j], lookups, Tip)
    BY <1>1, <2>1, JumpSequence
  <2> QED  BY <2>1, <2>2, ExtendedType
<1>3. Here(Locals) = T
  BY DEF Here
<1>4. PICK A : Annotates(A, code, T, L, Entered(lookups)) /\ env \in A[pc]
  BY <1>1, <1>3 DEF Cover
<1>5. PICK i : i = Jump(to)
  OBVIOUS
<1>6. /\ i \in Instructions /\ i.do = "jump" /\ i.to = to
      /\ i.dest \in Symbols /\ i.src \in Symbols /\ i.dneeds = Types /\ i.sneeds = Types
  BY <1>5, JumpIs
<1>7. Fits(i, T, T)
  <2>1. \A e \in Envs : Sound(i, e)
    BY <1>6, ConstantTypes DEF Sound, Envs
  <2>2. \A e, e2 : ~Leads(i, e, e2)
    BY <1>6 DEF Leads
  <2> QED  BY <2>1, <2>2 DEF Fits, Covered
<1>8. Joins(i, T, L, Entered(lookups))
  <2>1. L[to] = Covered(states, Locals \ Corrupted(lookups, to))
    BY DEF Waits
  <2>2. T \subseteq L[to]
    BY <2>1, LessCovered
  <2> QED  BY <1>6, <2>2 DEF Joins
<1>9. T \in SUBSET Envs
  BY DEF Covered
<1>10. L \in [Int -> SUBSET Envs]
  BY WaitsType
<1> HIDE DEF T, L
<1>11. Grows(Labels(lookups), L, L)
  BY <1>10 DEF Grows
<1>12. Entered(lookups) \subseteq Backs(lookups)
  BY <1>1, BacksPlaced
<1>13. \E A2 : Annotates(A2, Extended(<<i>>), T, L, Entered(lookups)) /\ A[pc] \subseteq A2[pc]
  BY ONLY Struct, pc = Tip \/ pc < 0, <1>4, <1>6, <1>7, <1>8, <1>9, <1>11, <1>12, ExtendedFits
<1> QED  BY <1>2, <1>4, <1>5, <1>13 DEF T, L

LEMMA ElseCover ==
  ASSUME Allowed \subseteq {"range"}, Struct, Cover, Else \/ ElseIf_Pre
  PROVE  Cover'
<1> DEFINE from == Last(lookups)
<1>1. /\ pc = Tip \/ pc < 0
      /\ lookups # <<>> /\ from.back = 0 /\ from.next # from.block /\ ~Pending
      /\ LookupsType(lookups) /\ Tip \in Nat /\ UNCHANGED <<states, live>> /\ live = {}
      /\ \A x \in Locals \cap from.corruptions : states[x] = Obscurity
  BY TipNat, NoHabit DEF Else, ElseIf_Pre, Branched, Ready, Struct, Disciplined
<1>2. /\ from.next \in Int /\ from.next < 0 /\ from.block \in Labels(lookups)
      /\ from.block \in Int /\ from.block < 0
      /\ Len(lookups) \in Nat \ {0} /\ from = lookups[Len(lookups)] /\ from \in Lookups
  BY <1>1, NextLabels
<1>3. PICK next \in {from.next, from.block}, pending \in BOOLEAN :
        Place({from.next}, Extended(<<Jump(from.block)>>),
              [lookups EXCEPT ![Len(lookups)] =
                 [from EXCEPT !.next = next, !.corruptions = {}, !.pending = pending]])
  <2>1. CASE Else
    <3>1. [from EXCEPT !.next = from.block, !.corruptions = {}]
            = [from EXCEPT !.next = from.block, !.corruptions = {}, !.pending = from.pending]
      BY <1>2 DEF Lookups
    <3> QED  BY <1>2, <2>1, <3>1 DEF Else, Lookups
  <2>2. CASE ElseIf_Pre
    <3>1. [from EXCEPT !.corruptions = {}, !.pending = TRUE]
            = [from EXCEPT !.next = from.next, !.corruptions = {}, !.pending = TRUE]
      BY <1>2 DEF Lookups
    <3> QED  BY <2>2, <3>1 DEF ElseIf_Pre
  <2> QED  BY <2>1, <2>2
<1> DEFINE new == [from EXCEPT !.next = next, !.corruptions = {}, !.pending = pending]
           open == [lookups EXCEPT ![Len(lookups)] = new]
<1>4. /\ new \in Lookups /\ new.next = next /\ new.block = from.block /\ new.back = 0
  BY <1>1, <1>2 DEF Lookups
<1>5. {new.next, new.block} \subseteq {NextLabel(Len(lookups)), BlockLabel(Len(lookups))}
  BY <1>1, <1>2, <1>4 DEF LookupsType
<1> HIDE DEF new
<1>6. /\ LookupsType(open) /\ Len(open) = Len(lookups) /\ open # <<>> /\ Last(open) = new
      /\ \A k \in 1 .. Len(lookups) : open[k] = IF k = Len(lookups) THEN new ELSE lookups[k]
  <2>1. Replaceable(lookups, new)
    BY <1>1, <1>4, <1>5 DEF Replaceable
  <2>2. Replaced(lookups, new, open)
    BY <2>1, TopReplaced
  <2> HIDE DEF open
  <2> QED  BY <2>2 DEF Replaced
<1>7. Place({from.next}, Extended(<<Jump(from.block)>>), open)
  BY <1>3 DEF new
<1> HIDE DEF open
<1>8. DOMAIN lookups = 1 .. Len(lookups) /\ DOMAIN open = 1 .. Len(lookups)
  BY <1>1, <1>6, LookupsElements
<1>9. Labels(lookups) \ {from.next} \subseteq Labels(open)
  <2>1. ASSUME NEW k \in 1 .. Len(lookups), NEW p \in {lookups[k].next, lookups[k].block}, p # from.next
        PROVE  p \in {open[k].next, open[k].block}
    <3>1. CASE k = Len(lookups)
      BY <1>2, <1>4, <1>6, <2>1, <3>1
    <3>2. CASE k # Len(lookups)
      BY <1>6, <2>1, <3>2
    <3> QED  BY <3>1, <3>2
  <2> QED  BY <1>8, <2>1 DEF Labels
<1>10. Behind(open, Tip)
  BY <1>1, <1>4, <1>6 DEF Behind, Struct, PlaceOK, Tip
<1>11. Trimmed(open)
  <2>1. \A k \in 1 .. Len(lookups) - 1 : k \in 1 .. Len(lookups) /\ k # Len(lookups)
    BY <1>2
  <2>2. \A k \in 1 .. Len(lookups) : k \in 1 .. Len(lookups) - 1 \/ k = Len(lookups)
    BY <1>2
  <2> QED  BY <1>4, <1>6, <2>1, <2>2 DEF Trimmed
<1>12. Obscures(states')
  BY <1>1, AdmIs DEF Obscures
<1>13. Basic' /\ ~PendingLoop'
  <2>1. lookups' = open
    BY <1>7 DEF Place
  <2> QED  BY <1>1, <1>4, <1>6, <2>1 DEF Cover, Basic, PendingLoop
<1> DEFINE c == Extended(<<Jump(from.block)>>)
<1>14. from.block <= Tip
  BY <1>1, <1>2
<1>15. /\ CodeType(c, lookups) /\ Len(code) <= Len(c)
       /\ \E A : /\ Annotates(A, c, Covered(states, Locals), Waits(states, lookups), Entered(lookups))
                 /\ env \in A[pc]
  BY <1>1, <1>2, <1>14, JumpCover
<1>16. live' = {} /\ {from.next} \subseteq {from.next, from.block}
  BY <1>1
<1> HIDE DEF c
<1>17. Place({from.next}, c, open)
  BY <1>7 DEF c
<1> QED  BY <1>1, <1>9, <1>10, <1>11, <1>12, <1>13, <1>15, <1>16, <1>17, PlaceCover

LEMMA EndCover ==
  ASSUME Struct, Cover, End
  PROVE  Cover'
<1> DEFINE top == Last(lookups)
           open == SubSeq(lookups, 1, Len(lookups) - 1)
           is == IF top.back # 0 THEN <<Jump(top.back)>> ELSE <<>>
           c == Extended(is)
<1>1. /\ pc = Tip \/ pc < 0
      /\ lookups # <<>> /\ LookupsType(lookups) /\ Tip \in Nat /\ UNCHANGED live /\ live = {} /\ ~top.pending
      /\ Place({top.next, top.block}, c, open)
      /\ states' = [x \in Symbols |-> IF x \in top.corruptions THEN Obscurity ELSE states[x]]
  BY TipNat DEF End, Struct, Pending
<1>2. /\ Len(lookups) \in Nat \ {0} /\ top = lookups[Len(lookups)] /\ top \in Lookups
      /\ LookupsType(open) /\ Len(open) = Len(lookups) - 1
      /\ \A k \in 1 .. Len(lookups) - 1 : open[k] = lookups[k]
      /\ open # <<>> => ~Last(open).pending
  BY <1>1, Popped
<1> HIDE DEF open
<1>3. DOMAIN lookups = 1 .. Len(lookups) /\ DOMAIN open = 1 .. Len(lookups) - 1
  BY <1>1, <1>2, LookupsElements
<1>4. \A k \in 1 .. Len(lookups) - 1 : k \in 1 .. Len(lookups)
  BY <1>2
<1>5. \A k \in 1 .. Len(lookups) : k \in 1 .. Len(lookups) - 1 \/ k = Len(lookups)
  BY <1>2
<1>6. Labels(lookups) \ {top.next, top.block} \subseteq Labels(open)
  BY <1>2, <1>3, <1>5 DEF Labels
<1>7. Behind(open, Tip)
  BY <1>1, <1>2, <1>4 DEF Behind, Struct, PlaceOK, Tip
<1>8. Trimmed(open)
  BY <1>2 DEF Trimmed
<1>9. \A x \in Symbols : states'[x] = IF x \in top.corruptions THEN Obscurity ELSE states[x]
  BY <1>1
<1>10. Basic' /\ Obscures(states')
  BY <1>9, AdmIs, LocalsOrRegisters DEF Cover, Basic, Obscures
<1>11. lookups' = open
  BY <1>1 DEF Place
<1>12. ~PendingLoop'
  BY <1>2, <1>11 DEF PendingLoop, Pending
<1> HIDE DEF c, is
<1>13. /\ CodeType(c, lookups) /\ Len(code) <= Len(c)
       /\ \E A : /\ Annotates(A, c, Covered(states, Locals), Waits(states, lookups), Entered(lookups))
                 /\ env \in A[pc]
  <2>1. CASE top.back # 0
    <3>1. top.back \in Nat /\ Len(lookups) \in 1 .. Len(lookups)
      BY <1>2 DEF Lookups
    <3>2. top.back <= Tip
      BY <1>1, <1>2, <3>1 DEF Behind, Struct, PlaceOK, Tip
    <3>3. top.back \in Entered(lookups)
      BY <1>1, <1>2, <2>1, <3>1 DEF Entered
    <3>4. PICK to \in Int : to = top.back /\ ~(to < 0)
      BY <3>1
    <3>5. c = Extended(<<Jump(to)>>)
      BY <2>1, <3>4 DEF c, is
    <3> HIDE DEF top
    <3>6. to <= Tip /\ to \in Entered(lookups)
      BY <3>2, <3>3, <3>4
    <3> QED  BY <1>1, <3>4, <3>5, <3>6, JumpCover
  <2>2. CASE top.back = 0
    <3>1. CodeType(code, lookups) /\ code \in Seq(Instructions) /\ pc # 0 /\ Len(code) \in Nat
      BY <1>1 DEF Struct, PlaceOK, CodeType, Tip
    <3>2. c = code
      BY <2>2, <3>1 DEF c, is, Extended
    <3>3. Here(Locals) = Covered(states, Locals)
      BY <1>1 DEF Here
    <3> QED  BY <3>1, <3>2, <3>3 DEF Cover
  <2> QED  BY <2>1, <2>2
<1>14. live' = {} /\ {top.next, top.block} \subseteq {top.next, top.block}
  BY <1>1
<1>15. /\ lookups # <<>> /\ (pc = Tip \/ pc < 0)
       /\ Place({top.next, top.block}, c, open)
  BY <1>1
<1> HIDE DEF top
<1> QED  BY <1>6, <1>7, <1>8, <1>10, <1>12, <1>13, <1>14, <1>15, PlaceCover DEF top

LEMMA LoopCover ==
  ASSUME Struct, Cover, Loop
  PROVE  Cover'
<1> DEFINE to == NextLabel(Len(lookups) + 1)
           new == [back |-> Tip, next |-> to, block |-> to, corruptions |-> Symbols, pending |-> TRUE]
           L == Waits(states, lookups)
           L2 == Waits(states', lookups')
<1>1. /\ lookups' = Append(lookups, new) /\ ~Pending /\ Len(lookups) < MaxNesting
      /\ pc = Tip \/ pc < 0
      /\ UNCHANGED <<states, live, code, pc, env>>
      /\ live = {}
  BY DEF Loop, Nested, Ready
<1>2. /\ LookupsType(lookups) /\ Len(lookups) \in Nat /\ Tip \in Nat \ {0} /\ pc # 0
      /\ CodeType(code, lookups) /\ Len(code) \in Nat /\ Tip = Len(code) + 1
      /\ pc \in Int /\ (pc < 0 => pc \in Labels(lookups))
  BY <1>1, TipNat, LookupsElements DEF Struct, PlaceOK, CodeType, Tip
<1>3. /\ new \in Lookups /\ new.back = Tip /\ new.pending /\ new.corruptions = Symbols
      /\ {new.next, new.block} \subseteq {NextLabel(Len(lookups) + 1), BlockLabel(Len(lookups) + 1)}
  BY <1>2, PushLabel DEF Lookups
<1> HIDE DEF new
<1>4. /\ Backs(lookups)' = Backs(lookups) \cup {b \in {new.back} : b # 0}
      /\ Entered(lookups)' = Entered(lookups) \cup {b \in {new.back} : b # 0 /\ ~new.pending}
      /\ \A p : Corrupted(lookups, p) \subseteq Corrupted(lookups', p)
  BY <1>1, <1>3, PushedSame
<1>5. Backs(lookups)' = Backs(lookups) \cup {Tip} /\ Entered(lookups)' = Entered(lookups)
  BY <1>2, <1>3, <1>4
<1>6. Here(Locals) = Covered(states, Locals) /\ Here(Locals)' = Covered(states, Locals) /\ Here({})' = Envs
  BY <1>1 DEF Here, Covered
<1>7. Grows(Labels(lookups), L, L2)
  <2>1. \A x \in Locals : Kept(x, states, lookups, states', lookups', Labels(lookups))
    BY <1>1, <1>4 DEF Kept
  <2>2. Labels(lookups) \subseteq Int
    BY <1>2, LabelsAre
  <2> QED  BY <2>1, <2>2, WaitsGrow
<1> HIDE DEF L, L2
<1>8. PICK A : Annotates(A, code, Covered(states, Locals), L, Entered(lookups)) /\ env \in A[pc]
  BY <1>2, <1>6 DEF Cover, L
<1>9. Backs(lookups) \subseteq 1 .. Len(code) + 1 /\ Entered(lookups) \subseteq Backs(lookups)
  BY <1>2, BacksPlaced
<1>10. Covered(states, Locals) \in SUBSET Envs /\ Envs \in SUBSET Envs
  BY DEF Covered
<1>11. PICK T : T = Covered(states, Locals)
  OBVIOUS
<1>12. PICK A2 : Annotates(A2, code, T, L2, Entered(lookups)) /\ Widens(code, A, A2)
  <2>1. BacksKept(code, T, Entered(lookups), Entered(lookups))
    BY <1>9 DEF BacksKept
  <2>2. Annotates(A, code, T, L, Entered(lookups))
    BY <1>8, <1>11
  <2>3. PICK T2 \in SUBSET Envs : T2 = T /\ T \subseteq T2
    BY <1>10, <1>11
  <2>4. CodeType(code, lookups) /\ BacksKept(code, T2, Entered(lookups), Entered(lookups))
    BY <1>2, <2>1, <2>3
  <2>5. \E A2 : Annotates(A2, code, T2, L2, Entered(lookups)) /\ Widens(code, A, A2)
    BY ONLY <1>7, <2>2, <2>3, <2>4, Relaxed
  <2> QED  BY <2>3, <2>5
<1>13. env \in A2[pc]
  <2>1. CASE pc = Tip
    <3>1. pc \in 1 .. Len(code) + 1
      BY <1>2, <2>1
    <3> QED  BY <1>8, <1>12, <3>1 DEF Widens
  <2>2. CASE pc < 0
    <3>1. A2[pc] = L2[pc] /\ A[pc] = L[pc]
      BY <1>2, <1>8, <1>12, <2>2 DEF Annotates
    <3> QED  BY <1>2, <1>7, <1>8, <2>2, <3>1 DEF Grows
  <2> QED  BY <1>1, <2>1, <2>2
<1>14. \E A3 : Annotates(A3, code, Envs, L2, Backs(lookups) \cup {Tip})
  <2>1. PICK B2 : B2 = Entered(lookups) \cup {Tip}
    OBVIOUS
  <2>2. Backs(lookups) = Entered(lookups)
    <3>1. \A k \in 1 .. Len(lookups) : ~lookups[k].pending
      <4>1. \A k \in 1 .. Len(lookups) : k \in 1 .. Len(lookups) - 1 \/ k = Len(lookups)
        BY <1>2
      <4>2. lookups # <<>> => Last(lookups) = lookups[Len(lookups)]
        BY DEF Last
      <4>3. lookups = <<>> => 1 .. Len(lookups) = {}
        BY EmptySeq
      <4> QED  BY <1>1, <1>2, <4>1, <4>2, <4>3 DEF LookupsType, Pending
    <3> QED  BY <3>1 DEF Backs, Entered
  <2>3. BacksKept(code, Envs, Entered(lookups), B2)
    BY <1>2, <1>9, <2>1 DEF BacksKept
  <2>4. Annotates(A, code, T, L, Entered(lookups))
    BY <1>8, <1>11
  <2>5. PICK T2 \in SUBSET Envs : T2 = Envs /\ T \subseteq T2
    BY <1>10, <1>11
  <2>6. CodeType(code, lookups) /\ BacksKept(code, T2, Entered(lookups), B2)
    BY <1>2, <2>3, <2>5
  <2>7. \E A3 : Annotates(A3, code, T2, L2, B2) /\ Widens(code, A, A3)
    BY ONLY <1>7, <2>4, <2>5, <2>6, Relaxed
  <2> QED  BY <2>1, <2>2, <2>5, <2>7
<1>15. Basic' /\ L2 = Waits(states', lookups')
  BY <1>1 DEF Cover, Basic, L2
<1> QED  BY <1>1, <1>5, <1>6, <1>11, <1>12, <1>13, <1>14, <1>15 DEF Cover

LEMMA StatementCover ==
  ASSUME Struct, Cover, End_Statement
  PROVE  Cover'
<1> DEFINE L == Waits(states, lookups)
<1>1. (pc = Tip \/ pc < 0) /\ ~Pending /\ live' = {} /\ UNCHANGED <<states, lookups, code, pc, env>>
  BY DEF End_Statement, Ready
<1>2. /\ LookupsType(lookups) /\ pc # 0 /\ CodeType(code, lookups) /\ Len(code) \in Nat
      /\ Tip = Len(code) + 1 /\ pc \in Int
  BY <1>1, TipNat DEF Struct, PlaceOK, CodeType, Tip
<1>3. PICK A : Annotates(A, code, Here(Locals), L, Entered(lookups)) /\ env \in A[pc]
  BY <1>2 DEF Cover
<1>4. Grows(Labels(lookups), L, L)
  BY WaitsType DEF Grows
<1>5. PICK T2 \in SUBSET Envs : T2 = Here(Locals)' /\ Here(Locals) \subseteq T2
  <2>1. Here(Locals)' = Covered(states, Locals)
    BY <1>1 DEF Here
  <2>2. Here(Locals) \subseteq Covered(states, Locals)
    BY LessCovered DEF Here
  <2>3. Covered(states, Locals) \in SUBSET Envs
    BY DEF Covered
  <2> QED  BY <2>1, <2>2, <2>3
<1> HIDE DEF L
<1>6. BacksKept(code, T2, Entered(lookups), Entered(lookups))
  BY <1>2, BacksPlaced DEF BacksKept
<1>7. PICK A2 : Annotates(A2, code, T2, L, Entered(lookups)) /\ Widens(code, A, A2)
  <2>1. CodeType(code, lookups)
    BY <1>2
  <2> QED  BY ONLY <1>3, <1>4, <1>5, <1>6, <2>1, Relaxed
<1>8. env \in A2[pc]
  <2>1. CASE pc = Tip
    <3>1. pc \in 1 .. Len(code) + 1
      BY <1>2, <2>1
    <3> QED  BY <1>3, <1>7, <3>1 DEF Widens
  <2>2. CASE pc < 0
    BY <1>2, <1>3, <1>7, <2>2 DEF Annotates
  <2> QED  BY <1>1, <2>1, <2>2
<1>9. Basic' /\ ~PendingLoop' /\ L = Waits(states', lookups')
  BY <1>1 DEF Cover, Basic, PendingLoop, Pending, L
<1>10. Entered(lookups)' = Entered(lookups)
  BY <1>1
<1> QED  BY <1>1, <1>5, <1>7, <1>8, <1>9, <1>10 DEF Cover

LEMMA EncodeCover ==
  ASSUME Allowed \subseteq {"range"}, Struct, Cover, End_Encode
  PROVE  Cover'
<1> DEFINE r == FirstRegister
           L == Waits(states', lookups')
<1>1. /\ lookups = <<>> /\ live = {} /\ pc = Tip /\ UNCHANGED <<lookups, live, pc, env>>
      /\ ~Only(states[r], CRY_REFERENCE)
      /\ states' = [states EXCEPT ![r] = Set(CRY_NIL)]
  BY NoHabit DEF End_Encode, Disciplined
<1>2. code = <<>> /\ pc = 1
  <2>1. ~Looping(lookups)
    BY <1>1, EmptySeq DEF Looping
  <2>2. code = <<>>
    BY <1>1, <2>1, TipNat DEF Struct, Idle, Tip
  <2> QED  BY <1>1, <2>2, EmptySeq DEF Tip
<1>3. r \in Symbols /\ CRY_NIL \in RT /\ {CRY_NIL} \in SUBSET RT /\ {CRY_NIL} \in SUBSET Types
  BY ConstantsAssumption, ConstantTypes DEF Symbols
<1>4. PICK i1 : i1 = Write(r, {CRY_NIL})
  OBVIOUS
<1>5. /\ i1 \in Instructions /\ i1.do = "write" /\ i1.dest = r /\ i1.src = r /\ i1.gives = {CRY_NIL}
      /\ i1.dneeds = Types /\ i1.sneeds = Types
  BY <1>3, <1>4, WriteIs
<1>6. PICK j : j = Instruction("return", r, r)
  OBVIOUS
<1>7. /\ j \in Instructions /\ j.do = "return" /\ j.dest = r /\ j.src = r /\ j.dneeds = Types
  BY <1>3, <1>6, InstructionFields DEF Kinds
<1>8. PICK i2 : i2 = [j EXCEPT !.sneeds = {CRY_NIL}]
  OBVIOUS
<1>9. /\ i2 \in Instructions /\ i2.do = "return" /\ i2.dest = r /\ i2.src = r
      /\ i2.dneeds = Types /\ i2.sneeds = {CRY_NIL}
  BY <1>3, <1>7, <1>8 DEF Instructions
<1>10. code' = <<i1, i2>>
  BY <1>1, <1>4, <1>6, <1>8 DEF End_Encode
<1>11. Len(code') = 2 /\ code'[1] = i1 /\ code'[2] = i2
  BY <1>10
<1>12. PICK T1 \in SUBSET Envs : T1 = Here(Locals) /\ env \in T1
  <2>1. PICK A0 : Annotates(A0, code, Here(Locals), Waits(states, lookups), Entered(lookups)) /\ env \in A0[pc]
    BY <1>2 DEF Cover
  <2>2. A0[pc] = Here(Locals)
    BY <1>2, <2>1, EmptySeq DEF Annotates
  <2> QED  BY <2>1, <2>2, HereType
<1>13. PICK T3 \in SUBSET Envs : T3 = Here(Locals)'
  BY DEF Here, Covered
<1> DEFINE T2 == {e \in Envs : e[r] = CRY_NIL}
<1>14. Fits(i1, T1, T2)
  <2>1. \A e \in Envs : e[r] \in Types
    BY <1>3, ConstantTypes DEF Envs
  <2>2. \A e \in Envs : Sound(i1, e)
    BY <1>3, <1>5, <2>1 DEF Sound
  <2>3. \A e, e2 : Leads(i1, e, e2) => e2 = [e EXCEPT ![r] = CRY_NIL]
    BY <1>5 DEF Leads
  <2>4. \A e \in Envs : [e EXCEPT ![r] = CRY_NIL] \in T2
    BY <1>3 DEF Envs
  <2> HIDE DEF T2
  <2> QED  BY <2>2, <2>3, <2>4 DEF Fits
<1>15. Fits(i2, T2, T3)
  <2>1. \A e \in T2 : Sound(i2, e)
    BY <1>3, <1>9, ConstantTypes DEF Sound
  <2>2. \A e, e2 : ~Leads(i2, e, e2)
    BY <1>9 DEF Leads
  <2> QED  BY <2>1, <2>2 DEF Fits
<1>16. L \in [Int -> SUBSET Envs] /\ T2 \in SUBSET Envs
  BY WaitsType
<1>17. Entered(lookups)' = {} /\ ~PendingLoop'
  BY <1>1, EmptySeq DEF Entered, PendingLoop, Pending
<1>18. Basic'
  BY <1>1, <1>3, OneChanged
<1> HIDE DEF L, T2
<1> DEFINE A == [p \in Int |-> IF p < 0 THEN L[p] ELSE IF p = 1 THEN T1 ELSE IF p = 2 THEN T2 ELSE T3]
<1>19. A \in [Int -> SUBSET Envs] /\ A[1] = T1 /\ A[2] = T2 /\ A[3] = T3 /\ \A p \in Int : p < 0 => A[p] = L[p]
  BY <1>16
<1> HIDE DEF A
<1>20. Annotates(A, code', T3, L, {})
  <2>1. \A k \in 1 .. 2 : k = 1 \/ k = 2
    OBVIOUS
  <2>2. PICK c2 : c2 = code'
    OBVIOUS
  <2>3. ASSUME NEW k \in 1 .. 2
        PROVE  Fits(c2[k], A[k], A[k + 1]) /\ c2[k].do \notin {"jump", "branch"}
    BY <1>5, <1>9, <1>11, <1>14, <1>15, <1>19, <2>1, <2>2
  <2>4. Len(c2) + 1 = 3 /\ Len(c2) = 2
    BY <1>11, <2>2
  <2> QED  BY <1>19, <2>2, <2>3, <2>4 DEF Annotates
<1>21. env' \in A[pc'] /\ L = Waits(states', lookups')
  BY <1>1, <1>2, <1>12, <1>19 DEF L
<1> QED  BY <1>13, <1>17, <1>18, <1>20, <1>21 DEF Cover
---------------------------------------------------------------------------
(* The invariant. *)

LEMMA InitCover == ASSUME Init PROVE Cover
<1> DEFINE T == Covered(states, Locals)
           L == Waits(states, lookups)
<1>1. \A x \in Symbols : states[x] = Obscurity
  BY DEF Init
<1>2. lookups = <<>> /\ live = {} /\ code = <<>> /\ pc = 1
  BY DEF Init
<1>3. env \in Envs
  BY ConstantTypes DEF Init, Envs
<1>4. env \in T
  BY <1>1, <1>3, AdmIs, LocalsOrRegisters DEF Covered, Envs
<1>5. T \in SUBSET Envs /\ L \in [Int -> SUBSET Envs] /\ Here(Locals) = T
  BY <1>2, WaitsType DEF Covered, Here
<1>6. Entered(lookups) = {} /\ ~PendingLoop
  BY <1>2, EmptySeq DEF Entered, PendingLoop, Pending
<1> HIDE DEF T, L
<1>7. PICK A : Annotates(A, <<>>, T, L, {}) /\ A[1] = T
  BY <1>5, Empty
<1>8. L = Waits(states, lookups)
  BY DEF L
<1>9. Annotates(A, code, Here(Locals), Waits(states, lookups), Entered(lookups)) /\ env \in A[pc]
  BY <1>2, <1>4, <1>5, <1>6, <1>7, <1>8
<1> QED  BY <1>1, <1>6, <1>9 DEF Cover, Basic

LEMMA NextCover ==
  ASSUME Allowed \subseteq {"range"}, Struct, Cover, [Next]_vars
  PROVE  Cover'
<1>1. CASE UNCHANGED vars
  <2>1. UNCHANGED <<states, lookups, live, code, pc, env>>
    BY <1>1 DEF vars
  <2>2. Here(Locals)' = Here(Locals) /\ Here({})' = Here({}) /\ PendingLoop' = PendingLoop /\ Basic'
    BY <2>1 DEF Here, PendingLoop, Pending, Cover, Basic
  <2>3. Waits(states, lookups)' = Waits(states, lookups) /\ Entered(lookups)' = Entered(lookups)
        /\ Backs(lookups)' = Backs(lookups)
    BY <2>1
  <2> HIDE DEF Entered, Backs
  <2> QED  BY <2>1, <2>2, <2>3 DEF Cover
<1>2. CASE Compile
  <2>1. CASE \E x \in Symbols, t \in Literals : Load(x, t)
    BY <2>1, LoadCover
  <2>2. CASE \E x, y \in Symbols : Copy(x, y) \/ Swap(x, y)
    BY <2>2, CopyCover, SwapCover
  <2>3. CASE \E op \in Operators, x \in Symbols, y \in Readable \cup Literals : Operator(op, x, y)
    BY <2>3, OperatorCover
  <2>4. CASE \E r \in Registers : Not(r) \/ Call(r) \/ Make_Array(r) \/ Array_Index(r) \/ Get(r)
    BY <2>4, NotCover, ResultCover
  <2>5. CASE \E v \in Symbols : If(v) \/ ElseIf(v) \/ While(v) \/ Return(v)
    BY <2>5, IfCover, ElseIfCover, WhileCover, ReturnCover
  <2>6. CASE \E x \in Locals : In(x)
    BY <2>6, InCover
  <2>7. CASE Else \/ ElseIf_Pre
    BY <2>7, ElseCover
  <2>8. CASE Loop \/ End \/ End_Statement \/ End_Encode
    BY <2>8, LoopCover, EndCover, StatementCover, EncodeCover
  <2> QED  BY <1>2, <2>1, <2>2, <2>3, <2>4, <2>5, <2>6, <2>7, <2>8 DEF Compile
<1>3. CASE Run
  BY <1>3, RunCover
<1> QED  BY <1>1, <1>2, <1>3 DEF Next

LEMMA CoverImplies ==
  ASSUME Struct, Cover
  PROVE  FiltersCover /\ (Strict => CodeSound)
<1>1. Tip = Len(code) + 1 /\ Len(code) \in Nat /\ DOMAIN code = 1 .. Len(code)
  BY CodeElements DEF Struct, PlaceOK, Tip
<1>2. FiltersCover
  <2> SUFFICES ASSUME pc = Tip, NEW s \in Readable
               PROVE  env[s] \in Admits(states[s])
    BY DEF FiltersCover
  <2>1. PICK A : /\ Annotates(A, code, Here(Locals), Waits(states, lookups), Entered(lookups))
                 /\ env \in A[pc]
    BY <1>1 DEF Cover
  <2>2. env \in Here(Locals)
    BY <1>1, <2>1 DEF Annotates
  <2>3. env[s] \in Adm(states[s])
    BY <2>2 DEF Here, Covered, Readable
  <2> QED  BY <2>3, AdmIs
<1>3. ASSUME Strict, Running
      PROVE  Sound(This, env)
  <2>1. pc \in 1 .. Len(code)
    BY <1>1, <1>3 DEF Running
  <2>2. PICK A : /\ Annotates(A, code, Here(Locals), Waits(states, lookups), Entered(lookups))
                 /\ env \in A[pc]
    BY <1>1, <2>1 DEF Cover
  <2> QED  BY <1>3, <2>1, <2>2 DEF Annotates, Fits, This
<1> QED  BY <1>2, <1>3 DEF CodeSound, Sound, TypeOf

LEMMA Covering == ASSUME Allowed \subseteq {"range"} PROVE Spec => [](Struct /\ Cover)
<1>1. Init => Struct /\ Cover
  BY InitStruct, InitCover
<1>2. Struct /\ Cover /\ [Next]_vars => (Struct /\ Cover)'
  BY NextStruct, NextCover
<1> QED  BY <1>1, <1>2, PTL DEF Spec

(* Safety: whenever execution reaches the point where the compiler is, the *)
(* type of every local, and of every result in use, is in its clarity      *)
(* filter - across branches, loops and jumps back -, for every program     *)
(* without the Habits; indices may be out of range (states, Symbol.cpp,    *)
(* Obscure_Registers and the corruptions of lookups in Compiler.cpp).      *)
THEOREM FiltersAlwaysCover ==
  ASSUME Allowed \subseteq {"range"}
  PROVE  Spec => []FiltersCover
<1>1. Struct /\ Cover => FiltersCover
  BY CoverImplies
<1> QED  BY <1>1, Covering, PTL

(* Safety: no instruction runs on a symbol whose type it was not selected  *)
(* for, in programs without the Habits.  Where an index may be out of      *)
(* range nothing may be assigned from a constant: Ref_Load would store     *)
(* through the nil that Val_Binding left (Load and Copy in Compiler.cpp).  *)
THEOREM CodeAlwaysSound ==
  ASSUME Allowed \subseteq {"range"}, "range" \in Allowed => Literals = {}
  PROVE  Spec => []CodeSound
<1>1. Struct /\ Cover => CodeSound
  BY CoverImplies DEF Strict
<1> QED  BY <1>1, Covering, PTL
=============================================================================
