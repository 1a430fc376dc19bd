----------------------------- MODULE CompilerProofs -----------------------------
(***************************************************************************)
(* Theorems about Compiler, for every set of symbols, types and operators, *)
(* every nesting, every length of code and every program: type             *)
(* correctness, and jumps land.  FilterProofs has those about filters.     *)
(***************************************************************************)
EXTENDS Compiler, SequenceTheorems, TLAPS

(* The types a symbol can have at run time. *)
RT == Types \ {CRY_POINTER, CRY_CLASS_OBJ}

LEMMA TypesAre == Types = 0 .. 10
BY DEF Types, CRY_NIL, CRY_SYMS

LEMMA ConstantTypes ==
  /\ {CRY_NIL, CRY_BOOL, CRY_INT, CRY_DOUBLE, CRY_TEXT, CRY_STRING, CRY_ARRAY, CRY_REFERENCE}
       \subseteq RT
  /\ RT \subseteq Types /\ Values \subseteq RT \ {CRY_REFERENCE} /\ Literals \subseteq RT
BY TypesAre, ConstantsAssumption
   DEF RT, CRY_NIL, CRY_BOOL, CRY_INT, CRY_INT64, CRY_DOUBLE, CRY_TEXT, CRY_REFERENCE,
       CRY_POINTER, CRY_STRING, CRY_ARRAY, CRY_CLASS_OBJ

LEMMA ResolveType == ASSUME NEW op, NEW t PROVE Resolve(op, t) \in RT
<1>1. op \in Arithmetic => Supported(op) \subseteq RT
  BY ConstantTypes DEF Arithmetic, Supported
<1>2. t \in Supported(op) /\ op \in Arithmetic => t \in RT
  BY <1>1
<1> HIDE DEF Arithmetic, Supported
<1> QED  BY <1>2, ConstantTypes DEF Resolve

LEMMA DynamicType == ASSUME NEW op, NEW d \in RT, NEW s PROVE Dynamic(op, d, s) \subseteq RT
<1>1. \A x, y, nil : Combined(op, x, y, nil) \in RT
  BY ResolveType, ConstantTypes DEF Combined, Ordered
<1> QED  BY <1>1 DEF Dynamic

LEMMA DerefType == \A t \in RT : Deref(t) \subseteq RT
BY ConstantTypes DEF Deref

(* The filters' operators give filters, and what instructions need are     *)
(* sets of types.                                                          *)
LEMMA FilterTypes ==
  /\ \A t \in Types : Set(t) \in Filter
  /\ Obscurity \in Filter
  /\ \A l, r \in Filter : /\ Combind(l, r) \in Filter
                          /\ Single(l) \subseteq Types /\ Swapped(l, r) \subseteq Types
                          /\ Carried(l) \subseteq Types /\ Tested(l) \subseteq Types
                          /\ Returned(l) \subseteq Types
                          /\ \A t \in Types : /\ Resolved(l, t) \in Filter
                                              /\ ResolveNeeds(l, t) \subseteq Types
<1> USE TypesAre
<1>1. /\ \A t \in Types : Set(t) \in Filter
      /\ Obscurity \in Filter
  BY DEF Set, Obscurity, Filter
<1>2. \A l, r \in Filter : Combind(l, r) \in Filter
  BY DEF Combind, Filter
<1>3. \A l, r \in Filter : Single(l) \subseteq Types /\ Swapped(l, r) \subseteq Types
                           /\ Carried(l) \subseteq Types
  BY DEF Single, Swapped, Carried, Filter, CRY_NIL, CRY_BOOL, CRY_INT, CRY_INT64, CRY_DOUBLE,
         CRY_TEXT, CRY_REFERENCE, CRY_POINTER, CRY_CLASS_OBJ
<1>4. \A l \in Filter : Tested(l) \subseteq Types /\ Returned(l) \subseteq Types
  BY DEF Tested, Returned, CRY_NIL, CRY_REFERENCE
<1>5. \A l \in Filter, t \in Types : Resolved(l, t) \in Filter /\ ResolveNeeds(l, t) \subseteq Types
  BY <1>1 DEF Resolved, ResolveNeeds
<1> QED  BY <1>1, <1>2, <1>3, <1>4, <1>5
---------------------------------------------------------------------------
(* The structure of the code and of the open blocks, for every program.    *)

Labels(lk) == UNION {{lk[k].next, lk[k].block} : k \in DOMAIN lk}

(* An instruction among n - 1 others while the blocks lk are open.         *)
Placed(i, lk, n) ==
  /\ i \in Instructions
  /\ i.gives \subseteq RT
  /\ i.to <= n /\ (i.to < 0 => i.to \in Labels(lk))
  /\ i.do \in {"copy", "copy_ref", "swap"} => i.src \in Symbols

CodeType(c, lk) == c \in Seq(Instructions) /\ \A j \in 1 .. Len(c) : Placed(c[j], lk, Len(c) + 1)

LookupsType(lk) ==
  /\ lk \in Seq(Lookups) /\ Len(lk) <= MaxNesting
  /\ \A k \in 1 .. Len(lk) - 1 : ~lk[k].pending
  /\ \A k \in 1 .. Len(lk) : /\ {lk[k].next, lk[k].block} \subseteq {NextLabel(k), BlockLabel(k)}
                             /\ lk[k].back # 0 => lk[k].corruptions = Symbols

Looping(lk) == \E k \in 1 .. Len(lk) : lk[k].back # 0
Behind(lk, n) == \A k \in 1 .. Len(lk) : lk[k].back <= n

(* Code is kept for a loop only, or while it is executed.                  *)
PlaceOK(c, p, lk) ==
  /\ CodeType(c, lk)
  /\ p \in Int /\ p <= Len(c) + 1 /\ (p < 0 => p \in Labels(lk))
  /\ p # 0 => Behind(lk, Len(c) + 1)

Idle(c, p, lk) == (p = Len(c) + 1 \/ p < 0) /\ ~Looping(lk) => c = <<>>

Struct ==
  /\ states \in [Symbols -> Filter] /\ live \subseteq Registers /\ env \in [Symbols -> RT]
  /\ LookupsType(lookups) /\ PlaceOK(code, pc, lookups) /\ Idle(code, pc, lookups)

LEMMA StructImplies == Struct => TypeOK /\ JumpsLand
<1> SUFFICES ASSUME Struct
             PROVE  TypeOK /\ JumpsLand
  OBVIOUS
<1>1. TypeOK
  BY DEF Struct, TypeOK, LookupsType, PlaceOK, CodeType, RT, Tip
<1>2. Labels(lookups) = UNION {{l.next, l.block} : l \in Range(lookups)}
  BY DEF Labels, Range
<1>3. \A i \in Range(code) : i.to < 0 => i.to \in Labels(lookups)
  <2>1. DOMAIN code = 1 .. Len(code)
    BY DEF Struct, PlaceOK, CodeType
  <2> QED  BY <2>1 DEF Struct, PlaceOK, CodeType, Placed, Range
<1>4. JumpsLand
  BY <1>2, <1>3 DEF JumpsLand, Struct, PlaceOK
<1> QED  BY <1>1, <1>4

LEMMA LookupsElements ==
  ASSUME NEW lk, LookupsType(lk)
  PROVE  /\ Len(lk) \in Nat /\ DOMAIN lk = 1 .. Len(lk) /\ lk \in Seq(Lookups)
         /\ \A k \in 1 .. Len(lk) : /\ lk[k] \in Lookups /\ lk[k].back \in Nat
                                    /\ lk[k].corruptions \subseteq Symbols
                                    /\ lk[k].next \in Int /\ lk[k].block \in Int
                                    /\ lk[k].pending \in BOOLEAN
<1>1. Len(lk) \in Nat /\ DOMAIN lk = 1 .. Len(lk) /\ \A k \in 1 .. Len(lk) : lk[k] \in Lookups
  BY DEF LookupsType
<1> QED  BY <1>1 DEF Lookups, LookupsType

LEMMA LoopingIs == ASSUME LookupsType(lookups) PROVE Looping(lookups) <=> InLoop
<1>1. DOMAIN lookups = 1 .. Len(lookups)
  BY DEF LookupsType
<1> QED  BY <1>1 DEF Looping, InLoop, Range

(* The blocks lk2 are the blocks lk, with other corruptions perhaps, and   *)
(* perhaps one more.                                                       *)
Continues(lk, lk2) ==
  /\ Len(lk) <= Len(lk2)
  /\ \A k \in 1 .. Len(lk) : /\ lk2[k].next = lk[k].next /\ lk2[k].block = lk[k].block
                             /\ lk2[k].back = lk[k].back

LEMMA ContinuesLabels ==
  ASSUME NEW lk, NEW lk2, LookupsType(lk), LookupsType(lk2), Continues(lk, lk2)
  PROVE  Labels(lk) \subseteq Labels(lk2) /\ (Looping(lk) => Looping(lk2))
<1>1. DOMAIN lk = 1 .. Len(lk) /\ DOMAIN lk2 = 1 .. Len(lk2) /\ Len(lk) \in Nat /\ Len(lk2) \in Nat
  BY DEF LookupsType
<1> QED  BY <1>1 DEF Labels, Looping, Continues

LEMMA CodeAppended ==
  ASSUME NEW c, NEW lk, NEW lk2, CodeType(c, lk), Labels(lk) \subseteq Labels(lk2),
         NEW is \in Seq(Instructions), \A j \in 1 .. Len(is) : Placed(is[j], lk2, Len(c) + 1)
  PROVE  /\ CodeType(c \o is, lk2) /\ Len(c \o is) = Len(c) + Len(is)
         /\ \A j \in 1 .. Len(c) : (c \o is)[j] = c[j]
         /\ \A j \in 1 .. Len(is) : (c \o is)[Len(c) + j] = is[j]
<1>1. /\ c \in Seq(Instructions) /\ c \o is \in Seq(Instructions)
      /\ Len(c \o is) = Len(c) + Len(is) /\ Len(c) \in Nat /\ Len(is) \in Nat
      /\ \A j \in 1 .. Len(c) : (c \o is)[j] = c[j]
      /\ \A j \in 1 .. Len(is) : (c \o is)[Len(c) + j] = is[j]
  BY DEF CodeType
<1> DEFINE all == c \o is
<1>2. ASSUME NEW j \in 1 .. Len(c) + Len(is)
      PROVE  Placed(all[j], lk2, Len(c) + Len(is) + 1)
  <2>1. \A i \in Instructions : i.to \in Int
    BY DEF Instructions
  <2>2. CASE j \in 1 .. Len(c)
    <3>1. all[j] = c[j] /\ Placed(c[j], lk, Len(c) + 1)
      BY <1>1, <2>2 DEF CodeType
    <3> HIDE DEF all
    <3> QED  BY <1>1, <2>1, <3>1 DEF Placed
  <2>3. CASE j \notin 1 .. Len(c)
    <3>1. PICK m \in 1 .. Len(is) : j = Len(c) + m
      <4>1. j - Len(c) \in 1 .. Len(is) /\ j = Len(c) + (j - Len(c))
        BY <1>1, <2>3
      <4> QED  BY <4>1
    <3>2. all[j] = is[m] /\ Placed(is[m], lk2, Len(c) + 1)
      BY <1>1, <3>1
    <3> HIDE DEF all
    <3> QED  BY <1>1, <2>1, <3>2 DEF Placed
  <2> QED  BY <2>2, <2>3
<1> QED  BY <1>1, <1>2 DEF CodeType

(* A method that appends instructions.                                     *)
LEMMA EmitStruct ==
  ASSUME Struct, pc = Tip \/ pc < 0,
         NEW is \in Seq(Instructions), is # <<>>, \A j \in 1 .. Len(is) : Placed(is[j], lookups', Tip),
         Emit(is), LookupsType(lookups'), Continues(lookups, lookups'), Behind(lookups', Tip),
         states' \in [Symbols -> Filter], live' \subseteq Registers
  PROVE  Struct'
<1>1. /\ LookupsType(lookups) /\ CodeType(code, lookups) /\ Len(code) \in Nat /\ pc \in Int
      /\ Len(is) \in Nat \ {0}
  BY EmptySeq DEF Struct, PlaceOK, CodeType
<1>2. /\ Labels(lookups) \subseteq Labels(lookups')
      /\ Looping(lookups) => Looping(lookups')
  BY <1>1, ContinuesLabels
<1>3. pc' = pc /\ env' = env /\ code' = Extended(is)
  BY DEF Emit
<1>4. CASE pc > 0 \/ InLoop
  <2>1. code' = code \o is
    BY <1>3, <1>4 DEF Extended
  <2>2. CodeType(code', lookups') /\ Len(code') = Len(code) + Len(is)
    BY <1>1, <1>2, <2>1, CodeAppended DEF Tip
  <2>3. PlaceOK(code', pc', lookups')
    <3>1. \A k \in 1 .. Len(lookups') : lookups'[k].back \in Nat
      BY LookupsElements
    <3>2. PICK m \in Nat, n \in Nat \ {0} : m = Len(code) /\ n = Len(is)
      BY <1>1
    <3>3. Len(code') + 1 = m + n + 1 /\ Tip = m + 1
      BY <2>2, <3>2 DEF Tip
    <3>4. pc <= m + 1 /\ pc # 0
      <4>1. pc <= Len(code) + 1
        BY DEF Struct, PlaceOK
      <4>2. pc = m + 1 \/ pc < 0
        BY <3>3
      <4> QED  BY <1>1, <3>2, <4>1, <4>2
    <3>5. pc' <= Len(code') + 1
      BY <1>1, <1>3, <3>2, <3>3, <3>4
    <3>6. \A k \in 1 .. Len(lookups') : lookups'[k].back <= m + 1
      BY <3>3 DEF Behind
    <3>7. \A k \in 1 .. Len(lookups') : lookups'[k].back <= m + n + 1
      BY <3>1, <3>2, <3>6
    <3>8. Behind(lookups', Len(code') + 1)
      BY <3>3, <3>7 DEF Behind
    <3> QED  BY <1>1, <1>2, <1>3, <2>2, <3>5, <3>8 DEF Struct, PlaceOK
  <2>4. Idle(code', pc', lookups')
    BY <1>1, <1>2, <1>3, <1>4, <2>2, LoopingIs DEF Idle, Struct, PlaceOK, Tip
  <2> QED  BY <1>3, <2>3, <2>4 DEF Struct
<1>5. CASE ~(pc > 0 \/ InLoop)
  <2>1. code' = code /\ code = <<>>
    BY <1>1, <1>3, <1>5, LoopingIs DEF Extended, Struct, Idle, Tip
  <2>2. CodeType(code', lookups')
    BY <2>1, <1>1 DEF CodeType
  <2>3. PlaceOK(code', pc', lookups') /\ Idle(code', pc', lookups')
    BY <1>1, <1>2, <1>3, <2>1, <2>2 DEF Struct, PlaceOK, Idle, Tip
  <2> QED  BY <1>3, <2>3 DEF Struct
<1> QED  BY <1>4, <1>5

LEMMA SettleStruct ==
  ASSUME NEW c, NEW p, NEW open, Settle(c, p, open), LookupsType(open), PlaceOK(c, p, open)
  PROVE  PlaceOK(code', pc', open) /\ Idle(code', pc', open)
<1> DEFINE idle == (p < 0 \/ p = Len(c) + 1) /\ \A l \in Range(open) : l.back = 0
<1>1. /\ code' = IF idle THEN <<>> ELSE c
      /\ pc'   = IF idle /\ p > 0 THEN 1 ELSE p
  BY DEF Settle
<1>2. (\A l \in Range(open) : l.back = 0) <=> ~Looping(open)
  BY LookupsElements DEF Range, Looping
<1>3. p \in Int /\ Len(c) \in Nat
  BY DEF PlaceOK, CodeType
<1>4. CASE idle
  <2>1. code' = <<>> /\ pc' \in Int /\ (pc' = p \/ pc' = 1) /\ pc' <= 1 /\ (pc' < 0 => pc' = p)
    BY <1>1, <1>3, <1>4 DEF PlaceOK
  <2>2. CodeType(<<>>, open) /\ Len(<<>>) = 0
    BY EmptySeq DEF CodeType
  <2>3. Behind(open, 1)
    BY <1>2, <1>4 DEF Behind, Looping
  <2> QED  BY <2>1, <2>2, <2>3 DEF PlaceOK, Idle
<1>5. CASE ~idle
  <2> HIDE DEF idle
  <2>1. code' = c /\ pc' = p
    BY <1>1, <1>5
  <2>2. Idle(c, p, open)
    BY <1>2, <1>5 DEF idle, Idle
  <2> QED  BY <2>1, <2>2
<1> QED  BY <1>4, <1>5

(* The code c once labels are placed at its end. *)
Landed(c, labels) ==
  [i \in DOMAIN c |-> IF c[i].to \in labels THEN [c[i] EXCEPT !.to = Len(c) + 1] ELSE c[i]]

LEMMA LandedType ==
  ASSUME NEW c, NEW lk, NEW lk2, NEW labels, CodeType(c, lk),
         Labels(lk) \ labels \subseteq Labels(lk2)
  PROVE  CodeType(Landed(c, labels), lk2) /\ Len(Landed(c, labels)) = Len(c)
<1>1. c \in Seq(Instructions) /\ Len(c) \in Nat /\ DOMAIN c = 1 .. Len(c)
  BY DEF CodeType
<1> DEFINE at(j) == IF c[j].to \in labels THEN [c[j] EXCEPT !.to = Len(c) + 1] ELSE c[j]
<1>2. ASSUME NEW j \in 1 .. Len(c)
      PROVE  Placed(at(j), lk2, Len(c) + 1)
  <2>1. Placed(c[j], lk, Len(c) + 1)
    BY DEF CodeType
  <2>2. CASE c[j].to \in labels
    <3> DEFINE i == c[j]
    <3>1. i \in Instructions /\ i.gives \subseteq RT /\ (i.do \in {"copy", "copy_ref", "swap"} => i.src \in Symbols)
      BY <2>1 DEF Placed
    <3>2. Len(c) + 1 \in Int /\ Len(c) + 1 <= Len(c) + 1 /\ ~(Len(c) + 1 < 0)
      BY <1>1
    <3>3. at(j) = [i EXCEPT !.to = Len(c) + 1]
      BY <2>2
    <3> HIDE DEF i, at
    <3>4. [i EXCEPT !.to = Len(c) + 1] \in Instructions
      BY <3>1, <3>2 DEF Instructions
    <3>5. /\ [i EXCEPT !.to = Len(c) + 1].gives = i.gives /\ [i EXCEPT !.to = Len(c) + 1].do = i.do
          /\ [i EXCEPT !.to = Len(c) + 1].src = i.src /\ [i EXCEPT !.to = Len(c) + 1].to = Len(c) + 1
      BY <3>1 DEF Instructions
    <3> QED  BY <3>1, <3>2, <3>3, <3>4, <3>5 DEF Placed
  <2>3. CASE c[j].to \notin labels
    BY <2>1, <2>3 DEF Placed
  <2> QED  BY <2>2, <2>3
<1>3. Landed(c, labels) = [j \in 1 .. Len(c) |-> at(j)]
  BY <1>1 DEF Landed
<1>4. \A j \in 1 .. Len(c) : at(j) \in Instructions
  BY <1>2 DEF Placed
<1> HIDE DEF at
<1>5. [j \in 1 .. Len(c) |-> at(j)] \in Seq(Instructions) /\ Len([j \in 1 .. Len(c) |-> at(j)]) = Len(c)
  BY <1>1, <1>4
<1> QED  BY <1>2, <1>3, <1>5 DEF CodeType

LEMMA ExtendedType ==
  ASSUME Struct, NEW is \in Seq(Instructions), \A j \in 1 .. Len(is) : Placed(is[j], lookups, Tip)
  PROVE  /\ CodeType(Extended(is), lookups) /\ Len(code) <= Len(Extended(is))
         /\ Len(Extended(is)) \in Nat /\ Len(code) \in Nat
<1>1. CodeType(code, lookups) /\ Len(code) \in Nat /\ Len(is) \in Nat
  BY DEF Struct, PlaceOK, CodeType
<1>2. CodeType(code \o is, lookups) /\ Len(code \o is) = Len(code) + Len(is)
  BY <1>1, CodeAppended DEF Tip
<1> QED  BY <1>1, <1>2 DEF Extended

(* A method that places labels at the end of code c.                       *)
LEMMA PlaceStruct ==
  ASSUME Struct, pc = Tip \/ pc < 0, NEW labels, NEW open,
         NEW is \in Seq(Instructions), \A j \in 1 .. Len(is) : Placed(is[j], lookups, Tip),
         Place(labels, Extended(is), open),
         LookupsType(open), Labels(lookups) \ labels \subseteq Labels(open), Behind(open, Tip),
         states' \in [Symbols -> Filter], live' \subseteq Registers
  PROVE  Struct'
<1> DEFINE c == Extended(is)
           p == IF pc \in labels THEN Len(c) + 1 ELSE pc
<1>1. CodeType(c, lookups) /\ Len(code) <= Len(c) /\ Len(c) \in Nat /\ Len(code) \in Nat
  BY ExtendedType
<1>2. Settle(Landed(c, labels), p, open) /\ lookups' = open /\ env' = env
  BY DEF Place, Landed
<1> HIDE DEF c
<1>3. CodeType(Landed(c, labels), open) /\ Len(Landed(c, labels)) = Len(c)
  BY <1>1, LandedType
<1>4. p \in Int /\ p <= Len(c) + 1 /\ (p < 0 => p \in Labels(open))
  BY <1>1 DEF Struct, PlaceOK, Tip
<1>5. Behind(open, Len(c) + 1)
  BY <1>1, LookupsElements DEF Behind, Tip
<1> HIDE DEF p
<1>6. PlaceOK(Landed(c, labels), p, open)
  BY <1>3, <1>4, <1>5 DEF PlaceOK
<1>7. PlaceOK(code', pc', open) /\ Idle(code', pc', open)
  BY <1>2, <1>6, SettleStruct
<1> QED  BY <1>2, <1>7 DEF Struct

(* An instruction has been executed. *)
LEMMA GotoStruct ==
  ASSUME Struct, Running, NEW p, p = pc + 1 \/ p = This.to, Goto(p), env' \in [Symbols -> RT]
  PROVE  Struct'
<1>1. pc \in 1 .. Len(code) /\ Len(code) \in Nat /\ CodeType(code, lookups)
  BY DEF Struct, PlaceOK, CodeType, Running
<1>2. Placed(This, lookups, Len(code) + 1) /\ This.to \in Int
  BY <1>1 DEF CodeType, This, Placed, Instructions
<1>3. p \in Int /\ p <= Len(code) + 1 /\ (p < 0 => p \in Labels(lookups))
  BY <1>1, <1>2 DEF Placed
<1>4. Behind(lookups, Len(code) + 1)
  BY <1>1 DEF Struct, PlaceOK
<1>5. PlaceOK(code, p, lookups)
  BY <1>1, <1>3, <1>4 DEF PlaceOK
<1>6. Settle(code, p, lookups) /\ UNCHANGED <<states, lookups, live>> /\ LookupsType(lookups)
  BY DEF Goto, Struct
<1>7. PlaceOK(code', pc', lookups) /\ Idle(code', pc', lookups)
  BY <1>5, <1>6, SettleStruct
<1> QED  BY <1>6, <1>7 DEF Struct

LEMMA RunStruct ==
  ASSUME Struct, Run
  PROVE  Struct'
<1>1. ASSUME Running
      PROVE  /\ This \in Instructions /\ This.dest \in Symbols /\ This.gives \subseteq RT
             /\ env[This.dest] \in RT /\ env \in [Symbols -> RT]
             /\ This.do \in {"copy", "copy_ref", "swap"} => env[This.src] \in RT
  <2>1. pc \in 1 .. Len(code) /\ CodeType(code, lookups)
    BY <1>1 DEF Struct, PlaceOK, CodeType, Running
  <2>2. Placed(This, lookups, Len(code) + 1)
    BY <2>1 DEF CodeType, This
  <2> QED  BY <2>2 DEF Placed, Instructions, Struct
<1>2. ASSUME Running, NEW results, results \subseteq RT, Yields(This.dest, results)
      PROVE  env' \in [Symbols -> RT]
  BY <1>1, <1>2 DEF Yields
<1>3. CASE Run_Write
  BY <1>1, <1>2, <1>3, GotoStruct DEF Run_Write, Execute
<1>4. CASE Run_Store \/ Run_Jump \/ Run_Branch
  BY <1>1, <1>4, GotoStruct DEF Run_Store, Run_Jump, Run_Branch, Execute
<1>5. CASE Run_Copy
  <2>1. {env[This.src]} \subseteq RT
    BY <1>1, <1>5 DEF Run_Copy, Execute
  <2> QED  BY <1>2, <1>5, <2>1, GotoStruct DEF Run_Copy, Execute
<1>6. CASE Run_Copy_Ref
  <2> DEFINE R == IF env[This.dest] = CRY_REFERENCE THEN {CRY_REFERENCE} ELSE Deref(env[This.src])
  <2>1. R \subseteq RT
    BY <1>1, <1>6, DerefType, ConstantTypes DEF Run_Copy_Ref, Execute
  <2>2. Running /\ Yields(This.dest, R) /\ Goto(pc + 1)
    BY <1>6 DEF Run_Copy_Ref, Execute
  <2> HIDE DEF R
  <2> QED  BY <1>2, <2>1, <2>2, GotoStruct
<1>7. CASE Run_Swap
  <2>1. Running /\ Goto(pc + 1)
        /\ env' = [env EXCEPT ![This.dest] = env[This.src], ![This.src] = env[This.dest]]
        /\ This.do = "swap"
    BY <1>7 DEF Run_Swap, Execute
  <2>2. env' \in [Symbols -> RT]
    BY <1>1, <2>1
  <2> QED  BY <2>1, <2>2, GotoStruct
<1>8. CASE Run_Not
  <2>1. {IF env[This.dest] = CRY_NIL THEN CRY_NIL ELSE CRY_BOOL} \subseteq RT
    BY ConstantTypes
  <2> QED  BY <1>2, <1>8, <2>1, GotoStruct DEF Run_Not, Execute
<1>9. CASE Run_Obscure
  <2>1. Running /\ Goto(pc + 1) /\ Yields(This.dest, Dynamic(This.op, env[This.dest], TypeOf(This.src)))
    BY <1>9 DEF Run_Obscure, Execute
  <2>2. Dynamic(This.op, env[This.dest], TypeOf(This.src)) \subseteq RT
    BY <1>1, <2>1, DynamicType
  <2> QED  BY <1>2, <2>1, <2>2, GotoStruct
<1>10. CASE Run_Return
  <2>1. pc' = 0 /\ code' = <<>> /\ UNCHANGED <<states, lookups, live, env>>
    BY <1>10 DEF Run_Return
  <2>2. CodeType(<<>>, lookups) /\ Len(<<>>) = 0
    BY EmptySeq DEF CodeType
  <2>3. PlaceOK(code', pc', lookups') /\ Idle(code', pc', lookups')
    BY <2>1, <2>2 DEF PlaceOK, Idle
  <2> QED  BY <2>1, <2>3 DEF Struct
<1> QED  BY <1>3, <1>4, <1>5, <1>6, <1>7, <1>8, <1>9, <1>10 DEF Run

(* The instructions that the methods append. *)
LEMMA InstructionFields ==
  ASSUME NEW do \in Kinds, NEW dest \in Symbols, NEW src \in Symbols \cup Types
  PROVE  LET i == Instruction(do, dest, src) IN
         /\ i \in Instructions /\ i.gives = {} /\ i.to = 0
         /\ i.do = do /\ i.src = src /\ i.dest = dest
         /\ i.dneeds = Types /\ i.sneeds = Types
BY DEF Instruction, Instructions

LEMMA ChangedPlaced ==
  ASSUME NEW lk, NEW n, NEW i, Placed(i, lk, n),
         NEW op \in OperatorKinds, NEW src \in Symbols \cup Types, src \in Symbols \/ i.do = "write",
         NEW D \in SUBSET Types, NEW S \in SUBSET Types, NEW G \in SUBSET RT
  PROVE  /\ Placed([i EXCEPT !.dneeds = D], lk, n) /\ Placed([i EXCEPT !.sneeds = S], lk, n)
         /\ Placed([i EXCEPT !.dneeds = D, !.sneeds = S], lk, n)
         /\ Placed([i EXCEPT !.op = op], lk, n) /\ Placed([i EXCEPT !.gives = G], lk, n)
         /\ Placed([i EXCEPT !.src = src, !.dneeds = D, !.sneeds = S], lk, n)
<1>1. G \subseteq Types
  BY ConstantTypes
<1> QED  BY <1>1 DEF Placed, Instructions

LEMMA PlainPlaced ==
  ASSUME NEW lk, NEW n \in Nat, NEW dest \in Symbols, NEW src \in Symbols \cup Types,
         NEW do \in Kinds, do \in {"copy", "copy_ref", "swap"} => src \in Symbols,
         NEW G \in SUBSET RT
  PROVE  /\ Placed(Instruction(do, dest, src), lk, n)
         /\ Placed(Write(dest, G), lk, n) /\ Write(dest, G).do = "write"
<1>1. Placed(Instruction(do, dest, src), lk, n)
  BY InstructionFields DEF Placed
<1>2. PICK i : i = Instruction("write", dest, dest)
  OBVIOUS
<1>3. i \in Instructions /\ i.gives = {} /\ i.to = 0 /\ i.do = "write" /\ i.src \in Symbols
  BY <1>2, InstructionFields DEF Kinds
<1>4. Placed(i, lk, n)
  BY <1>3 DEF Placed
<1>5. Placed([i EXCEPT !.gives = G], lk, n) /\ [i EXCEPT !.gives = G].do = "write"
  <2>1. OperatorKinds # {} /\ {} \in SUBSET Types
    BY DEF OperatorKinds
  <2>2. [i EXCEPT !.gives = G].do = "write"
    BY <1>3 DEF Instructions
  <2> QED  BY <1>3, <1>4, <2>1, <2>2, ChangedPlaced
<1> QED  BY <1>1, <1>2, <1>5 DEF Write

LEMMA JumpPlaced ==
  ASSUME NEW lk, NEW n \in Nat, NEW v \in Symbols, NEW S \in SUBSET Types,
         NEW to \in Int, to <= n, to < 0 => to \in Labels(lk)
  PROVE  Placed(Jump(to), lk, n) /\ Placed(Branch(v, S, to), lk, n)
<1>1. FirstRegister \in Symbols
  BY ConstantsAssumption DEF Symbols
<1>2. PICK i : i = Instruction("jump", FirstRegister, FirstRegister)
  OBVIOUS
<1>3. i \in Instructions /\ i.gives = {} /\ i.do = "jump"
  BY <1>1, <1>2, InstructionFields DEF Kinds
<1>4. Placed([i EXCEPT !.to = to], lk, n)
  BY <1>3 DEF Placed, Instructions
<1>5. PICK j : j = Instruction("branch", v, v)
  OBVIOUS
<1>6. j \in Instructions /\ j.gives = {} /\ j.do = "branch"
  BY <1>5, InstructionFields DEF Kinds
<1>7. Placed([j EXCEPT !.sneeds = S, !.to = to], lk, n)
  BY <1>6 DEF Placed, Instructions
<1> QED  BY <1>2, <1>4, <1>5, <1>7 DEF Jump, Branch

(* The blocks stay open, one may be added. *)
Stay == LookupsType(lookups') /\ Continues(lookups, lookups') /\ Behind(lookups', Tip)

(* The block on top may become new, and lk2 is what lk becomes.            *)
Replaceable(lk, new) ==
  /\ LookupsType(lk) /\ lk # <<>> /\ new \in Lookups
  /\ {new.next, new.block} \subseteq {NextLabel(Len(lk)), BlockLabel(Len(lk))}
  /\ new.back # 0 => new.corruptions = Symbols

Replaced(lk, new, lk2) ==
  /\ LookupsType(lk2) /\ Len(lk2) = Len(lk) /\ lk2 # <<>> /\ Last(lk2) = new
  /\ \A k \in 1 .. Len(lk) : lk2[k] = IF k = Len(lk) THEN new ELSE lk[k]

LEMMA TopReplaced ==
  ASSUME NEW lk, NEW new, Replaceable(lk, new)
  PROVE  Replaced(lk, new, [lk EXCEPT ![Len(lk)] = new])
<1> DEFINE lk2 == [lk EXCEPT ![Len(lk)] = new]
<1>0. /\ LookupsType(lk) /\ lk # <<>> /\ new \in Lookups
      /\ {new.next, new.block} \subseteq {NextLabel(Len(lk)), BlockLabel(Len(lk))}
      /\ new.back # 0 => new.corruptions = Symbols
  BY DEF Replaceable
<1>1. Len(lk) \in Nat \ {0} /\ lk \in Seq(Lookups) /\ DOMAIN lk = 1 .. Len(lk)
  BY <1>0, LookupsElements, EmptySeq
<1>2. lk[Len(lk)] \in Lookups /\ Last(lk) = lk[Len(lk)]
  BY <1>1 DEF Last
<1>3. /\ lk2 \in Seq(Lookups) /\ Len(lk2) = Len(lk)
      /\ \A k \in 1 .. Len(lk) : lk2[k] = IF k = Len(lk) THEN new ELSE lk[k]
  BY <1>0, <1>1
<1> HIDE DEF lk2
<1>4. \A k \in 1 .. Len(lk) - 1 : k \in 1 .. Len(lk) /\ k # Len(lk)
  <2>1. PICK n \in Nat : n = Len(lk)
    BY <1>1
  <2> QED  BY <2>1
<1>5. LookupsType(lk2)
  BY <1>0, <1>1, <1>3, <1>4 DEF LookupsType
<1>6. lk2 # <<>> /\ Last(lk2) = new
  <2>1. Len(lk) \in 1 .. Len(lk) /\ Len(lk2) # 0
    <3>1. PICK n \in Nat \ {0} : n = Len(lk)
      BY <1>1
    <3>2. n \in 1 .. n /\ n # 0
      OBVIOUS
    <3> QED  BY <1>3, <3>1, <3>2
  <2>2. lk2 # <<>>
    BY <2>1, EmptySeq
  <2> QED  BY <1>3, <2>1, <2>2 DEF Last
<1> QED  BY <1>3, <1>5, <1>6 DEF lk2, Replaced

LEMMA TopStays ==
  ASSUME Struct, pc = Tip \/ pc < 0, lookups # <<>>, NEW new \in Lookups,
         lookups' = [lookups EXCEPT ![Len(lookups)] = new],
         new.next = Last(lookups).next, new.block = Last(lookups).block, new.back = Last(lookups).back,
         new.corruptions = Last(lookups).corruptions \/ new.corruptions = Symbols \/ new.back = 0
  PROVE  Stay
<1>1. LookupsType(lookups) /\ Behind(lookups, Tip) /\ Tip \in Nat
  BY DEF Struct, PlaceOK, CodeType, Tip
<1>2. Len(lookups) \in Nat \ {0} /\ Last(lookups) = lookups[Len(lookups)]
  BY <1>1, LookupsElements, EmptySeq DEF Last
<1>3. /\ {new.next, new.block} \subseteq {NextLabel(Len(lookups)), BlockLabel(Len(lookups))}
      /\ new.back # 0 => new.corruptions = Symbols
  BY <1>1, <1>2 DEF LookupsType
<1>4. /\ LookupsType(lookups') /\ Len(lookups') = Len(lookups)
      /\ \A k \in 1 .. Len(lookups) : lookups'[k] = IF k = Len(lookups) THEN new ELSE lookups[k]
  <2>1. Replaceable(lookups, new)
    BY <1>1, <1>3 DEF Replaceable
  <2>2. Replaced(lookups, new, lookups')
    BY <2>1, TopReplaced
  <2> QED  BY <2>2 DEF Replaced
<1>5. Len(lookups) <= Len(lookups')
  BY <1>2, <1>4
<1> QED  BY <1>1, <1>2, <1>4, <1>5 DEF Stay, Continues, Behind

LEMMA CorruptStays ==
  ASSUME Struct, pc = Tip \/ pc < 0, UNCHANGED lookups \/ \E x \in Symbols : Corrupt(x)
  PROVE  Stay
<1>1. LookupsType(lookups) /\ Behind(lookups, Tip) /\ Tip \in Nat
  BY DEF Struct, PlaceOK, CodeType, Tip
<1>2. CASE UNCHANGED lookups
  BY <1>1, <1>2, LookupsElements DEF Stay, Continues
<1>3. CASE lookups # <<>> /\ \E x \in Symbols : Corrupt(x)
  <2>1. PICK x \in Symbols :
          lookups' = [lookups EXCEPT ![Len(lookups)].corruptions = @ \cup {x}]
    BY <1>3 DEF Corrupt
  <2>2. Len(lookups) \in Nat \ {0} /\ lookups \in Seq(Lookups) /\ Last(lookups) = lookups[Len(lookups)]
    BY <1>1, <1>3, LookupsElements, EmptySeq DEF Last
  <2> DEFINE new == [Last(lookups) EXCEPT !.corruptions = @ \cup {x}]
  <2>3. lookups' = [lookups EXCEPT ![Len(lookups)] = new]
    BY <2>1, <2>2
  <2>4. Last(lookups) \in Lookups
    BY <2>2
  <2>5. /\ new \in Lookups /\ new.next = Last(lookups).next /\ new.block = Last(lookups).block
        /\ new.back = Last(lookups).back /\ new.corruptions = Last(lookups).corruptions \cup {x}
    BY <2>4 DEF Lookups
  <2>6. new.back # 0 => new.corruptions = Symbols
    BY <1>1, <2>2, <2>5 DEF LookupsType
  <2> HIDE DEF new
  <2> QED  BY <1>3, <2>3, <2>5, <2>6, TopStays
<1>4. CASE lookups = <<>>
  BY <1>2, <1>4 DEF Corrupt
<1> QED  BY <1>2, <1>3, <1>4

LEMMA PendingStays ==
  ASSUME Struct, pc = Tip \/ pc < 0, lookups # <<>>,
         lookups' = [lookups EXCEPT ![Len(lookups)].pending = FALSE]
  PROVE  Stay
<1>1. LookupsType(lookups)
  BY DEF Struct
<1>2. Len(lookups) \in Nat \ {0} /\ lookups \in Seq(Lookups) /\ Last(lookups) = lookups[Len(lookups)]
  BY <1>1, LookupsElements, EmptySeq DEF Last
<1> DEFINE new == [Last(lookups) EXCEPT !.pending = FALSE]
<1>3. lookups' = [lookups EXCEPT ![Len(lookups)] = new]
  BY <1>2
<1>4. Last(lookups) \in Lookups
  BY <1>2
<1>5. /\ new \in Lookups /\ new.next = Last(lookups).next /\ new.block = Last(lookups).block
      /\ new.back = Last(lookups).back /\ new.corruptions = Last(lookups).corruptions
  BY <1>4 DEF Lookups
<1> HIDE DEF new
<1> QED  BY <1>3, <1>5, TopStays

(* A block is opened. *)
LEMMA Pushed ==
  ASSUME NEW lk, LookupsType(lk), NEW new \in Lookups, lk # <<>> => ~Last(lk).pending, Len(lk) < MaxNesting,
         {new.next, new.block} \subseteq {NextLabel(Len(lk) + 1), BlockLabel(Len(lk) + 1)},
         new.back # 0 => new.corruptions = Symbols
  PROVE  LET lk2 == Append(lk, new) IN
         /\ Len(lk) \in Nat /\ LookupsType(lk2) /\ Len(lk2) = Len(lk) + 1 /\ lk2 # <<>> /\ Last(lk2) = new
         /\ \A k \in 1 .. Len(lk) : lk2[k] = lk[k]
         /\ lk2[Len(lk) + 1] = new
<1> DEFINE lk2 == Append(lk, new)
<1>1. Len(lk) \in Nat /\ lk \in Seq(Lookups)
  BY LookupsElements
<1>2. /\ lk2 \in Seq(Lookups) /\ Len(lk2) = Len(lk) + 1
      /\ \A k \in 1 .. Len(lk) : lk2[k] = lk[k]
      /\ lk2[Len(lk) + 1] = new
  BY <1>1
<1> HIDE DEF lk2
<1>3. lk2 # <<>> /\ Last(lk2) = new
  BY <1>1, <1>2, EmptySeq DEF Last
<1>4. \A k \in 1 .. Len(lk) : ~lk[k].pending
  <2>1. lk # <<>> => Last(lk) = lk[Len(lk)]
    BY DEF Last
  <2>2. \A k \in 1 .. Len(lk) : k \in 1 .. Len(lk) - 1 \/ (k = Len(lk) /\ lk # <<>>)
    BY <1>1, EmptySeq
  <2> QED  BY <2>1, <2>2 DEF LookupsType
<1>5. /\ Len(lk) + 1 <= MaxNesting
      /\ \A k \in 1 .. Len(lk) + 1 - 1 : k \in 1 .. Len(lk)
      /\ \A k \in 1 .. Len(lk) + 1 : k \in 1 .. Len(lk) \/ k = Len(lk) + 1
  BY <1>1, ConstantsAssumption
<1>6. LookupsType(lk2)
  BY <1>2, <1>4, <1>5 DEF LookupsType
<1> QED  BY <1>1, <1>2, <1>3, <1>6 DEF lk2

LEMMA PushStays ==
  ASSUME Struct, pc = Tip \/ pc < 0, ~Pending, Len(lookups) < MaxNesting, NEW new \in Lookups,
         {new.next, new.block} \subseteq {NextLabel(Len(lookups) + 1), BlockLabel(Len(lookups) + 1)},
         new.back # 0 => new.corruptions = Symbols, new.back <= Tip,
         lookups' = Append(lookups, new)
  PROVE  Stay
<1>1. LookupsType(lookups) /\ Behind(lookups, Tip) /\ Tip \in Nat
  BY DEF Struct, PlaceOK, CodeType, Tip
<1>2. /\ Len(lookups) \in Nat /\ LookupsType(lookups') /\ Len(lookups') = Len(lookups) + 1
      /\ \A k \in 1 .. Len(lookups) : lookups'[k] = lookups[k]
      /\ lookups'[Len(lookups) + 1] = new
  BY <1>1, Pushed DEF Pending
<1>3. \A k \in 1 .. Len(lookups) + 1 : k \in 1 .. Len(lookups) \/ k = Len(lookups) + 1
  BY <1>2
<1>4. Len(lookups) <= Len(lookups')
  BY <1>2
<1> QED  BY <1>1, <1>2, <1>3, <1>4 DEF Stay, Continues, Behind

(* A block is closed. *)
LEMMA Popped ==
  ASSUME NEW lk, LookupsType(lk), lk # <<>>
  PROVE  LET lk2 == SubSeq(lk, 1, Len(lk) - 1) IN
         /\ Len(lk) \in Nat \ {0} /\ lk[Len(lk)] \in Lookups /\ Last(lk) = lk[Len(lk)]
         /\ LookupsType(lk2) /\ Len(lk2) = Len(lk) - 1
         /\ \A k \in 1 .. Len(lk) - 1 : lk2[k] = lk[k]
         /\ lk2 # <<>> => ~Last(lk2).pending
<1> DEFINE lk2 == SubSeq(lk, 1, Len(lk) - 1)
<1>1. Len(lk) \in Nat \ {0} /\ lk \in Seq(Lookups)
  BY LookupsElements, EmptySeq
<1>2. lk[Len(lk)] \in Lookups /\ Last(lk) = lk[Len(lk)]
  BY <1>1 DEF Last
<1>3. PICK n \in Nat : n = Len(lk) - 1
  BY <1>1
<1>4. lk2 \in Seq(Lookups) /\ Len(lk2) = n
  BY <1>1, <1>3
<1>5. \A k \in 1 .. n : lk2[k] = lk[k]
  BY <1>1, <1>3
<1> HIDE DEF lk2
<1>6. /\ \A k \in 1 .. n : k \in 1 .. Len(lk) - 1 /\ k \in 1 .. Len(lk)
      /\ \A k \in 1 .. n - 1 : k \in 1 .. n
  BY <1>1, <1>3
<1>7. n <= MaxNesting
  BY <1>1, <1>3, ConstantsAssumption DEF LookupsType
<1>8. LookupsType(lk2)
  BY <1>4, <1>5, <1>6, <1>7 DEF LookupsType
<1>9. lk2 # <<>> => ~Last(lk2).pending
  <2> SUFFICES ASSUME lk2 # <<>>
               PROVE  ~Last(lk2).pending
    OBVIOUS
  <2>1. n \in 1 .. n
    BY <1>4, <1>3, EmptySeq
  <2> QED  BY <1>4, <1>5, <1>6, <2>1 DEF Last, LookupsType
<1> QED  BY <1>1, <1>2, <1>3, <1>4, <1>5, <1>8, <1>9 DEF lk2

LEMMA EmitOne ==
  ASSUME Struct, pc = Tip \/ pc < 0, Stay, NEW i, Emit(<<i>>), Placed(i, lookups', Tip),
         states' \in [Symbols -> Filter], live' \subseteq Registers
  PROVE  Struct'
<1>1. <<i>> \in Seq(Instructions) /\ <<i>> # <<>> /\ Len(<<i>>) = 1 /\ <<i>>[1] = i
  BY DEF Placed
<1>2. PICK is : is = <<i>>
  OBVIOUS
<1>3. \A j \in 1 .. Len(is) : Placed(is[j], lookups', Tip)
  BY <1>1, <1>2
<1> QED  BY <1>1, <1>2, <1>3, EmitStruct DEF Stay

LEMMA TipNat == ASSUME Struct PROVE Tip \in Nat
BY DEF Struct, PlaceOK, CodeType, Tip

LEMMA StoresLive ==
  ASSUME Struct, NEW x, NEW f, Stores(x, f)
  PROVE  live' \subseteq Registers
BY DEF Stores, Struct

(* The methods for values. *)
LEMMA ValueStruct ==
  ASSUME Struct, pc = Tip \/ pc < 0,
         \/ \E x \in Symbols, t \in Literals : Load(x, t)
         \/ \E x, y \in Symbols : Copy(x, y) \/ Swap(x, y)
         \/ \E r \in Registers : Not(r) \/ Call(r) \/ Make_Array(r) \/ Array_Index(r) \/ Get(r)
  PROVE  Struct'
<1>1. Tip \in Nat /\ states \in [Symbols -> Filter] /\ live \subseteq Registers
  BY TipNat DEF Struct
<1>2. Registers \subseteq Symbols
  BY DEF Symbols
<1>3. ASSUME NEW x \in Symbols, NEW t \in Literals, Load(x, t)
      PROVE  Struct'
  <2>1. Stay
    BY <1>3, CorruptStays DEF Load
  <2>2. {t} \in SUBSET RT /\ {CRY_REFERENCE} \in SUBSET Types /\ t \in Types
    BY ConstantTypes
  <2>3. states' \in [Symbols -> Filter] /\ live' \subseteq Registers
    BY <1>1, <1>3, <2>2, FilterTypes, StoresLive DEF Load
  <2>4. CASE Only(states[x], CRY_REFERENCE)
    <3> DEFINE i == [Instruction("store", x, x) EXCEPT !.dneeds = {CRY_REFERENCE}]
    <3>1. Emit(<<i>>)
      BY <1>3, <2>4 DEF Load
    <3>2. Placed(Instruction("store", x, x), lookups', Tip)
      BY <1>1, InstructionFields DEF Kinds, Placed
    <3>3. Placed(i, lookups', Tip)
      <4>1. OperatorKinds # {}
        BY DEF OperatorKinds
      <4> QED  BY <2>2, <3>2, <4>1, ChangedPlaced
    <3> HIDE DEF i
    <3> QED  BY <2>1, <2>3, <3>1, <3>3, EmitOne
  <2>5. CASE ~Only(states[x], CRY_REFERENCE)
    <3>1. Emit(<<Write(x, {t})>>)
      BY <1>3, <2>5 DEF Load
    <3>2. Placed(Write(x, {t}), lookups', Tip)
      BY <1>1, <2>2, PlainPlaced DEF Kinds
    <3> QED  BY <2>1, <2>3, <3>1, <3>2, EmitOne
  <2> QED  BY <2>4, <2>5
<1>4. ASSUME NEW x \in Symbols, NEW y \in Symbols, Copy(x, y)
      PROVE  Struct'
  <2>1. Stay
    BY <1>4, CorruptStays DEF Copy
  <2>2. states' \in [Symbols -> Filter] /\ live' \subseteq Registers
    BY <1>1, <1>4, FilterTypes, StoresLive DEF Copy
  <2>3. Placed(Instruction("copy_ref", x, y), lookups', Tip)
        /\ Placed(Instruction("copy", x, y), lookups', Tip)
    BY <1>1, InstructionFields DEF Kinds, Placed
  <2>4. Carried(states[y]) \in SUBSET Types
    BY <1>1, FilterTypes
  <2> DEFINE i == [Instruction("copy", x, y) EXCEPT !.sneeds = Carried(states[y])]
  <2>5. Placed(i, lookups', Tip)
    <3>1. OperatorKinds # {}
      BY DEF OperatorKinds
    <3> QED  BY <2>3, <2>4, <3>1, ChangedPlaced
  <2>6. Emit(<<Instruction("copy_ref", x, y)>>) \/ Emit(<<i>>)
    BY <1>4 DEF Copy
  <2> HIDE DEF i
  <2> QED  BY <2>1, <2>2, <2>3, <2>5, <2>6, EmitOne
<1>5. ASSUME NEW x \in Symbols, NEW y \in Symbols, Swap(x, y)
      PROVE  Struct'
  <2>1. Stay
    BY <1>5, CorruptStays DEF Swap
  <2>2. states' \in [Symbols -> Filter] /\ live' \subseteq Registers
    BY <1>1, <1>5 DEF Swap
  <2> DEFINE moved == Swapped(states[x], states[y])
             i == [Instruction("swap", x, y) EXCEPT !.dneeds = moved, !.sneeds = moved]
  <2>3. Placed(Instruction("swap", x, y), lookups', Tip)
    BY <1>1, InstructionFields DEF Kinds, Placed
  <2>4. moved \in SUBSET Types
    BY <1>1, FilterTypes
  <2>5. Placed(i, lookups', Tip)
    <3>1. OperatorKinds # {}
      BY DEF OperatorKinds
    <3> HIDE DEF moved
    <3> QED  BY <2>3, <2>4, <3>1, ChangedPlaced
  <2>6. Emit(<<i>>)
    BY <1>5 DEF Swap
  <2> HIDE DEF i
  <2> QED  BY <2>1, <2>2, <2>5, <2>6, EmitOne
<1>6. ASSUME NEW r \in Registers, Not(r)
      PROVE  Struct'
  <2>1. Stay
    BY <1>6, CorruptStays DEF Not
  <2>2. Placed(Instruction("not", r, r), lookups', Tip)
    BY <1>1, <1>2, InstructionFields DEF Kinds, Placed
  <2>3. states' \in [Symbols -> Filter] /\ live' \subseteq Registers
    BY <1>1, <1>6 DEF Not
  <2> QED  BY <1>6, <2>1, <2>2, <2>3, EmitOne DEF Not
<1>7. ASSUME NEW r \in Registers, NEW f \in Filter, NEW G \in SUBSET RT,
             Results(r, f), Emit(<<Write(r, G)>>), Corrupt(r) \/ UNCHANGED lookups
      PROVE  Struct'
  <2>1. Stay
    BY <1>2, <1>7, CorruptStays
  <2>2. Placed(Write(r, G), lookups', Tip)
    BY <1>1, <1>2, PlainPlaced DEF Kinds
  <2>3. states' \in [Symbols -> Filter] /\ live' \subseteq Registers
    BY <1>1, <1>7 DEF Results
  <2> QED  BY <1>7, <2>1, <2>2, <2>3, EmitOne
<1>8. ASSUME NEW r \in Registers, Call(r) \/ Make_Array(r) \/ Array_Index(r) \/ Get(r)
      PROVE  Struct'
  <2>1. /\ Values \cup {CRY_REFERENCE} \in SUBSET RT /\ {CRY_ARRAY} \in SUBSET RT
        /\ {CRY_REFERENCE} \in SUBSET RT
        /\ {CRY_REFERENCE} \cup (IF "range" \in Allowed THEN {CRY_NIL} ELSE {}) \in SUBSET RT
    BY ConstantTypes
  <2>2. Obscurity \in Filter /\ Set(CRY_ARRAY) \in Filter /\ Set(CRY_REFERENCE) \in Filter
    BY FilterTypes, ConstantTypes
  <2> QED  BY <1>7, <1>8, <2>1, <2>2 DEF Call, Make_Array, Array_Index, Get
<1> QED  BY <1>3, <1>4, <1>5, <1>6, <1>8

LEMMA StaticType ==
  ASSUME NEW op \in OperatorKinds, NEW l \in Filter, NEW r \in Filter, NEW const \in BOOLEAN
  PROVE  /\ StaticResult(op, l, r, const) \in RT
         /\ StaticFilter(op, l, r, StaticResult(op, l, r, const)) \in Filter
<1>1. StaticResult(op, l, r, const) \in RT
  BY ResolveType, ConstantTypes DEF StaticResult
<1>2. Set(CRY_NIL) \in Filter /\ \A t \in RT : Resolved(l, t) \in Filter
  BY FilterTypes, ConstantTypes
<1> HIDE DEF StaticResult
<1> QED  BY <1>1, <1>2 DEF StaticFilter

LEMMA OperatorStruct ==
  ASSUME Struct, NEW op \in Operators, NEW x \in Symbols, NEW y \in Readable \cup Literals,
         Operator(op, x, y)
  PROVE  Struct'
<1> DEFINE const == y \notin Symbols
           l     == states[x]
           r     == IF const THEN Set(y) ELSE states[y]
           both  == Combind(l, r)
           t     == StaticResult(op, l, r, const)
<1>1. Tip \in Nat /\ states \in [Symbols -> Filter] /\ live' \subseteq Registers
  BY TipNat DEF Struct, Operator
<1>2. op \in OperatorKinds /\ y \in Symbols \cup Types /\ (const => y \in Types)
  BY <1>1, ConstantsAssumption, ConstantTypes DEF Readable, Symbols, Operator, Struct
<1>3. l \in Filter /\ r \in Filter /\ const \in BOOLEAN
  BY <1>1, <1>2, FilterTypes
<1>4. (pc = Tip \/ pc < 0) /\ UNCHANGED lookups
  BY DEF Operator, Ready
<1>5. Stay
  BY <1>4, CorruptStays
<1>6. t \in RT /\ StaticFilter(op, l, r, t) \in Filter /\ both \in Filter
      /\ Resolved(l, CRY_BOOL) \in Filter /\ ResolveNeeds(l, CRY_BOOL) \in SUBSET Types
      /\ Single(l) \in SUBSET Types /\ Single(r) \in SUBSET Types
  <2> HIDE DEF l, r, const
  <2>1. CRY_BOOL \in Types
    BY ConstantTypes
  <2>2. t \in RT /\ StaticFilter(op, l, r, t) \in Filter
    BY <1>2, <1>3, StaticType
  <2> QED  BY <1>3, <2>1, <2>2, FilterTypes
<1> DEFINE i1 == [Write(x, {CRY_BOOL}) EXCEPT !.dneeds = ResolveNeeds(l, CRY_BOOL)]
           i2 == [Write(x, {t}) EXCEPT !.src = y, !.dneeds = Single(l), !.sneeds = Single(r)]
           i3 == [Instruction("obscure", x, y) EXCEPT !.op = op]
<1>7. \/ Emit(<<i1>>) /\ states' = [states EXCEPT ![x] = Resolved(l, CRY_BOOL)]
      \/ Emit(<<i2>>) /\ states' = [states EXCEPT ![x] = StaticFilter(op, l, r, t)]
      \/ Emit(<<i3>>) /\ states' = [z \in Symbols |-> IF z \in {x, y} THEN both ELSE states[z]]
  BY DEF Operator
<1> HIDE DEF const, l, r, both, t
<1>8. states' \in [Symbols -> Filter]
  BY <1>1, <1>6, <1>7
<1>9. Placed(i1, lookups', Tip) /\ Placed(i2, lookups', Tip) /\ Placed(i3, lookups', Tip)
  <2>1. {CRY_BOOL} \in SUBSET RT /\ {t} \in SUBSET RT
    BY <1>6, ConstantTypes
  <2>2. /\ Placed(Write(x, {CRY_BOOL}), lookups', Tip)
        /\ Placed(Write(x, {t}), lookups', Tip) /\ Write(x, {t}).do = "write"
    BY <1>1, <2>1, PlainPlaced DEF Kinds
  <2>3. Placed(Instruction("obscure", x, y), lookups', Tip)
    BY <1>1, <1>2, InstructionFields DEF Kinds, Placed
  <2>4. Placed(i1, lookups', Tip)
    BY <1>6, <1>2, <2>2, ChangedPlaced
  <2>5. Placed(i2, lookups', Tip)
    BY <1>6, <1>2, <2>2, ChangedPlaced
  <2>6. Placed(i3, lookups', Tip)
    <3>1. {} \in SUBSET Types /\ {} \in SUBSET RT
      OBVIOUS
    <3> QED  BY <1>2, <2>3, <3>1, ChangedPlaced
  <2> QED  BY <2>4, <2>5, <2>6
<1> HIDE DEF i1, i2, i3
<1> QED  BY <1>1, <1>4, <1>5, <1>7, <1>8, <1>9, EmitOne

(* The methods for blocks. *)
LEMMA PendingEmpty == Pending => lookups # <<>>
BY DEF Pending

LEMMA NextLabels ==
  ASSUME LookupsType(lookups), lookups # <<>>
  PROVE  /\ Last(lookups).next \in Labels(lookups) /\ Last(lookups).block \in Labels(lookups)
         /\ Last(lookups).next \in Int /\ Last(lookups).next < 0
         /\ Last(lookups).block \in Int /\ Last(lookups).block < 0
         /\ Len(lookups) \in Nat \ {0} /\ Last(lookups) = lookups[Len(lookups)]
         /\ Last(lookups) \in Lookups
<1>1. Len(lookups) \in Nat \ {0} /\ DOMAIN lookups = 1 .. Len(lookups)
  BY LookupsElements, EmptySeq
<1>2. Last(lookups) = lookups[Len(lookups)] /\ Len(lookups) \in 1 .. Len(lookups)
  BY <1>1 DEF Last
<1>3. \A k \in Nat \ {0} : NextLabel(k) < 0 /\ BlockLabel(k) < 0
  BY DEF NextLabel, BlockLabel
<1>4. Last(lookups).next < 0 /\ Last(lookups).block < 0
  BY <1>1, <1>2, <1>3 DEF LookupsType
<1> QED  BY <1>1, <1>2, <1>4, LookupsElements DEF Labels

LEMMA PushLabel ==
  ASSUME NEW k \in Nat
  PROVE  /\ NextLabel(k + 1) \in Int /\ NextLabel(k + 1) < 0 
         /\ BlockLabel(k + 1) \in Int /\ BlockLabel(k + 1) < 0
BY DEF NextLabel, BlockLabel

LEMMA BranchStruct ==
  ASSUME Struct, pc = Tip \/ pc < 0, NEW v \in Symbols, If(v) \/ ElseIf(v) \/ While(v) \/ Return(v)
  PROVE  Struct'
<1>1. /\ Tip \in Nat /\ states \in [Symbols -> Filter] /\ live' \subseteq Registers
      /\ LookupsType(lookups) /\ states' \in [Symbols -> Filter] /\ Len(lookups) \in Nat
  <2>1. live' = {}
    BY DEF If, ElseIf, While, Return, Test_Condition
  <2>2. states' = states \/ states' = [x \in Symbols |-> Obscurity]
    BY DEF If, ElseIf, While, Return
  <2> QED  BY <2>1, <2>2, TipNat, FilterTypes, LookupsElements DEF Struct
<1>2. Tested(states[v]) \in SUBSET Types /\ Types \in SUBSET Types /\ Returned(states[v]) \in SUBSET Types
  BY <1>1, FilterTypes
<1>3. CASE If(v)
  <2> DEFINE to == NextLabel(Len(lookups) + 1)
             new == [back |-> 0, next |-> to, block |-> BlockLabel(Len(lookups) + 1),
                     corruptions |-> {}, pending |-> FALSE]
  <2>1. lookups' = Append(lookups, new) /\ Emit(<<Branch(v, Tested(states[v]), to)>>)
        /\ ~Pending /\ Len(lookups) < MaxNesting
    BY <1>3 DEF If, Nested, Test_Condition
  <2>2. new \in Lookups /\ new.back = 0
        /\ new.next = to /\ new.block = BlockLabel(Len(lookups) + 1)
    BY <1>1, PushLabel DEF Lookups
  <2>3. to \in Int /\ to < 0 /\ to <= Tip
    BY <1>1, PushLabel
  <2> HIDE DEF new
  <2>4. Stay
    BY <1>1, <2>1, <2>2, PushStays DEF to
  <2>5. to \in Labels(lookups')
    BY <1>1, <2>1, <2>2 DEF Labels, LookupsType
  <2> HIDE DEF to
  <2>6. Placed(Branch(v, Tested(states[v]), to), lookups', Tip)
    BY <1>1, <1>2, <2>3, <2>5, JumpPlaced
  <2> QED  BY <1>1, <2>1, <2>4, <2>6, EmitOne
<1>4. CASE ElseIf(v) \/ While(v)
  <2>1. lookups # <<>> /\ lookups' = [lookups EXCEPT ![Len(lookups)].pending = FALSE]
    BY <1>4, PendingEmpty DEF ElseIf, While
  <2>2. Stay
    BY <2>1, PendingStays
  <2> DEFINE to == Last(lookups).next
  <2>3. to \in Labels(lookups') /\ to \in Int /\ to < 0 /\ to <= Tip
    BY <1>1, <2>1, <2>2, NextLabels, ContinuesLabels DEF Stay
  <2>4. Emit(<<Branch(v, Tested(states[v]), to)>>) \/ Emit(<<Branch(v, Types, to)>>)
    BY <1>4 DEF ElseIf, While, Test_Condition
  <2> HIDE DEF to
  <2>5. Placed(Branch(v, Tested(states[v]), to), lookups', Tip)
        /\ Placed(Branch(v, Types, to), lookups', Tip)
    BY <1>1, <1>2, <2>3, JumpPlaced
  <2> QED  BY <1>1, <2>2, <2>4, <2>5, EmitOne
<1>5. CASE Return(v)
  <2>1. Stay
    BY <1>5, CorruptStays DEF Return
  <2>2. Placed(Instruction("return", v, v), lookups', Tip)
    BY <1>1, InstructionFields DEF Kinds, Placed
  <2> DEFINE i == [Instruction("return", v, v) EXCEPT !.sneeds = Returned(states[v])]
  <2>3. Placed(i, lookups', Tip)
    <3>1. OperatorKinds # {}
      BY DEF OperatorKinds
    <3> QED  BY <1>2, <2>2, <3>1, ChangedPlaced
  <2>4. Emit(<<i>>)
    BY <1>5 DEF Return
  <2> HIDE DEF i
  <2> QED  BY <1>1, <2>1, <2>3, <2>4, EmitOne
<1> QED  BY <1>3, <1>4, <1>5

LEMMA InStruct ==
  ASSUME Struct, NEW target \in Locals, In(target)
  PROVE  Struct'
<1> DEFINE i1 == Branch(target, Types, Last(lookups).next)
           i2 == Write(target, {CRY_REFERENCE})
<1>1. /\ Tip \in Nat /\ live' = {} /\ LookupsType(lookups) /\ target \in Symbols
      /\ lookups # <<>> /\ lookups' = [lookups EXCEPT ![Len(lookups)].pending = FALSE]
      /\ Emit(<<i1, i2>>) /\ (pc = Tip \/ pc < 0)
  BY TipNat, PendingEmpty DEF Struct, In, Symbols, Ready
<1>2. Stay
  BY <1>1, PendingStays
<1>3. Last(lookups).next \in Labels(lookups') /\ Last(lookups).next \in Int
      /\ Last(lookups).next < 0 /\ Last(lookups).next <= Tip
  BY <1>1, <1>2, NextLabels, ContinuesLabels DEF Stay
<1>4. Types \in SUBSET Types /\ {CRY_REFERENCE} \in SUBSET RT
  BY ConstantTypes
<1>5. Placed(i1, lookups', Tip) /\ Placed(i2, lookups', Tip)
  BY <1>1, <1>3, <1>4, JumpPlaced, PlainPlaced DEF Kinds
<1>6. states' \in [Symbols -> Filter]
  <2>1. Set(CRY_REFERENCE) \in Filter /\ Obscurity \in Filter
    BY FilterTypes, ConstantTypes
  <2> QED  BY <2>1 DEF In
<1> HIDE DEF i1, i2
<1>7. PICK is : is = <<i1, i2>>
  OBVIOUS
<1>8. is \in Seq(Instructions) /\ is # <<>> /\ \A j \in 1 .. Len(is) : Placed(is[j], lookups', Tip)
  <2>1. is \in Seq(Instructions) /\ Len(is) = 2 /\ is[1] = i1 /\ is[2] = i2 /\ is # <<>>
    BY <1>5, <1>7 DEF Placed
  <2>2. \A j \in 1 .. 2 : j = 1 \/ j = 2
    OBVIOUS
  <2> QED  BY <1>5, <2>1, <2>2
<1> QED  BY <1>1, <1>2, <1>6, <1>7, <1>8, EmitStruct DEF Stay

LEMMA JumpSequence ==
  ASSUME NEW lk, NEW n \in Nat, NEW to \in Int, to <= n, to < 0 => to \in Labels(lk)
  PROVE  <<Jump(to)>> \in Seq(Instructions) /\ \A j \in 1 .. Len(<<Jump(to)>>) : Placed(<<Jump(to)>>[j], lk, n)
<1>1. FirstRegister \in Symbols /\ Types \in SUBSET Types
  BY ConstantsAssumption DEF Symbols
<1>2. Placed(Jump(to), lk, n) /\ Jump(to) \in Instructions
  BY <1>1, JumpPlaced DEF Placed
<1>3. PICK i \in Instructions : i = Jump(to)
  BY <1>2
<1>4. <<i>> \in Seq(Instructions) /\ Len(<<i>>) = 1 /\ <<i>>[1] = i
  OBVIOUS
<1> QED  BY <1>2, <1>3, <1>4

LEMMA ElseStruct ==
  ASSUME Struct, Else \/ ElseIf_Pre
  PROVE  Struct'
<1> DEFINE from == Last(lookups)
<1>1. /\ pc = Tip \/ pc < 0
      /\ lookups # <<>> /\ from.back = 0 /\ from.next # from.block /\ ~Pending
      /\ LookupsType(lookups) /\ Tip \in Nat /\ UNCHANGED <<states, live>>
  BY TipNat DEF Else, ElseIf_Pre, Branched, Ready, Struct
<1>2. /\ from.next \in Int /\ from.next < 0 /\ from.block \in Labels(lookups)
      /\ from.block \in Int /\ from.block < 0
      /\ Len(lookups) \in Nat \ {0} /\ from = lookups[Len(lookups)] /\ from \in Lookups
  BY <1>1, NextLabels
<1>3. PICK next \in {from.next, from.block}, pending \in BOOLEAN :
        Place({from.next}, Extended(<<Jump(from.block)>>),
              [lookups EXCEPT ![Len(lookups)] =
                 [from EXCEPT !.next = next, !.corruptions = {}, !.pending = pending]])
  <2>1. CASE Else
    <3>1. [from EXCEPT !.next = from.block, !.corruptions = {}]
            = [from EXCEPT !.next = from.block, !.corruptions = {}, !.pending = from.pending]
      BY <1>2 DEF Lookups
    <3> QED  BY <1>2, <2>1, <3>1 DEF Else, Lookups
  <2>2. CASE ElseIf_Pre
    <3>1. [from EXCEPT !.corruptions = {}, !.pending = TRUE]
            = [from EXCEPT !.next = from.next, !.corruptions = {}, !.pending = TRUE]
      BY <1>2 DEF Lookups
    <3> QED  BY <2>2, <3>1 DEF ElseIf_Pre
  <2> QED  BY <2>1, <2>2
<1> DEFINE new == [from EXCEPT !.next = next, !.corruptions = {}, !.pending = pending]
           open == [lookups EXCEPT ![Len(lookups)] = new]
<1>4. /\ new \in Lookups /\ new.next = next /\ new.block = from.block /\ new.back = 0
  BY <1>1, <1>2 DEF Lookups
<1>5. {new.next, new.block} \subseteq {NextLabel(Len(lookups)), BlockLabel(Len(lookups))}
  BY <1>1, <1>2, <1>4 DEF LookupsType
<1> HIDE DEF new
<1>6. /\ LookupsType(open) /\ Len(open) = Len(lookups)
      /\ \A k \in 1 .. Len(lookups) : open[k] = IF k = Len(lookups) THEN new ELSE lookups[k]
  <2>1. Replaceable(lookups, new)
    BY <1>1, <1>4, <1>5 DEF Replaceable
  <2>2. Replaced(lookups, new, open)
    BY <2>1, TopReplaced
  <2> HIDE DEF open
  <2> QED  BY <2>2 DEF Replaced
<1> HIDE DEF open
<1>7. DOMAIN lookups = 1 .. Len(lookups) /\ DOMAIN open = 1 .. Len(lookups)
  BY <1>1, <1>6, LookupsElements
<1>8. Labels(lookups) \ {from.next} \subseteq Labels(open)
  <2>1. ASSUME NEW k \in 1 .. Len(lookups), NEW p \in {lookups[k].next, lookups[k].block}, p # from.next
        PROVE  p \in {open[k].next, open[k].block}
    <3>1. CASE k = Len(lookups)
      BY <1>2, <1>4, <1>6, <2>1, <3>1
    <3>2. CASE k # Len(lookups)
      BY <1>6, <2>1, <3>2
    <3> QED  BY <3>1, <3>2
  <2> QED  BY <1>7, <2>1 DEF Labels
<1>9. Behind(open, Tip)
  BY <1>1, <1>4, <1>6 DEF Behind, Struct, PlaceOK, Tip
<1>10. from.block <= Tip
  BY <1>1, <1>2
<1> QED  BY <1>1, <1>2, <1>3, <1>6, <1>8, <1>9, <1>10, JumpSequence, PlaceStruct DEF Struct, open, new

LEMMA EndStruct ==
  ASSUME Struct, End
  PROVE  Struct'
<1> DEFINE top == Last(lookups)
           open == SubSeq(lookups, 1, Len(lookups) - 1)
           is == IF top.back # 0 THEN <<Jump(top.back)>> ELSE <<>>
<1>1. /\ pc = Tip \/ pc < 0
      /\ lookups # <<>> /\ LookupsType(lookups) /\ Tip \in Nat /\ UNCHANGED live
      /\ Place({top.next, top.block}, Extended(is), open)
  BY TipNat DEF End, Struct
<1>2. states' \in [Symbols -> Filter]
  <2>1. states' = [x \in Symbols |-> IF x \in top.corruptions THEN Obscurity ELSE states[x]]
    BY DEF End
  <2> QED  BY <2>1, FilterTypes DEF Struct
<1>3. /\ Len(lookups) \in Nat \ {0} /\ top = lookups[Len(lookups)] /\ top \in Lookups
      /\ LookupsType(open) /\ Len(open) = Len(lookups) - 1
      /\ \A k \in 1 .. Len(lookups) - 1 : open[k] = lookups[k]
  BY <1>1, Popped
<1> HIDE DEF open
<1>4. DOMAIN lookups = 1 .. Len(lookups) /\ DOMAIN open = 1 .. Len(lookups) - 1
  BY <1>1, <1>3, LookupsElements
<1>5. \A k \in 1 .. Len(lookups) - 1 : k \in 1 .. Len(lookups)
  BY <1>3
<1>6. \A k \in 1 .. Len(lookups) : k \in 1 .. Len(lookups) - 1 \/ k = Len(lookups)
  BY <1>3
<1>7. Labels(lookups) \ {top.next, top.block} \subseteq Labels(open)
  BY <1>3, <1>4, <1>6 DEF Labels
<1>8. Behind(open, Tip)
  BY <1>1, <1>3, <1>5 DEF Behind, Struct, PlaceOK, Tip
<1>9. is \in Seq(Instructions) /\ \A j \in 1 .. Len(is) : Placed(is[j], lookups, Tip)
  <2>1. top.back \in Nat
    BY <1>3 DEF Lookups
  <2>2. top.back <= Tip
    <3>1. Len(lookups) \in 1 .. Len(lookups)
      BY <1>3
    <3> QED  BY <1>1, <1>3, <3>1 DEF Behind, Struct, PlaceOK, Tip
  <2>3. top.back \in Int /\ ~(top.back < 0)
    BY <2>1
  <2>4. <<Jump(top.back)>> \in Seq(Instructions)
        /\ \A j \in 1 .. Len(<<Jump(top.back)>>) : Placed(<<Jump(top.back)>>[j], lookups, Tip)
    BY <1>1, <2>2, <2>3, JumpSequence
  <2>5. <<>> \in Seq(Instructions) /\ \A j \in 1 .. Len(<<>>) : Placed(<<>>[j], lookups, Tip)
    BY EmptySeq
  <2> QED  BY <2>4, <2>5
<1> HIDE DEF is, top
<1> QED  BY <1>1, <1>2, <1>3, <1>7, <1>8, <1>9, PlaceStruct DEF Struct

LEMMA OtherStruct ==
  ASSUME Struct, Loop \/ End_Statement \/ End_Encode
  PROVE  Struct'
<1>1. Tip \in Nat /\ LookupsType(lookups) /\ Len(lookups) \in Nat /\ Tip = Len(code) + 1
  BY TipNat, LookupsElements DEF Struct, Tip
<1>2. CASE Loop
  <2> DEFINE to == NextLabel(Len(lookups) + 1)
             new == [back |-> Tip, next |-> to, block |-> to, corruptions |-> Symbols, pending |-> TRUE]
  <2>1. /\ lookups' = Append(lookups, new) /\ ~Pending /\ Len(lookups) < MaxNesting
        /\ pc = Tip \/ pc < 0
        /\ UNCHANGED <<states, live, code, pc, env>>
    BY <1>2 DEF Loop, Nested, Ready
  <2>2. new \in Lookups /\ new.back = Tip /\ new.next = to /\ new.block = to /\ new.corruptions = Symbols
    BY <1>1, PushLabel DEF Lookups
  <2> HIDE DEF new
  <2>3. Stay
    BY <1>1, <2>1, <2>2, PushStays DEF to
  <2>4. Labels(lookups) \subseteq Labels(lookups')
    BY <1>1, <2>3, ContinuesLabels DEF Stay
  <2>5. CodeType(code, lookups')
    BY <2>4 DEF Struct, PlaceOK, CodeType, Placed
  <2>6. PlaceOK(code', pc', lookups')
    BY <1>1, <2>1, <2>3, <2>4, <2>5 DEF Struct, PlaceOK, Stay
  <2>7. Looping(lookups')
    <3>1. Len(lookups') = Len(lookups) + 1 /\ lookups'[Len(lookups) + 1] = new
      BY <1>1, <2>1, <2>2 DEF LookupsType
    <3>2. Tip # 0 /\ Len(lookups) + 1 \in 1 .. Len(lookups) + 1
      BY <1>1 DEF Struct, PlaceOK, CodeType
    <3> QED  BY <2>2, <3>1, <3>2 DEF Looping
  <2> QED  BY <2>1, <2>3, <2>6, <2>7 DEF Struct, Idle, Stay
<1>3. CASE End_Statement
  BY <1>3 DEF End_Statement, Struct
<1>4. CASE End_Encode
  <2>1. lookups = <<>> /\ pc = Tip /\ UNCHANGED <<lookups, live, pc, env>>
    BY <1>4 DEF End_Encode
  <2>2. ~Looping(lookups) /\ pc \in Int
    BY <2>1, EmptySeq DEF Looping, Struct, PlaceOK
  <2>3. code = <<>> /\ pc = 1
    BY <1>1, <2>1, <2>2, EmptySeq DEF Struct, Idle
  <2> DEFINE r == FirstRegister
             store == Instruction("store", r, r)
             i1 == IF Only(states[r], CRY_REFERENCE) THEN store ELSE Write(r, {CRY_NIL})
             i2 == [Instruction("return", r, r) EXCEPT !.sneeds = {CRY_NIL}]
  <2>4. r \in Symbols
    BY ConstantsAssumption DEF Symbols
  <2>5. {CRY_NIL} \in SUBSET RT /\ {CRY_NIL} \in SUBSET Types /\ OperatorKinds # {} /\ CRY_NIL \in Types
    BY ConstantTypes DEF OperatorKinds
  <2>6. Placed(i1, lookups, 1)
    <3>1. Placed(store, lookups, 1)
      BY <2>4, InstructionFields DEF Kinds, Placed
    <3>2. Placed(Write(r, {CRY_NIL}), lookups, 1)
      BY <2>4, <2>5, PlainPlaced DEF Kinds
    <3> QED  BY <3>1, <3>2
  <2>7. Placed(i2, lookups, 1)
    <3>1. Placed(Instruction("return", r, r), lookups, 1)
      BY <2>4, InstructionFields DEF Kinds, Placed
    <3>2. r \in Symbols \cup Types /\ {} \in SUBSET RT /\ \E op : op \in OperatorKinds
      BY <2>4, <2>5
    <3>3. PICK i : i = Instruction("return", r, r)
      OBVIOUS
    <3>4. Placed([i EXCEPT !.sneeds = {CRY_NIL}], lookups, 1)
      BY <2>4, <2>5, <3>1, <3>2, <3>3, ChangedPlaced
    <3> QED  BY <3>3, <3>4
  <2>8. code' = <<i1, i2>> /\ states' = [states EXCEPT ![r] = Set(CRY_NIL)]
    BY <1>4 DEF End_Encode
  <2> HIDE DEF i1, i2
  <2>9. code' \in Seq(Instructions) /\ Len(code') = 2 /\ code'[1] = i1 /\ code'[2] = i2
    BY <2>6, <2>7, <2>8 DEF Placed
  <2>10. CodeType(code', lookups')
    <3>1. \A i : Placed(i, lookups, 1) => Placed(i, lookups, 3)
      <4>1. \A i \in Instructions : i.to \in Int
        BY DEF Instructions
      <4> QED  BY <4>1 DEF Placed
    <3>2. \A j \in 1 .. 2 : j = 1 \/ j = 2
      OBVIOUS
    <3> QED  BY <2>1, <2>6, <2>7, <2>9, <3>1, <3>2 DEF CodeType
  <2>11. states' \in [Symbols -> Filter]
    BY <2>5, <2>8, FilterTypes DEF Struct
  <2>12. PlaceOK(code', pc', lookups') /\ Idle(code', pc', lookups')
    <3>1. pc' = 1 /\ lookups' = <<>> /\ Len(code') = 2 /\ Len(lookups') = 0
      BY <2>1, <2>3, <2>9, EmptySeq
    <3>2. Behind(lookups', Len(code') + 1)
      BY <3>1 DEF Behind
    <3> QED  BY <2>10, <3>1, <3>2 DEF PlaceOK, Idle
  <2> QED  BY <2>1, <2>11, <2>12 DEF Struct
<1> QED  BY <1>2, <1>3, <1>4

LEMMA NextStruct ==
  ASSUME Struct, [Next]_vars
  PROVE  Struct'
<1>1. CASE UNCHANGED vars
  BY <1>1 DEF vars, Struct
<1>2. CASE Compile
  <2>1. ASSUME NEW v \in Symbols, If(v) \/ ElseIf(v) \/ While(v) \/ Return(v)
        PROVE  Struct'
    <3>1. pc = Tip \/ pc < 0
      BY <2>1 DEF If, ElseIf, While, Return, Nested, Ready
    <3> QED  BY <2>1, <3>1, BranchStruct
  <2>2. ASSUME \/ \E x \in Symbols, t \in Literals : Load(x, t)
               \/ \E x, y \in Symbols : Copy(x, y) \/ Swap(x, y)
               \/ \E r \in Registers : Not(r) \/ Call(r) \/ Make_Array(r) \/ Array_Index(r) \/ Get(r)
        PROVE  Struct'
    <3>1. pc = Tip \/ pc < 0
      BY <2>2 DEF Load, Copy, Swap, Not, Call, Make_Array, Array_Index, Get, Ready
    <3> QED  BY <2>2, <3>1, ValueStruct
  <2> QED  BY <1>2, <2>1, <2>2, OperatorStruct, InStruct, ElseStruct, EndStruct, OtherStruct
           DEF Compile
<1>3. CASE Run
  BY <1>3, RunStruct
<1> QED  BY <1>1, <1>2, <1>3 DEF Next

LEMMA InitStruct == Init => Struct
<1> SUFFICES ASSUME Init
             PROVE  Struct
  OBVIOUS
<1>1. env \in [Symbols -> RT] /\ states \in [Symbols -> Filter]
  BY FilterTypes, ConstantTypes DEF Init
<1>2. LookupsType(<<>>) /\ CodeType(<<>>, <<>>)
  BY EmptySeq, ConstantsAssumption DEF LookupsType, CodeType
<1> QED  BY <1>1, <1>2, EmptySeq DEF Init, Struct, PlaceOK, Idle, Behind

LEMMA Structured == Spec => []Struct
BY InitStruct, NextStruct, PTL DEF Spec

(* Type correctness, for every program: the filters are filters, the code  *)
(* holds instructions, what runs is of types that exist at run time, and   *)
(* only the innermost block waits for its condition (If .. End, Loop).     *)
THEOREM TypeCorrect == Spec => []TypeOK
BY Structured, StructImplies, PTL

(* Safety, for every program: a label that a jump or execution waits for   *)
(* is one that an open block will place (Else, ElseIf_Pre, End, Return).   *)
THEOREM JumpsAlwaysLand == Spec => []JumpsLand
BY Structured, StructImplies, PTL
=============================================================================
