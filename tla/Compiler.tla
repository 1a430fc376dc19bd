-------------------------------- MODULE Compiler --------------------------------
(***************************************************************************)
(* The code generator (Compiler.cpp) and the code it generates.  The       *)
(* compiler walks a function once, keeps a clarity filter per symbol       *)
(* (states) and emits the shortest code that works for the types in the    *)
(* filters.  Whether the filters cover what happens at run time is decided *)
(* over branches and back jumps, so the model compiles and executes in     *)
(* lock step: a method of the compiler appends its instructions, and       *)
(* compilation goes on once execution has run up to the end of the code,   *)
(* or waits for a label that is not placed yet.  Values are abstracted to  *)
(* their types, conditions to a free choice.                               *)
(*                                                                         *)
(* At run time CRY_STRING and CRY_ARRAY stand for a CRY_POINTER to such a  *)
(* block.  The register that holds a constant operand, the container of an *)
(* indexing and the loop counter in EBX are not represented; neither are   *)
(* objects.  Executed code is dropped as soon as no back jump reaches it.  *)
(* A helper that is called is taken to return, linked (Operators) or not.  *)
(*                                                                         *)
(* A definition commented as faulty is a variant of the one that follows,  *)
(* with a single plausible bug; the model does not use it, it serves to    *)
(* try whether the properties notice the bug.                              *)
(***************************************************************************)
EXTENDS ClarityFilter, Sequences, SequencesExt

CONSTANTS
  Locals,         (* the named symbols of the function                      *)
  Registers,      (* the symbols of intermediate results                    *)
  FirstRegister,  (* Addr_Reg(0)                                            *)
  Literals,       (* types of the constants of the program                  *)
  Values,         (* types of what calls return and containers hold         *)
  Operators,      (* the operators of the program, a subset of OperatorKinds*)
  MaxNesting,     (* bound on nested blocks                                 *)
  MaxCode,        (* bound on the instructions of an outermost loop         *)
  Allowed         (* what the program does, a subset of Habits              *)

(* Operators that generate alike: Sub stands for Mul and Pow as well, Les  *)
(* for the four comparisons, Eql for Dif, And for Or.                      *)
Arithmetic    == {"Add", "Sub", "Div", "Mod"}
OperatorKinds == Arithmetic \cup {"Les", "Eql", "And"}

(* What a program may do that the filters are not kept right for:          *)
(*   "else"       a branch that is followed by another one leaves a known  *)
(*                type in a symbol it assigned                             *)
(*   "condition"  the condition of a while loop reads a symbol whose type  *)
(*                is known before the loop                                 *)
(*   "compound"   x += y or x <> y changes the filter of x inside a block  *)
(*   "element"    a value is stored through the variable of a for loop, or *)
(*                an element is read again in the statement that stored it *)
(*   "swap"       an element is swapped with something                     *)
(*   "stale"      a register that last held an element is used again       *)
(*   "operand"    an element is an operand of an operator, or a condition  *)
(*   "not"        ! is applied to something of a known type, not a boolean *)
(*   "range"      an index is out of range                                 *)
Habits ==
  {"else", "condition", "compound", "element", "swap", "stale", "operand", "not", "range"}

Symbols == Locals \cup Registers

ASSUME ConstantsAssumption ==
  /\ Locals \cap Registers = {} /\ FirstRegister \in Registers
  /\ Symbols \cap Types = {}
  /\ Literals \subseteq {CRY_NIL, CRY_BOOL, CRY_INT, CRY_DOUBLE, CRY_TEXT}
  /\ Values \subseteq Types \ {CRY_REFERENCE, CRY_POINTER, CRY_CLASS_OBJ}
  /\ Operators \subseteq OperatorKinds /\ Allowed \subseteq Habits
  /\ MaxNesting \in Nat /\ MaxCode \in Nat

VARIABLES
  states,    (* clarity filter per symbol                                   *)
  lookups,   (* stack of open blocks                                        *)
  live,      (* registers that hold a result of the current statement       *)
  code,      (* instructions since the outermost open loop began            *)
  pc,        (* position in code, a label execution waits for, 0: returned  *)
  env        (* type of every symbol at run time                            *)

vars == <<states, lookups, live, code, pc, env>>
-----------------------------------------------------------------------------
(* Run time: what the types of the operands make of the result.            *)

(* Cry_Derefrence: an element may be anything.                             *)
Deref(t) == IF t = CRY_REFERENCE THEN Values ELSE {t}

Supported(op) ==
  CASE op = "Add" -> {CRY_BOOL, CRY_INT, CRY_DOUBLE, CRY_TEXT, CRY_STRING, CRY_ARRAY}
    [] op = "Sub" -> {CRY_BOOL, CRY_INT, CRY_DOUBLE}
    [] op = "Div" -> {CRY_INT, CRY_DOUBLE}
    [] op = "Mod" -> {CRY_INT}
    [] op = "Les" -> {CRY_INT, CRY_DOUBLE}
    [] OTHER      -> Types

(* The switch over the resolved type: NO_SUPPORT gives nil.                *)
Resolve(op, t) ==
  IF t \notin Supported(op) THEN CRY_NIL
  ELSE IF op \notin Arithmetic THEN CRY_BOOL
  ELSE IF t = CRY_TEXT THEN CRY_STRING ELSE t

(* Obscure_Less and its like: the type of dest decides.                    *)
Ordered(x, y) ==
  IF \/ x = CRY_INT /\ y = CRY_INT
     \/ x = CRY_DOUBLE /\ y <= CRY_DOUBLE
  THEN CRY_BOOL ELSE CRY_NIL

(* Obscure_* on dereferenced operands.  Only Obscure_Addition looks at nil *)
(* after it followed the references, and lets text win over nil.           *)
Combined(op, x, y, nil) ==
  LET t == Max({x, y}) IN
  CASE op = "Les" -> Ordered(x, y)
    [] op = "Add" -> IF t < CRY_TEXT /\ CRY_NIL \in {x, y} THEN CRY_NIL ELSE Resolve(op, t)
    [] OTHER      -> IF op \in Arithmetic /\ nil THEN CRY_NIL ELSE Resolve(op, t)

(* The types Obscure_* may leave in dest.  Some results are written to the *)
(* element that dest refers to: dest then stays a reference.               *)
Dynamic(op, d, s) ==
  LET results == {Combined(op, x, y, CRY_NIL \in {d, s}) : x \in Deref(d), y \in Deref(s)}
      missed  == IF op = "Add" THEN {CRY_NIL, CRY_DOUBLE} ELSE {CRY_NIL}
  IN  results \cup IF op \in Arithmetic /\ results \cap missed # {}
                   THEN {d} \cap {CRY_REFERENCE} ELSE {}
-----------------------------------------------------------------------------
(* Compile time: the filters of an operator's operands.                    *)

(* Faulty: takes a reference for a value.                                  *)
Static_blind(l, r) == Size(l) = 1 /\ Size(r) = 1

(* Every method picks static code when both filters have size 1 and        *)
(* neither is a lone reference.                                            *)
Static(l, r) ==
  /\ Size(l) = 1 /\ Size(r) = 1
  /\ ~Only(l, CRY_REFERENCE) /\ ~Only(r, CRY_REFERENCE)

(* A nil operand makes the result nil; for Add unless the other is a text. *)
Null_Op(op, l, r) ==
  LET both == l.flags \cup r.flags IN
  /\ op \in Arithmetic
  /\ CRY_NIL \in both
  /\ op = "Add" => both \cap {CRY_TEXT, CRY_STRING, CRY_POINTER} = {}

(* Faulty: stores the type byte only.                                      *)
Resolved_keep(f, t) == f

(* Runtime_Resovle: the filter, and the types for which skipping the store *)
(* of the type byte is right.                                              *)
Resolved(f, t)     == IF Size(f) = 1 /\ Test(f, t) THEN f ELSE Set(t)
ResolveNeeds(f, t) == IF Size(f) = 1 /\ Test(f, t) THEN {t} ELSE Types

(* The type that static code stores, and the filter it leaves.  The        *)
(* comparisons with a constant resolve to a boolean in any case.           *)
StaticResult(op, l, r, const) ==
  CASE Null_Op(op, l, r)    -> CRY_NIL
    [] op = "Les" /\ const -> CRY_BOOL
    [] OTHER                -> Resolve(op, Reduce(l, r))

StaticFilter(op, l, r, t) == IF Null_Op(op, l, r) THEN Set(CRY_NIL) ELSE Resolved(l, t)

(* Static code works on the one type in the filter, read from the symbol   *)
(* itself; once an element was combined with a value there are two, of     *)
(* which Reduce names the wrong one.                                       *)
Single(f) == IF Cardinality(f.flags) = 1 THEN f.flags \ {CRY_REFERENCE} ELSE {}

(* Faulty: the upper word is not moved for a text.                         *)
Carried_lower(f) ==
  {CRY_NIL} \cup
  IF Size(f) = 1 /\ Test(f, CRY_NIL) THEN {} ELSE
    {CRY_BOOL, CRY_INT}
    \cup (IF Test(f, CRY_DOUBLE) THEN {CRY_DOUBLE, CRY_INT64, CRY_TEXT} ELSE {})
    \cup (IF Order(f, CRY_POINTER) THEN CRY_REFERENCE .. CRY_CLASS_OBJ ELSE {})

(* The types whose words a Copy under filter f moves completely.           *)
Carried(f) ==
  {CRY_NIL} \cup
  IF Size(f) = 1 /\ Test(f, CRY_NIL) THEN {} ELSE
    {CRY_BOOL, CRY_INT}
    \cup (IF \E t \in {CRY_DOUBLE, CRY_INT64, CRY_TEXT} : Test(f, t)
          THEN {CRY_DOUBLE, CRY_INT64, CRY_TEXT} ELSE {})
    \cup (IF Order(f, CRY_POINTER) THEN CRY_REFERENCE .. CRY_CLASS_OBJ ELSE {})

(* The same for a Swap under filters l and r.                              *)
Swapped(l, r) ==
  {CRY_NIL, CRY_BOOL, CRY_INT}
  \cup (IF Order(l, CRY_INT64) \/ Order(r, CRY_INT64) \/ Order(l, CRY_TEXT)
        THEN {CRY_DOUBLE, CRY_INT64, CRY_TEXT} ELSE {})
  \cup (IF Order(l, CRY_POINTER) \/ Order(r, CRY_POINTER)
        THEN CRY_REFERENCE .. CRY_CLASS_OBJ ELSE {})

(* The types for which the test of a condition is right: the value word is *)
(* not read when the filter is nil, the type byte only when it may be nil. *)
(* What the value word of a pointer or a reference means is left open.     *)
Tested(f) ==
  IF ~Test(f, CRY_NIL) THEN Types \ {CRY_NIL}
  ELSE IF Size(f) = 1 THEN {CRY_NIL} ELSE Types

(* A return extends the returned block only when the filter has one.       *)
Returned(f) ==
  IF Order(f, CRY_POINTER) THEN Types ELSE CRY_NIL .. CRY_REFERENCE
-----------------------------------------------------------------------------
(* Instructions.  dneeds and sneeds are the run-time types of dest and src *)
(* that the instruction was selected for.                                  *)
Instruction(do, dest, src) ==
  [do |-> do, op |-> "", dest |-> dest, src |-> src,
   dneeds |-> Types, sneeds |-> Types, gives |-> {}, to |-> 0]

Write(dest, gives) == [Instruction("write", dest, dest) EXCEPT !.gives = gives]
Jump(to)           == [Instruction("jump", FirstRegister, FirstRegister) EXCEPT !.to = to]
Branch(v, needs, to) ==
  [Instruction("branch", v, v) EXCEPT !.sneeds = needs, !.to = to]

(* Labels are negative until they are placed.  A block owns the pair of    *)
(* its nesting depth; lable_id is reserved anew, and reused, by elsif.     *)
NextLabel(depth)  == -2 * depth
BlockLabel(depth) == -2 * depth - 1

InLoop == \E l \in Range(lookups) : l.back # 0
Tip    == Len(code) + 1

(* Compilation proceeds while execution is at the tip of the code or waits.*)
Ready == /\ pc = Tip \/ pc < 0
         /\ InLoop => Len(code) < MaxCode

(* Keep code only while a back jump may reach it.                          *)
Settle(c, p, open) ==
  LET idle == (p < 0 \/ p = Len(c) + 1) /\ \A l \in Range(open) : l.back = 0 IN
  /\ code' = IF idle THEN <<>> ELSE c
  /\ pc'   = IF idle /\ p > 0 THEN 1 ELSE p

(* The code with instructions appended, none when nothing can execute them.*)
Extended(is) == IF pc > 0 \/ InLoop THEN code \o is ELSE code
Emit(is)     == code' = Extended(is) /\ UNCHANGED <<pc, env>>

(* Place labels at the end of code c.                                      *)
Place(labels, c, open) ==
  /\ Settle([i \in DOMAIN c |-> IF c[i].to \in labels
                                 THEN [c[i] EXCEPT !.to = Len(c) + 1] ELSE c[i]],
            IF pc \in labels THEN Len(c) + 1 ELSE pc, open)
  /\ lookups' = open /\ UNCHANGED env

(* Faulty: marks the outermost block.                                      *)
Corrupt_outermost(x) ==
  lookups' = IF lookups = <<>> THEN <<>>
             ELSE [lookups EXCEPT ![1].corruptions = @ \cup {x}]

(* lookups.back().corruptions[x] = true                                    *)
Corrupt(x) ==
  lookups' = IF lookups = <<>> THEN <<>>
             ELSE [lookups EXCEPT ![Len(lookups)].corruptions = @ \cup {x}]

Readable == Locals \cup live
Pending  == lookups # <<>> /\ Last(lookups).pending
Disciplined(habit, ok) == habit \in Allowed \/ ok

(* The condition of a loop runs again after its body.                      *)
Reads(S) ==
  Disciplined("condition",
    Pending /\ Last(lookups).back # 0 =>
      \A s \in S : s \in live \/ states[s] = Obscurity)

(* A value with filter f is assigned to x: through x, if a lone reference. *)
Stores(x, f) ==
  LET through == Only(states[x], CRY_REFERENCE) IN
  /\ Disciplined("stale", x \in Registers \ live => ~through)
  /\ Disciplined("element", x \in Locals /\ through => f = Obscurity)
  /\ live' = IF through /\ x \in live /\ "element" \notin Allowed
             THEN live \ {x} ELSE live \cup ({x} \cap Registers)

(* A register is overwritten with a result.                                *)
Results(r, f) == /\ states' = [states EXCEPT ![r] = f]
                 /\ live' = live \cup {r}

(* An operator or a swap does not mark the symbol as corrupted.            *)
Unmarked(x, f) ==
  Disciplined("compound",
    x \in Locals /\ lookups # <<>> => f \in {states[x], Obscurity})
-----------------------------------------------------------------------------
(* The compiler's methods: values.                                         *)

(* Load, or Ref_Load when the filter is a lone reference: the stored type  *)
(* then goes to the element, but states[x] takes it all the same.          *)
Load(x, t) ==
  /\ Ready /\ Stores(x, Set(t))
  /\ IF Only(states[x], CRY_REFERENCE)
     THEN Emit(<<[Instruction("store", x, x) EXCEPT !.dneeds = {CRY_REFERENCE}]>>)
     ELSE Emit(<<Write(x, {t})>>)
  /\ states' = [states EXCEPT ![x] = Set(t)]
  /\ Corrupt(x)

Copy(dest, source) ==
  LET lone == Only(states[source], CRY_REFERENCE)
      new  == IF lone THEN Obscurity ELSE states[source]
  IN
  /\ Ready /\ dest # source /\ source \in Readable
  /\ Reads({source}) /\ Stores(dest, new)
  /\ IF lone \/ Only(states[dest], CRY_REFERENCE)
     THEN Emit(<<Instruction("copy_ref", dest, source)>>)
     ELSE Emit(<<[Instruction("copy", dest, source)
                   EXCEPT !.sneeds = Carried(states[source])]>>)
  /\ states' = [states EXCEPT ![dest] = new]
  /\ Corrupt(dest)

Swap(dest, source) ==
  LET moved == Swapped(states[dest], states[source]) IN
  /\ Ready /\ dest # source /\ {dest, source} \subseteq Readable
  /\ Reads({dest, source})
  /\ Unmarked(dest, states[source]) /\ Unmarked(source, states[dest])
  /\ Disciplined("swap", \A x \in {dest, source} : ~Only(states[x], CRY_REFERENCE))
  /\ Emit(<<[Instruction("swap", dest, source) EXCEPT !.dneeds = moved, !.sneeds = moved]>>)
  /\ states' = [states EXCEPT ![dest] = states[source], ![source] = states[dest]]
  /\ UNCHANGED <<lookups, live>>

(* Not leaves the filter alone.                                            *)
Not(r) ==
  /\ Ready /\ r \in live
  /\ Disciplined("not", states[r] \in {Obscurity, Set(CRY_BOOL), Set(CRY_NIL)})
  /\ Emit(<<Instruction("not", r, r)>>)
  /\ UNCHANGED <<states, lookups, live>>

(* Add .. GtrEqlC: source is a symbol or the type of a constant.  dest     *)
(* holds the left operand, or is the variable of a compound assignment.    *)
Operator(op, dest, source) ==
  LET const == source \notin Symbols
      l     == states[dest]
      r     == IF const THEN Set(source) ELSE states[source]
      both  == Combind(l, r)
      t     == StaticResult(op, l, r, const)
  IN
  /\ Ready /\ Reads({dest, source} \cap Symbols)
  /\ dest \in live \ {source} \/ (dest \in Locals /\ op \in Arithmetic)
  /\ CASE op = "And" ->
            /\ Unmarked(dest, Resolved(l, CRY_BOOL))
            /\ Emit(<<[Write(dest, {CRY_BOOL}) EXCEPT !.dneeds = ResolveNeeds(l, CRY_BOOL)]>>)
            /\ states' = [states EXCEPT ![dest] = Resolved(l, CRY_BOOL)]
       [] op # "And" /\ Static(l, r) ->
            /\ Unmarked(dest, StaticFilter(op, l, r, t))
            /\ Emit(<<[Write(dest, {t}) EXCEPT !.src = source, !.dneeds = Single(l),
                                               !.sneeds = Single(r)]>>)
            /\ states' = [states EXCEPT ![dest] = StaticFilter(op, l, r, t)]
       [] OTHER ->
            /\ Unmarked(dest, both)
            /\ Disciplined("operand", both = Obscurity)
            /\ Emit(<<[Instruction("obscure", dest, source) EXCEPT !.op = op]>>)
            /\ states' = [x \in Symbols |-> IF x \in {dest, source} THEN both ELSE states[x]]
  /\ UNCHANGED <<lookups, live>>

(* Runtime and Call: a function may return anything, an element as well.   *)
Call(r) ==
  /\ Ready /\ Results(r, Obscurity)
  /\ Emit(<<Write(r, Values \cup {CRY_REFERENCE})>>)
  /\ UNCHANGED lookups

(* Make_Array and Make_Range.                                              *)
Make_Array(r) ==
  /\ Ready /\ Results(r, Set(CRY_ARRAY)) /\ Corrupt(r)
  /\ Emit(<<Write(r, {CRY_ARRAY})>>)

(* Array_Index and Array_Index_C: nil when the index is out of range.      *)
Array_Index(r) ==
  /\ Ready /\ Results(r, Set(CRY_REFERENCE)) /\ Corrupt(r)
  /\ Emit(<<Write(r, {CRY_REFERENCE} \cup IF "range" \in Allowed THEN {CRY_NIL} ELSE {})>>)

(* Get: an attribute of an object.                                         *)
Get(r) ==
  /\ Ready /\ Results(r, Set(CRY_REFERENCE))
  /\ Emit(<<Write(r, {CRY_REFERENCE})>>)
  /\ UNCHANGED lookups

(* The registers are free again at the end of a statement.                 *)
End_Statement ==
  /\ Ready /\ ~Pending /\ live # {} /\ live' = {}
  /\ UNCHANGED <<states, lookups, code, pc, env>>
-----------------------------------------------------------------------------
(* The compiler's methods: blocks.                                         *)

Nested == /\ Ready /\ ~Pending /\ Len(lookups) < MaxNesting

Test_Condition(v, to) ==
  /\ Reads({v}) /\ v \in Readable
  /\ Disciplined("operand", ~Only(states[v], CRY_REFERENCE))
  /\ Emit(<<Branch(v, Tested(states[v]), to)>>)
  /\ live' = {}

If(v) ==
  LET depth == Len(lookups) + 1 IN
  /\ Nested /\ Test_Condition(v, NextLabel(depth))
  /\ lookups' = Append(lookups,
       [back |-> 0, next |-> NextLabel(depth), block |-> BlockLabel(depth),
        corruptions |-> {}, pending |-> FALSE])
  /\ UNCHANGED states

(* The symbols that the branch just compiled has assigned keep their       *)
(* filters, and are not obscured at the end of the statement.              *)
Branched ==
  /\ Ready /\ ~Pending /\ live = {} /\ lookups # <<>>
  /\ Last(lookups).back = 0 /\ Last(lookups).next # Last(lookups).block
  /\ Disciplined("else",
       \A x \in Locals \cap Last(lookups).corruptions : states[x] = Obscurity)

Else ==
  LET from == Last(lookups) IN
  /\ Branched
  /\ Place({from.next}, Extended(<<Jump(from.block)>>),
       [lookups EXCEPT ![Len(lookups)] =
          [from EXCEPT !.next = from.block, !.corruptions = {}]])
  /\ UNCHANGED <<states, live>>

ElseIf_Pre ==
  LET from == Last(lookups) IN
  /\ Branched
  /\ Place({from.next}, Extended(<<Jump(from.block)>>),
       [lookups EXCEPT ![Len(lookups)] =
          [from EXCEPT !.corruptions = {}, !.pending = TRUE]])
  /\ UNCHANGED <<states, live>>

ElseIf(v) ==
  /\ Ready /\ Pending /\ Last(lookups).back = 0
  /\ Test_Condition(v, Last(lookups).next)
  /\ lookups' = [lookups EXCEPT ![Len(lookups)].pending = FALSE]
  /\ UNCHANGED states

Loop ==
  LET depth == Len(lookups) + 1 IN
  /\ Nested /\ live = {} /\ MaxCode > 0
  /\ lookups' = Append(lookups,
       [back |-> Tip, next |-> NextLabel(depth), block |-> NextLabel(depth),
        corruptions |-> Symbols, pending |-> TRUE])
  /\ UNCHANGED <<states, live, code, pc, env>>

(* Faulty: keeps the filters.                                              *)
While_keep(v) ==
  /\ Ready /\ Pending /\ Last(lookups).back # 0
  /\ Reads({v}) /\ v \in Readable
  /\ Emit(<<Branch(v, Types, Last(lookups).next)>>)
  /\ live' = {}
  /\ lookups' = [lookups EXCEPT ![Len(lookups)].pending = FALSE]
  /\ UNCHANGED states

(* The filters are obscured after the condition was compiled.              *)
While(v) ==
  /\ Ready /\ Pending /\ Last(lookups).back # 0
  /\ Reads({v}) /\ v \in Readable
  /\ Emit(<<Branch(v, Types, Last(lookups).next)>>)
  /\ live' = {}
  /\ lookups' = [lookups EXCEPT ![Len(lookups)].pending = FALSE]
  /\ states' = [x \in Symbols |-> Obscurity]

In(target) ==
  /\ Ready /\ Pending /\ Last(lookups).back # 0
  /\ Emit(<<Branch(target, Types, Last(lookups).next), Write(target, {CRY_REFERENCE})>>)
  /\ live' = {}
  /\ lookups' = [lookups EXCEPT ![Len(lookups)].pending = FALSE]
  /\ states' = [x \in Symbols |-> IF x = target THEN Set(CRY_REFERENCE) ELSE Obscurity]

(* Faulty: places the label of the last branch only.                       *)
End_single ==
  LET top == Last(lookups) IN
  /\ pc = Tip \/ pc < 0
  /\ ~Pending /\ live = {} /\ lookups # <<>>
  /\ Place({top.next},
           Extended(IF top.back # 0 THEN <<Jump(top.back)>> ELSE <<>>),
           SubSeq(lookups, 1, Len(lookups) - 1))
  /\ states' = [x \in Symbols |-> IF x \in top.corruptions THEN Obscurity ELSE states[x]]
  /\ UNCHANGED live

(* Faulty: does not obscure.                                               *)
End_keep ==
  LET top == Last(lookups) IN
  /\ pc = Tip \/ pc < 0
  /\ ~Pending /\ live = {} /\ lookups # <<>>
  /\ Place({top.next, top.block},
           Extended(IF top.back # 0 THEN <<Jump(top.back)>> ELSE <<>>),
           SubSeq(lookups, 1, Len(lookups) - 1))
  /\ UNCHANGED <<states, live>>

End ==
  LET top == Last(lookups) IN
  /\ pc = Tip \/ pc < 0
  /\ ~Pending /\ live = {} /\ lookups # <<>>
  /\ Place({top.next, top.block},
           Extended(IF top.back # 0 THEN <<Jump(top.back)>> ELSE <<>>),
           SubSeq(lookups, 1, Len(lookups) - 1))
  /\ states' = [x \in Symbols |-> IF x \in top.corruptions THEN Obscurity ELSE states[x]]
  /\ UNCHANGED live

Return(v) ==
  /\ Ready /\ ~Pending /\ v \in Readable
  /\ Emit(<<[Instruction("return", v, v) EXCEPT !.sneeds = Returned(states[v])]>>)
  /\ live' = {}
  /\ UNCHANGED <<states, lookups>>

(* End_Encode: the implicit return loads nil into the first register and   *)
(* hands out its type byte.                                                *)
End_Encode ==
  /\ lookups = <<>> /\ live = {} /\ pc = Tip
  /\ Disciplined("stale", ~Only(states[FirstRegister], CRY_REFERENCE))
  /\ code' = <<IF Only(states[FirstRegister], CRY_REFERENCE)
               THEN Instruction("store", FirstRegister, FirstRegister)
               ELSE Write(FirstRegister, {CRY_NIL}),
               [Instruction("return", FirstRegister, FirstRegister)
                 EXCEPT !.sneeds = {CRY_NIL}]>>
  /\ states' = [states EXCEPT ![FirstRegister] = Set(CRY_NIL)]
  /\ UNCHANGED <<lookups, live, pc, env>>
-----------------------------------------------------------------------------
(* Execution.                                                              *)

Running == pc \in DOMAIN code
TypeOf(s) == IF s \in Symbols THEN env[s] ELSE s

This == code[pc]

(* The emitted code is right for the types it meets: no instruction runs   *)
(* on a symbol whose run-time type it was not selected for.                *)
CodeSound ==
  Running => env[This.dest] \in This.dneeds /\ TypeOf(This.src) \in This.sneeds

(* What follows unsound code is undefined.                                 *)
Execute(do) == Running /\ This.do = do /\ CodeSound
Goto(p) == Settle(code, p, lookups) /\ UNCHANGED <<states, lookups, live>>
Yields(x, results) == \E t \in results : env' = [env EXCEPT ![x] = t]

Run_Write    == Execute("write") /\ Yields(This.dest, This.gives) /\ Goto(pc + 1)
Run_Store    == Execute("store") /\ UNCHANGED env /\ Goto(pc + 1)
Run_Copy     == Execute("copy") /\ Yields(This.dest, {env[This.src]}) /\ Goto(pc + 1)
Run_Jump     == Execute("jump") /\ UNCHANGED env /\ Goto(This.to)
Run_Branch   == Execute("branch") /\ UNCHANGED env /\ (Goto(pc + 1) \/ Goto(This.to))

(* Copy_Ref follows a reference on either side.                            *)
Run_Copy_Ref ==
  /\ Execute("copy_ref")
  /\ Yields(This.dest, IF env[This.dest] = CRY_REFERENCE THEN {CRY_REFERENCE} ELSE Deref(env[This.src]))
  /\ Goto(pc + 1)

Run_Swap ==
  /\ Execute("swap")
  /\ env' = [env EXCEPT ![This.dest] = env[This.src], ![This.src] = env[This.dest]]
  /\ Goto(pc + 1)

(* Obscure_Not                                                             *)
Run_Not ==
  /\ Execute("not")
  /\ Yields(This.dest, {IF env[This.dest] = CRY_NIL THEN CRY_NIL ELSE CRY_BOOL})
  /\ Goto(pc + 1)

Run_Obscure ==
  /\ Execute("obscure")
  /\ Yields(This.dest, Dynamic(This.op, env[This.dest], TypeOf(This.src)))
  /\ Goto(pc + 1)

Run_Return ==
  /\ Execute("return")
  /\ pc' = 0 /\ code' = <<>>
  /\ UNCHANGED <<states, lookups, live, env>>
-----------------------------------------------------------------------------
(* Start_Encode                                                            *)
Init ==
  /\ states = [x \in Symbols |-> Obscurity]
  /\ lookups = <<>> /\ live = {} /\ code = <<>> /\ pc = 1
  /\ env \in [Symbols -> Values \cup {CRY_REFERENCE}]

Compile ==
  \/ \E x \in Symbols, t \in Literals : Load(x, t)
  \/ \E x, y \in Symbols : Copy(x, y) \/ Swap(x, y)
  \/ \E op \in Operators, x \in Symbols, y \in Readable \cup Literals : Operator(op, x, y)
  \/ \E r \in Registers : Not(r) \/ Call(r) \/ Make_Array(r) \/ Array_Index(r) \/ Get(r)
  \/ \E v \in Symbols : If(v) \/ ElseIf(v) \/ While(v) \/ Return(v)
  \/ \E x \in Locals : In(x)
  \/ Else \/ ElseIf_Pre \/ Loop \/ End \/ End_Statement \/ End_Encode

Run ==
  \/ Run_Write \/ Run_Store \/ Run_Copy \/ Run_Copy_Ref \/ Run_Swap
  \/ Run_Not \/ Run_Obscure \/ Run_Jump \/ Run_Branch \/ Run_Return

Next == Compile \/ Run

Spec == Init /\ [][Next]_vars
-----------------------------------------------------------------------------
Kinds ==
  {"write", "store", "copy", "copy_ref", "swap", "not", "obscure", "jump", "branch", "return"}

Instructions ==
  [do : Kinds, op : OperatorKinds \cup {""}, dest : Symbols, src : Symbols \cup Types,
   dneeds : SUBSET Types, sneeds : SUBSET Types, gives : SUBSET Types, to : Int]

Lookups ==
  [back : Nat, next : Int, block : Int, corruptions : SUBSET Symbols, pending : BOOLEAN]

(* Type invariant: the filters are filters, the filters' types exist at    *)
(* run time, and only the innermost open block waits for its condition.    *)
TypeOK ==
  /\ states \in [Symbols -> Filter]
  /\ lookups \in Seq(Lookups) /\ Len(lookups) <= MaxNesting
  /\ \A n \in 1 .. Len(lookups) - 1 : ~lookups[n].pending
  /\ live \subseteq Registers
  /\ code \in Seq(Instructions)
  /\ pc \in Int /\ pc <= Tip
  /\ env \in [Symbols -> Types \ {CRY_POINTER, CRY_CLASS_OBJ}]

(* The types a filter promises; Val_Binding leaves nil for an index out of *)
(* range, which everything that handles a lone reference looks for.        *)
Admits(f) == f.flags \cup IF Only(f, CRY_REFERENCE) THEN {CRY_NIL} ELSE {}

(* Clarity filters keep track of all possible states a symbol can take:    *)
(* whenever execution reaches the point where the compiler is, the type of *)
(* every variable, and of every result in use, is in its filter.           *)
FiltersCover ==
  pc = Tip => \A s \in Readable : env[s] \in Admits(states[s])

(* Every forward jump lands: a label that a kept instruction or execution  *)
(* still waits for is one that an open block will place.                   *)
JumpsLand ==
  LET open == UNION {{l.next, l.block} : l \in Range(lookups)} IN
  /\ pc < 0 => pc \in open
  /\ \A i \in Range(code) : i.to < 0 => i.to \in open
=============================================================================
