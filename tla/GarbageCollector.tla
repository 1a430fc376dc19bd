---------------------------- MODULE GarbageCollector ----------------------------
(***************************************************************************)
(* The runtime's garbage collector (Garbage_Collector.cpp) together with   *)
(* the compiled code and the native helpers that drive it: a compiled      *)
(* function opens a generation on entry (GC_Branch), every string, array   *)
(* and object is constructed through GC_Allocate, which may first run a    *)
(* mark and sweep over all open generations, and a return extends the      *)
(* returned block and closes the generation (GC_Extend_Generation,         *)
(* GC_Collect).                                                            *)
(*                                                                         *)
(* The payload of a container is the set of blocks its elements point to;  *)
(* scalars, order, size and capacity do not matter to the collector.  Of   *)
(* the order of used_blocks only its head matters, because the sweep       *)
(* starts at ++used_blocks.begin(): the list is a set and its head.        *)
(*                                                                         *)
(* A definition commented as faulty is a variant of the one that follows,  *)
(* with a single plausible bug; the model does not use it, it serves to    *)
(* try whether the properties notice the bug.                              *)
(***************************************************************************)
EXTENDS Integers, FiniteSets, Sequences

CONSTANTS
  Blocks,         (* addresses the C heap can hand out for blocks           *)
  Slots,          (* symbols of a stack frame: locals and registers         *)
  NoBlock,        (* head of an empty used_blocks                           *)
  NilValue,       (* a symbol that is neither a pointer nor a reference     *)
  USAGE_LIMIT,    (* Config.h: blocks in use that trigger a collection      *)
  GROWTH_RATE,    (* Config.h: growth of that limit                         *)
  MAX_FREE_LIST,  (* Config.h: blocks kept on the free list                 *)
  MaxDepth,       (* bound on open generations and on nested forks          *)
  Allowed         (* what the compiled program does, a subset of Habits     *)

(* Ways for a program to hold blocks that the collector treats unlike a    *)
(* pointer in a local variable:                                            *)
(*   "pinned"     the first block ever allocated holds pointers            *)
(*   "returned"   a returned container holds pointers                      *)
(*   "object"     an attribute of an object is a pointer                   *)
(*   "reference"  an element reference is used while no variable holds its *)
(*                container: a temporary container, or return a[0]         *)
(*   "fork"       a container that holds pointers is forked                *)
Habits == {"pinned", "returned", "object", "reference", "fork"}

Pointers   == [tag : {"POINTER"}, sym : Blocks]
References == [tag : {"REFERENCE"}, sym : Blocks]
Value      == Pointers \cup References \cup {NilValue}
Pointer(b)   == [tag |-> "POINTER", sym |-> b]
Reference(b) == [tag |-> "REFERENCE", sym |-> b]

ASSUME ConstantsAssumption ==
  /\ IsFiniteSet(Blocks) /\ NoBlock \notin Blocks
  /\ NilValue \notin Pointers \cup References
  /\ USAGE_LIMIT \in Nat /\ MAX_FREE_LIST \in Nat /\ MaxDepth \in Nat \ {0}
  /\ GROWTH_RATE \in Nat \ {0}
  /\ Allowed \subseteq Habits

VARIABLES
  used_blocks,    (* the set of the blocks on GC::used_blocks               *)
  first,          (* the head of GC::used_blocks                            *)
  free_blocks,    (* the blocks on GC::free_blocks                          *)
  sweep,          (* the blocks whose sweep flag is set                     *)
  type,           (* the type of each used block, "NIL" for the others      *)
  elems,          (* the blocks the payload of each used block points to    *)
  gen_cap,        (* GC::gen_cap                                            *)
  generations,    (* GC::generations: the frames, oldest first              *)
  forks,          (* the activations of Crystal_Fork, outermost first       *)
  spared,         (* history: garbage that survived the last collection     *)
  leaked          (* history: garbage that survived two collections in a row*)

history == <<spared, leaked>>
gcVars  == <<used_blocks, first, free_blocks, sweep, type, elems, gen_cap, history>>
vars    == <<gcVars, generations, forks>>

Frame == generations[Len(generations)]
Held  == {generations[i][s] : i \in 1 .. Len(generations), s \in Slots}

PointedTo    == {b \in Blocks : Pointer(b) \in Held}
ReferencedTo == {b \in Blocks : Reference(b) \in Held}
Copying      == UNION {forks[i].buffer \cup {forks[i].src} : i \in 1 .. Len(forks)}

(* GC::Mark from every root: a block whose flag is already set is not      *)
(* entered, and only the elements of arrays are followed.                  *)
Traced_flat(b) == {}               \* faulty: elements are not followed
Traced(b) == IF b \notin sweep /\ type[b] = "ARRAY" THEN elems[b] ELSE {}
Marked_callee ==                   \* faulty: only the running frame is a root
  {b \in Blocks : \A S \in SUBSET Blocks :
     /\ {c \in Blocks : \E s \in Slots : Frame[s] = Pointer(c)} \subseteq S
     /\ \A c \in S : Traced(c) \subseteq S
     => b \in S}
Marked_callers ==                  \* faulty: the running frame is not a root
  {b \in Blocks : \A S \in SUBSET Blocks :
     /\ {c \in Blocks : \E i \in 1 .. Len(generations) - 1, s \in Slots :
            generations[i][s] = Pointer(c)} \subseteq S
     /\ \A c \in S : Traced(c) \subseteq S
     => b \in S}
Marked ==
  {b \in Blocks : \A S \in SUBSET Blocks :
     PointedTo \subseteq S /\ (\A c \in S : Traced(c) \subseteq S) => b \in S}

(* What the program can still get at, by any kind of value.                *)
Reachable ==
  {b \in Blocks : \A S \in SUBSET Blocks :
     /\ PointedTo \cup ReferencedTo \cup Copying \subseteq S
     /\ \A c \in S : elems[c] \subseteq S
     => b \in S}

(* Safety, the promise of the README that memory is managed automatically: *)
(* no block the program can still reach has been swept by GC::Collect.     *)
NoDangling == Reachable \subseteq used_blocks

---------------------------------------------------------------------------
(* The habits of the program, as conditions on what it does next.          *)

MayHold(b) ==
  /\ b = first => "pinned" \in Allowed
  /\ b \in sweep => "returned" \in Allowed
  /\ type[b] = "CLASS_OBJ" => "object" \in Allowed
MayAllocate == "reference" \in Allowed \/ ReferencedTo \subseteq PointedTo
MayReturn(v) ==
  /\ v \in References => "reference" \in Allowed
  /\ v \in Pointers /\ elems[v.sym] # {} => "returned" \in Allowed
MayFork(b) == elems[b] # {} => "fork" \in Allowed
---------------------------------------------------------------------------
(* GC::Allocate and GC::Collect. *)

(* What a collection keeps: the head of the list, which the sweep skips,   *)
(* blocks extended since the last one, and what the roots lead to.         *)
Trigger   == Cardinality(used_blocks) > gen_cap
Kept      == used_blocks \cap ({first} \cup sweep \cup Marked)
Survivors == IF Trigger THEN Kept ELSE used_blocks

(* The sweep clears the flag of every block but the head.                  *)
Flags_stuck == Survivors \cap (sweep \cup Marked)   \* faulty: never cleared
Flags == IF Trigger THEN {first} \cap (sweep \cup Marked) ELSE sweep

(* Swept blocks go to the free list until it is full; free_blocks after    *)
(* the collection is one of these sets.                                    *)
FreeLists(dead) ==
  {free_blocks \cup P : P \in
     {P \in SUBSET dead :
        Cardinality(free_blocks) + Cardinality(P)
          = IF Cardinality(free_blocks) + Cardinality(dead) <= MAX_FREE_LIST
              THEN Cardinality(free_blocks) + Cardinality(dead) ELSE MAX_FREE_LIST}}

(* A block is taken from the free list if there is one.                    *)
Popped_top(available, b) == available     \* faulty: top without pop
Popped(available, b)     == available \ {b}

(* GC_Allocate hands out block b, which the caller constructs with type t  *)
(* and payload E; x is the block whose flag a copied object brings along,  *)
(* NoBlock for the other constructors.                                     *)
Allocate(b, t, E, x) ==
  LET alive == Survivors IN
  /\ MayAllocate
  /\ \E available \in FreeLists(used_blocks \ alive) :
       /\ b \in IF available # {} THEN available ELSE Blocks \ alive
       /\ free_blocks' = Popped(available, b)
  /\ used_blocks' = alive \cup {b}
  /\ first' = IF used_blocks = {} THEN b ELSE first
  /\ sweep' = IF x \in Flags THEN Flags \cup {b} ELSE Flags
  /\ type'  = [c \in Blocks |-> IF c = b THEN t ELSE IF c \in alive THEN type[c] ELSE "NIL"]
  /\ elems' = [c \in Blocks |-> IF c = b THEN E ELSE IF c \in alive THEN elems[c] ELSE {}]
  /\ gen_cap' = IF Trigger /\ Cardinality(alive) * 5 > gen_cap * 4
                  THEN gen_cap * GROWTH_RATE ELSE gen_cap
  /\ spared' = IF Trigger THEN alive \ (Reachable \cup {first}) ELSE spared
  /\ leaked' = leaked \cup (IF Trigger THEN spared \cap spared' ELSE {})

---------------------------------------------------------------------------
(* What compiled code and the native helpers do with the symbols of the    *)
(* running function's frame.                                               *)

Set(s, v) == generations' = [generations EXCEPT ![Len(generations)][s] = v]

(* What reading a symbol yields: an element reference is followed, and the *)
(* element may be a scalar.                                                *)
Read(v) ==
  IF v \in References THEN {Pointer(c) : c \in elems[v.sym]} \cup {NilValue} ELSE {v}
Target(v) == IF v \in Pointers THEN {v.sym} ELSE {}
IsContainer(b) == type[b] \in {"ARRAY", "CLASS_OBJ"}

Construct_String(s) ==
  \E b \in Blocks :
    Allocate(b, "STRING", {}, NoBlock) /\ Set(s, Pointer(b)) /\ UNCHANGED forks

(* An array literal: the buffer is filled from the frame's symbols before  *)
(* GC_Allocate is called.  Construct_Range is the case E = {}.             *)
Construct_Array(s) ==
  \E b \in Blocks, E \in SUBSET {c \in Blocks : \E t \in Slots : Frame[t] = Pointer(c)} :
    Allocate(b, "ARRAY", E, NoBlock) /\ Set(s, Pointer(b)) /\ UNCHANGED forks

Construct_Class(s) ==
  \E b \in Blocks :
    Allocate(b, "CLASS_OBJ", {}, NoBlock) /\ Set(s, Pointer(b)) /\ UNCHANGED forks

(* Appending builds a new array; the result replaces the array's symbol or *)
(* goes to another one.                                                    *)
Crystal_Array_Append(s, a, t) ==
  /\ Frame[a] \in Pointers /\ type[Frame[a].sym] = "ARRAY"
  /\ \E b \in Blocks, v \in Read(Frame[t]) :
       Allocate(b, "ARRAY", elems[Frame[a].sym] \cup Target(v), NoBlock) /\ Set(s, Pointer(b))
  /\ UNCHANGED forks

(* Clone_Class copies the whole block of an object, its flag included.     *)
FlagSource(b) == IF type[b] = "CLASS_OBJ" THEN b ELSE NoBlock

(* clone copies one level.                                                 *)
Crystal_Clone(s, t) ==
  \E v \in Read(Frame[t]) :
    /\ v \in Pointers
    /\ \E b \in Blocks :
         /\ Allocate(b, type[v.sym], elems[v.sym], FlagSource(v.sym))
         /\ Set(s, Pointer(b))
    /\ UNCHANGED forks

(* s = <const>, and s = t, which reads through a reference unless the      *)
(* compiler did not expect one: the result of a call.                      *)
Copy(s, t) ==
  /\ \E v \in Read(Frame[t]) \cup {Frame[t], NilValue} :
       (v \in References => "reference" \in Allowed) /\ Set(s, v)
  /\ UNCHANGED <<gcVars, forks>>

(* s becomes a reference to an element of the container in t, or nil when  *)
(* the index is out of range.                                              *)
Val_Binding(s, t) ==
  /\ \E v \in Read(Frame[t]) :
       /\ v \in Pointers /\ IsContainer(v.sym)
       /\ \E r \in {Reference(v.sym), NilValue} : Set(s, r)
  /\ UNCHANGED <<gcVars, forks>>

(* The element that symbol s refers to is overwritten with what t reads.   *)
Copy_Ref(s, t) ==
  /\ Frame[s] \in References
  /\ LET b == Frame[s].sym IN
     \E v \in Read(Frame[t]) \cup {NilValue}, old \in SUBSET elems[b] :
       /\ Cardinality(old) <= 1
       /\ v \in Pointers => MayHold(b)
       /\ elems' = [elems EXCEPT ![b] = (@ \ old) \cup Target(v)]
  /\ UNCHANGED <<used_blocks, first, free_blocks, sweep, type, gen_cap, history>>
  /\ UNCHANGED <<generations, forks>>

---------------------------------------------------------------------------
(* Function entry and return. *)

(* The callee's frame is cleared, the arguments are copied, and GC_Branch  *)
(* opens its generation and resets the limit.                              *)
Call ==
  /\ Len(generations) < MaxDepth
  /\ \E args \in [Slots -> {Frame[s] : s \in Slots} \cup {NilValue}] :
       generations' = Append(generations, args)
  /\ gen_cap' = USAGE_LIMIT
  /\ UNCHANGED <<used_blocks, first, free_blocks, sweep, type, elems, history, forks>>

Pop == SubSeq(generations, 1, Len(generations) - 1)

(* return s, into symbol t of the caller: the block is extended, then the  *)
(* generation is pruned.                                                   *)
Return(s, t) ==
  /\ Len(generations) > 1
  /\ MayReturn(Frame[s])
  /\ sweep' = sweep \cup Target(Frame[s])
  /\ generations' = [Pop EXCEPT ![Len(generations) - 1][t] = Frame[s]]
  /\ UNCHANGED <<used_blocks, first, free_blocks, type, elems, gen_cap, history, forks>>

(* A return without a value, or one whose value the caller does not take.  *)
ReturnNothing_prune ==             \* faulty: prunes the frame of main as well
  generations' = Pop /\ UNCHANGED <<gcVars, forks>>
ReturnNothing ==
  /\ Len(generations) > 1
  /\ generations' = Pop
  /\ UNCHANGED <<gcVars, forks>>

---------------------------------------------------------------------------
(* Crystal_Fork, a deep copy.  The copies of the elements collect in a     *)
(* malloc'ed buffer while further blocks are allocated.                    *)

Top == forks[Len(forks)]

ForkStart(t) ==
  /\ Frame[t] \in Pointers /\ IsContainer(Frame[t].sym)
  /\ MayFork(Frame[t].sym) /\ MayAllocate
  /\ forks' = <<[src |-> Frame[t].sym, todo |-> elems[Frame[t].sym], buffer |-> {}]>>
  /\ UNCHANGED <<gcVars, generations>>

ForkNested(c) ==
  /\ IsContainer(c) /\ Len(forks) < MaxDepth
  /\ forks' = Append([forks EXCEPT ![Len(forks)].todo = @ \ {c}],
                     [src |-> c, todo |-> elems[c], buffer |-> {}])
  /\ UNCHANGED <<gcVars, generations>>

ForkString(c) ==
  /\ type[c] = "STRING"
  /\ \E b \in Blocks :
       /\ Allocate(b, "STRING", {}, NoBlock)
       /\ forks' = [forks EXCEPT ![Len(forks)].todo = @ \ {c},
                                 ![Len(forks)].buffer = @ \cup {b}]
  /\ UNCHANGED generations

(* All elements are copied: the copy itself is constructed over the buffer *)
(* and goes to the buffer of the enclosing activation or to symbol s.      *)
ForkFinish(s) ==
  /\ Top.todo = {}
  /\ \E b \in Blocks :
       /\ Allocate(b, type[Top.src], Top.buffer, FlagSource(Top.src))
       /\ LET outer == SubSeq(forks, 1, Len(forks) - 1) IN
          IF outer = <<>>
            THEN forks' = <<>> /\ Set(s, Pointer(b))
            ELSE /\ forks' = [outer EXCEPT ![Len(outer)].buffer = @ \cup {b}]
                 /\ UNCHANGED generations

---------------------------------------------------------------------------
Init ==
  /\ used_blocks = {} /\ first = NoBlock /\ free_blocks = {} /\ sweep = {}
  /\ type = [b \in Blocks |-> "NIL"] /\ elems = [b \in Blocks |-> {}]
  /\ gen_cap = USAGE_LIMIT
  /\ generations = <<[s \in Slots |-> NilValue]>>
  /\ forks = <<>> /\ spared = {} /\ leaked = {}

Compute(s) ==
  \/ Construct_String(s) \/ Construct_Array(s) \/ Construct_Class(s)
  \/ \E t \in Slots :
       \/ Crystal_Clone(s, t) \/ Copy(s, t) \/ Val_Binding(s, t) \/ Copy_Ref(s, t)
       \/ \E a \in Slots : Crystal_Array_Append(s, a, t)

Program ==
  /\ forks = <<>>
  /\ \/ Call \/ ReturnNothing
     \/ \E s \in Slots : Compute(s) \/ ForkStart(s) \/ \E t \in Slots : Return(s, t)

Fork ==
  /\ forks # <<>>
  /\ \/ \E c \in Top.todo : ForkNested(c) \/ ForkString(c)
     \/ \E s \in Slots : ForkFinish(s)

(* Once a block in use has been freed the behaviour of the C++ program is  *)
(* undefined; the specification ends there.                                *)
Next == NoDangling /\ (Program \/ Fork)

Spec == Init /\ [][Next]_vars

---------------------------------------------------------------------------
TypeOK ==
  /\ used_blocks \subseteq Blocks /\ free_blocks \subseteq Blocks
  /\ sweep \subseteq Blocks /\ spared \subseteq Blocks /\ leaked \subseteq Blocks
  /\ first \in Blocks \cup {NoBlock}
  /\ type \in [Blocks -> {"NIL", "STRING", "ARRAY", "CLASS_OBJ"}]
  /\ elems \in [Blocks -> SUBSET Blocks]
  /\ gen_cap \in Nat
  /\ generations \in Seq([Slots -> Value]) /\ Len(generations) \in 1 .. MaxDepth
  /\ forks \in Seq([src : Blocks, todo : SUBSET Blocks, buffer : SUBSET Blocks])

(* Safety: a block is never on both lists, and the free list keeps to its  *)
(* limit, so that GC_Allocate cannot hand out a block in use (Allocate,    *)
(* Collect).  A set flag belongs to a block in use, and the head of        *)
(* used_blocks, which the sweep relies on, is a block in use.              *)
ListsConsistent ==
  /\ used_blocks \cap free_blocks = {}
  /\ Cardinality(free_blocks) <= MAX_FREE_LIST
  /\ sweep \subseteq used_blocks
  /\ used_blocks # {} <=> first \in used_blocks

(* Safety, for every program: what a symbol of any open frame points to,   *)
(* the callers' frames included, survives every collection (the roots that *)
(* Branch registers and Collect marks).                                    *)
RootsKept == PointedTo \subseteq used_blocks

(* Garbage is freed by the second collection after it became garbage: the  *)
(* flag GC_Extend_Generation or Clone_Class left on it spares it once.     *)
(* The head of used_blocks, which is never freed, is not counted.          *)
GarbageLeaves == leaked = {}

---------------------------------------------------------------------------
(* The abstract heap: what the program sees of its reachable blocks.       *)
Ideal == INSTANCE ManagedHeap WITH objects <- Reachable

(* Safety, as a refinement: to a disciplined program the collector is      *)
(* invisible.  Reachable objects change only by a store, and a new object  *)
(* never shares its block with a reachable one (GC_Allocate, Collect).     *)
IdealSpec == Ideal!Spec
=============================================================================
