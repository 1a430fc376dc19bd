------------------------- MODULE GarbageCollectorProofs -------------------------
(***************************************************************************)
(* Theorems about GarbageCollector, for every heap, frame, limit and       *)
(* program: type correctness, what every program can rely on, that garbage *)
(* leaves with the second collection and, for programs without any of the  *)
(* Habits, the safety of the collector and that it implements ManagedHeap, *)
(* whose Next is proved step by step.                                      *)
(***************************************************************************)
EXTENDS GarbageCollector, FiniteSetTheorems, SequenceTheorems, TLAPS

(* Storing into a symbol adds at most the stored value to what is held. *)
LEMMA HeldAfterSet ==
  ASSUME TypeOK, NEW s \in Slots, NEW v \in Value, Set(s, v)
  PROVE  /\ Held' \subseteq Held \cup {v}
         /\ generations' \in Seq([Slots -> Value]) /\ Len(generations') = Len(generations)
<1>1. generations' \in Seq([Slots -> Value]) /\ Len(generations') = Len(generations)
  BY DEF TypeOK, Set
<1>2. ASSUME NEW i \in 1 .. Len(generations), NEW t \in Slots
      PROVE  generations'[i][t] \in Held \cup {v}
  BY DEF TypeOK, Set, Held
<1> QED  BY <1>1, <1>2 DEF Held

LEMMA FrameHeld ==
  ASSUME TypeOK
  PROVE  /\ Frame \in [Slots -> Value]
         /\ \A s \in Slots : Frame[s] \in Held /\ Frame[s] \in Value
BY DEF TypeOK, Frame, Held

LEMMA ReadValue ==
  ASSUME TypeOK, NEW v \in Value, NEW w \in Read(v)
  PROVE  w \in Value
BY DEF TypeOK, Read, Value, Pointer, Pointers, References

LEMMA AllocateType ==
  ASSUME TypeOK, NEW b \in Blocks, NEW t \in {"NIL", "STRING", "ARRAY", "CLASS_OBJ"},
         NEW E \in SUBSET Blocks, NEW x, Allocate(b, t, E, x)
  PROVE  /\ (used_blocks \subseteq Blocks /\ free_blocks \subseteq Blocks)'
         /\ (sweep \subseteq Blocks /\ spared \subseteq Blocks /\ leaked \subseteq Blocks)'
         /\ (first \in Blocks \cup {NoBlock})'
         /\ (type \in [Blocks -> {"NIL", "STRING", "ARRAY", "CLASS_OBJ"}])'
         /\ (elems \in [Blocks -> SUBSET Blocks])'
         /\ (gen_cap \in Nat)'
<1>1. Survivors \subseteq Blocks
  BY DEF TypeOK, Survivors, Kept
<1>2. free_blocks' \subseteq Blocks
  BY DEF TypeOK, Allocate, FreeLists, Popped, Survivors, Kept
<1>3. sweep' \subseteq Blocks
  BY DEF TypeOK, Allocate, Flags, Marked
<1>4. gen_cap' \in Nat
  BY ConstantsAssumption DEF TypeOK, Allocate
<1>5. spared' \subseteq Blocks /\ leaked' \subseteq Blocks
  BY <1>1 DEF TypeOK, Allocate
<1> QED  BY <1>1, <1>2, <1>3, <1>4, <1>5 DEF TypeOK, Allocate

(* A construction that puts its result into a symbol keeps the types. *)
LEMMA ConstructType ==
  ASSUME TypeOK, NEW b \in Blocks, NEW t \in {"NIL", "STRING", "ARRAY", "CLASS_OBJ"},
         NEW E \in SUBSET Blocks, NEW x, NEW s \in Slots,
         Allocate(b, t, E, x), Set(s, Pointer(b)), forks' = forks \/ forks' = <<>>
  PROVE  TypeOK'
<1>1. Pointer(b) \in Value
  BY DEF Pointer, Value, Pointers
<1>2. generations' \in Seq([Slots -> Value]) /\ Len(generations') = Len(generations)
  BY <1>1, HeldAfterSet
<1>3. forks' \in Seq([src : Blocks, todo : SUBSET Blocks, buffer : SUBSET Blocks])
  <2>1. CASE forks' = forks
    BY <2>1 DEF TypeOK
  <2>2. CASE forks' = <<>>
    BY <2>2, EmptySeq
  <2> QED  BY <2>1, <2>2
<1> QED  BY <1>2, <1>3, AllocateType DEF TypeOK

LEMMA ComputeType ==
  ASSUME TypeOK, NEW s \in Slots, Compute(s)
  PROVE  TypeOK'
<1>1. CASE Construct_String(s)
  BY <1>1, ConstructType DEF Construct_String
<1>2. CASE Construct_Array(s)
  BY <1>2, ConstructType DEF Construct_Array
<1>3. CASE Construct_Class(s)
  BY <1>3, ConstructType DEF Construct_Class
<1>4. ASSUME NEW t \in Slots, Crystal_Clone(s, t)
      PROVE  TypeOK'
  <2>1. PICK v \in Read(Frame[t]), b \in Blocks :
          /\ v \in Pointers
          /\ Allocate(b, type[v.sym], elems[v.sym], FlagSource(v.sym))
          /\ Set(s, Pointer(b)) /\ UNCHANGED forks
    BY <1>4 DEF Crystal_Clone
  <2>2. v.sym \in Blocks
    BY <2>1 DEF Pointers
  <2>3. type[v.sym] \in {"NIL", "STRING", "ARRAY", "CLASS_OBJ"} /\ elems[v.sym] \in SUBSET Blocks
    BY <2>2 DEF TypeOK
  <2> QED  BY <2>1, <2>3, ConstructType
<1>5. ASSUME NEW t \in Slots, Copy(s, t)
      PROVE  TypeOK'
  <2>1. PICK v \in Read(Frame[t]) \cup {Frame[t], NilValue} : Set(s, v)
    BY <1>5 DEF Copy
  <2>2. v \in Value
    BY <2>1, FrameHeld, ReadValue DEF Value
  <2>3. generations' \in Seq([Slots -> Value]) /\ Len(generations') = Len(generations)
    BY <2>1, <2>2, HeldAfterSet
  <2> QED  BY <1>5, <2>3 DEF Copy, TypeOK, gcVars, history
<1>6. ASSUME NEW t \in Slots, Val_Binding(s, t)
      PROVE  TypeOK'
  <2>0. PICK v \in Read(Frame[t]) :
          v \in Pointers /\ \E r \in {Reference(v.sym), NilValue} : Set(s, r)
    BY <1>6 DEF Val_Binding
  <2>1. PICK r \in {Reference(v.sym), NilValue} : Set(s, r)
    BY <2>0
  <2>2. r \in Value
    BY <2>0 DEF Value, Pointers, References, Reference
  <2>3. generations' \in Seq([Slots -> Value]) /\ Len(generations') = Len(generations)
    BY <2>1, <2>2, HeldAfterSet
  <2> QED  BY <1>6, <2>3 DEF Val_Binding, TypeOK, gcVars, history
<1>7. ASSUME NEW t \in Slots, Copy_Ref(s, t)
      PROVE  TypeOK'
  <2>1. PICK v \in Read(Frame[t]) \cup {NilValue}, old \in SUBSET elems[Frame[s].sym] :
          elems' = [elems EXCEPT ![Frame[s].sym] = (@ \ old) \cup Target(v)]
    BY <1>7 DEF Copy_Ref
  <2>2. Target(v) \subseteq Blocks
    BY DEF Target, Pointers
  <2>3. elems' \in [Blocks -> SUBSET Blocks]
    BY <2>1, <2>2 DEF TypeOK
  <2> QED  BY <1>7, <2>3 DEF Copy_Ref, TypeOK, history
<1>8. ASSUME NEW t \in Slots, NEW a \in Slots, Crystal_Array_Append(s, a, t)
      PROVE  TypeOK'
  <2>1. PICK b \in Blocks, v \in Read(Frame[t]) :
          /\ Allocate(b, "ARRAY", elems[Frame[a].sym] \cup Target(v), NoBlock)
          /\ Set(s, Pointer(b)) /\ UNCHANGED forks
    BY <1>8 DEF Crystal_Array_Append
  <2>2. Frame[a].sym \in Blocks /\ Target(v) \subseteq Blocks
    BY <1>8 DEF Crystal_Array_Append, Target, Pointers
  <2>3. elems[Frame[a].sym] \cup Target(v) \in SUBSET Blocks
    BY <2>2 DEF TypeOK
  <2> QED  BY <2>1, <2>3, ConstructType
<1> QED  BY <1>1, <1>2, <1>3, <1>4, <1>5, <1>6, <1>7, <1>8 DEF Compute

LEMMA CallType ==
  ASSUME TypeOK, Call
  PROVE  TypeOK'
<1>1. PICK args \in [Slots -> {Frame[s] : s \in Slots} \cup {NilValue}] :
        generations' = Append(generations, args)
  BY DEF Call
<1>2. args \in [Slots -> Value]
  BY FrameHeld DEF Value
<1>3. generations' \in Seq([Slots -> Value]) /\ Len(generations') = Len(generations) + 1
  BY <1>1, <1>2 DEF TypeOK
<1>4. gen_cap' \in Nat /\ Len(generations') \in 1 .. MaxDepth
  BY <1>3, ConstantsAssumption DEF Call, TypeOK
<1> QED  BY <1>3, <1>4 DEF Call, TypeOK, history

LEMMA PopType ==
  ASSUME TypeOK, Len(generations) > 1
  PROVE  /\ Pop \in Seq([Slots -> Value]) /\ Len(Pop) = Len(generations) - 1
         /\ \A i \in 1 .. Len(Pop) : Pop[i] = generations[i]
BY DEF TypeOK, Pop

LEMMA ReturnType ==
  ASSUME TypeOK, NEW s \in Slots, NEW t \in Slots, Return(s, t)
  PROVE  /\ TypeOK'
         /\ Held' \subseteq Held
<1>1. Len(generations) > 1 /\ Frame[s] \in Value /\ Frame[s] \in Held
  BY FrameHeld DEF Return
<1>2. /\ generations' \in Seq([Slots -> Value]) /\ Len(generations') = Len(generations) - 1
  BY <1>1, PopType DEF Return, TypeOK
<1>3. ASSUME NEW i \in 1 .. Len(generations'), NEW u \in Slots
      PROVE  generations'[i][u] \in Held
  BY <1>1, <1>2, PopType DEF Return, TypeOK, Held
<1>4. sweep' \subseteq Blocks
  BY DEF Return, TypeOK, Target, Pointers
<1>5. Len(generations') \in 1 .. MaxDepth
  BY <1>1, <1>2, ConstantsAssumption DEF TypeOK
<1>6. TypeOK'
  BY <1>2, <1>4, <1>5 DEF Return, TypeOK, history
<1> QED  BY <1>3, <1>6 DEF Held

LEMMA ReturnNothingType ==
  ASSUME TypeOK, ReturnNothing
  PROVE  TypeOK' /\ Held' \subseteq Held
<1>1. generations' = Pop /\ Len(generations) > 1 /\ UNCHANGED <<gcVars, forks>>
  BY DEF ReturnNothing
<1>2. Len(generations') \in 1 .. MaxDepth
  BY <1>1, PopType, ConstantsAssumption DEF TypeOK
<1>3. TypeOK'
  BY <1>1, <1>2, PopType DEF TypeOK, gcVars, history
<1> QED  BY <1>1, <1>3, PopType DEF Held, TypeOK

(* The activations of Crystal_Fork. *)
Activations == [src : Blocks, todo : SUBSET Blocks, buffer : SUBSET Blocks]

LEMMA ForkStartType ==
  ASSUME TypeOK, NEW t \in Slots, ForkStart(t)
  PROVE  TypeOK'
<1>1. Frame[t].sym \in Blocks
  BY DEF ForkStart, Pointers
<1>2. [src |-> Frame[t].sym, todo |-> elems[Frame[t].sym], buffer |-> {}] \in Activations
  BY <1>1 DEF TypeOK, Activations
<1>3. forks' \in Seq(Activations)
  BY <1>2 DEF ForkStart
<1> QED  BY <1>3 DEF ForkStart, TypeOK, gcVars, history, Activations

LEMMA TopType ==
  ASSUME TypeOK, forks # <<>>
  PROVE  /\ Len(forks) \in Nat \ {0} /\ Top \in Activations
         /\ forks \in Seq(Activations)
<1>1. forks \in Seq(Activations)
  BY DEF TypeOK, Activations
<1>2. Len(forks) \in Nat \ {0}
  BY <1>1, EmptySeq
<1> QED  BY <1>1, <1>2 DEF Top

LEMMA ForkNestedType ==
  ASSUME TypeOK, forks # <<>>, NEW c \in Top.todo, ForkNested(c)
  PROVE  TypeOK'
<1> DEFINE top == [Top EXCEPT !.todo = @ \ {c}]
           started == [forks EXCEPT ![Len(forks)] = top]
           new == [src |-> c, todo |-> elems[c], buffer |-> {}]
<1>1. c \in Blocks /\ top \in Activations /\ new \in Activations
  BY TopType DEF Activations, TypeOK
<1>2. forks' = Append(started, new)
  BY TopType DEF ForkNested, Top
<1>3. started \in Seq(Activations)
  BY <1>1, TopType
<1>4. forks' \in Seq(Activations)
  <2> HIDE DEF started, new
  <2> QED  BY <1>1, <1>2, <1>3
<1> QED  BY <1>4 DEF ForkNested, TypeOK, gcVars, history, Activations

LEMMA ForkStringType ==
  ASSUME TypeOK, forks # <<>>, NEW c \in Top.todo, ForkString(c)
  PROVE  TypeOK'
<1>1. PICK b \in Blocks :
        /\ Allocate(b, "STRING", {}, NoBlock)
        /\ forks' = [forks EXCEPT ![Len(forks)].todo = @ \ {c},
                                  ![Len(forks)].buffer = @ \cup {b}]
  BY DEF ForkString
<1> DEFINE top == [Top EXCEPT !.todo = @ \ {c}, !.buffer = @ \cup {b}]
<1>2. top \in Activations
  BY TopType DEF Activations
<1>3. forks' = [forks EXCEPT ![Len(forks)] = top]
  BY <1>1, TopType DEF Top
<1>4. forks' \in Seq(Activations)
  BY <1>2, <1>3, TopType
<1>5. generations' = generations
  BY DEF ForkString
<1> QED  BY <1>1, <1>4, <1>5, AllocateType DEF TypeOK, Activations

LEMMA ForkFinishType ==
  ASSUME TypeOK, forks # <<>>, NEW s \in Slots, ForkFinish(s)
  PROVE  TypeOK'
<1> DEFINE outer == SubSeq(forks, 1, Len(forks) - 1)
<1>1. PICK b \in Blocks :
        /\ Allocate(b, type[Top.src], Top.buffer, FlagSource(Top.src))
        /\ IF outer = <<>>
             THEN forks' = <<>> /\ Set(s, Pointer(b))
             ELSE /\ forks' = [outer EXCEPT ![Len(outer)].buffer = @ \cup {b}]
                  /\ UNCHANGED generations
  BY DEF ForkFinish
<1>2. Top.src \in Blocks /\ Top.buffer \in SUBSET Blocks
  BY TopType DEF Activations
<1>3. type[Top.src] \in {"NIL", "STRING", "ARRAY", "CLASS_OBJ"}
  BY <1>2 DEF TypeOK
<1>4. CASE outer = <<>>
  BY <1>1, <1>2, <1>3, <1>4, ConstructType
<1>5. CASE outer # <<>>
  <2>0. outer \in Seq(Activations)
    BY TopType
  <2>1. outer \in Seq(Activations) /\ Len(outer) \in Nat \ {0}
    <3> HIDE DEF outer
    <3> QED  BY <1>5, <2>0, EmptySeq
  <2> DEFINE last == outer[Len(outer)]
             filled == [last EXCEPT !.buffer = @ \cup {b}]
  <2> HIDE DEF outer
  <2>2. filled \in Activations
    <3>1. last \in Activations
      BY <2>1
    <3> HIDE DEF last
    <3> QED  BY <3>1 DEF Activations
  <2>3. forks' = [outer EXCEPT ![Len(outer)] = filled]
    BY <1>1, <1>5
  <2>4. forks' \in Seq(Activations)
    BY <2>1, <2>2, <2>3
  <2>5. generations' = generations
    BY <1>1, <1>5
  <2> QED  BY <1>1, <1>2, <1>3, <2>4, <2>5, AllocateType DEF TypeOK, Activations
<1> QED  BY <1>4, <1>5

(* Type correctness, for every program: the frames, the heap and the       *)
(* buffers of a fork hold blocks and values of the declared kinds after    *)
(* any sequence of calls into the collector (GC_Allocate, GC_Branch,       *)
(* GC_Extend_Generation, GC_Collect).                                      *)
THEOREM TypeCorrect == Spec => []TypeOK
<1>1. Init => TypeOK
  <2> SUFFICES ASSUME Init
               PROVE  TypeOK
    OBVIOUS
  <2>1. <<[s \in Slots |-> NilValue]>> \in Seq([Slots -> Value])
    BY DEF Value
  <2>2. Len(generations) \in 1 .. MaxDepth
    BY ConstantsAssumption DEF Init
  <2>3. forks \in Seq(Activations)
    BY EmptySeq DEF Init
  <2> QED  BY <2>1, <2>2, <2>3, ConstantsAssumption DEF Init, TypeOK, Activations
<1>2. TypeOK /\ [Next]_vars => TypeOK'
  <2> SUFFICES ASSUME TypeOK, [Next]_vars
               PROVE  TypeOK'
    OBVIOUS
  <2>1. CASE UNCHANGED vars
    BY <2>1 DEF TypeOK, vars, gcVars, history
  <2>2. CASE Program
    <3>1. ASSUME NEW s \in Slots, Compute(s) \/ ForkStart(s) \/ \E t \in Slots : Return(s, t)
          PROVE  TypeOK'
      BY <3>1, ComputeType, ForkStartType, ReturnType
    <3> QED  BY <2>2, <3>1, CallType, ReturnNothingType DEF Program
  <2>3. CASE Fork
    BY <2>3, ForkNestedType, ForkStringType, ForkFinishType DEF Fork
  <2> QED  BY <2>1, <2>2, <2>3 DEF Next
<1> QED  BY <1>1, <1>2, PTL DEF Spec

---------------------------------------------------------------------------
(* What every program can rely on. *)

(* The least set of marked blocks holds the roots and is closed under what *)
(* Mark follows; the same for the blocks the program can reach.            *)
LEMMA MarkedClosed ==
  /\ PointedTo \subseteq Marked
  /\ \A c \in Marked : Traced(c) \cap Blocks \subseteq Marked
BY DEF Marked, PointedTo

LEMMA ReachableClosed ==
  /\ PointedTo \subseteq Reachable /\ ReferencedTo \subseteq Reachable
  /\ \A c \in Reachable : elems[c] \cap Blocks \subseteq Reachable
BY DEF Reachable, PointedTo, ReferencedTo

(* A collection keeps what the symbols point to. *)
LEMMA RootsSurvive ==
  ASSUME RootsKept
  PROVE  PointedTo \subseteq Survivors /\ Survivors \subseteq used_blocks
BY MarkedClosed DEF RootsKept, Survivors, Kept

(* What a symbol reads is held, or is an element of a referenced block. *)
LEMMA ReadReachable ==
  ASSUME TypeOK, NEW t \in Slots, NEW w \in Read(Frame[t]), w \in Pointers
  PROVE  w.sym \in Reachable /\ w = Pointer(w.sym)
<1>1. Frame[t] \in Held /\ Frame[t] \in Value
  BY FrameHeld
<1>2. w.sym \in Blocks /\ w = Pointer(w.sym)
  BY DEF Pointers, Pointer
<1>3. CASE Frame[t] \in References
  <2>1. Frame[t].sym \in ReferencedTo
    BY <1>1, <1>3 DEF References, Reference, ReferencedTo
  <2>2. w.sym \in elems[Frame[t].sym]
    BY <1>2, <1>3, ConstantsAssumption DEF Read, Pointer
  <2> QED  BY <1>2, <2>1, <2>2, ReachableClosed
<1>4. CASE Frame[t] \notin References
  BY <1>1, <1>2, <1>4, ReachableClosed DEF Read, PointedTo
<1> QED  BY <1>3, <1>4

(* A construction that puts its result into a symbol keeps the roots. *)
LEMMA ConstructRoots ==
  ASSUME TypeOK, RootsKept, NEW b \in Blocks, NEW t, NEW E, NEW x, NEW s \in Slots,
         Allocate(b, t, E, x), Set(s, Pointer(b)) \/ UNCHANGED generations
  PROVE  RootsKept'
<1>1. Held' \subseteq Held \cup {Pointer(b)}
  <2>1. CASE Set(s, Pointer(b))
    <3>1. Pointer(b) \in Value
      BY DEF Value, Pointers, Pointer
    <3> QED  BY <2>1, <3>1, HeldAfterSet
  <2>2. CASE UNCHANGED generations
    BY <2>2 DEF Held
  <2> QED  BY <2>1, <2>2
<1>2. PointedTo' \subseteq PointedTo \cup {b}
  BY <1>1 DEF PointedTo, Pointer
<1>3. used_blocks' = Survivors \cup {b}
  BY DEF Allocate
<1> QED  BY <1>2, <1>3, RootsSurvive DEF RootsKept

LEMMA ComputeRoots ==
  ASSUME TypeOK, RootsKept, NoDangling, NEW s \in Slots, Compute(s)
  PROVE  RootsKept'
<1>1. CASE Construct_String(s)
  BY <1>1, ConstructRoots DEF Construct_String
<1>2. CASE Construct_Array(s)
  BY <1>2, ConstructRoots DEF Construct_Array
<1>3. CASE Construct_Class(s)
  BY <1>3, ConstructRoots DEF Construct_Class
<1>4. ASSUME NEW t \in Slots, Crystal_Clone(s, t)
      PROVE  RootsKept'
  BY <1>4, ConstructRoots DEF Crystal_Clone
<1>5. ASSUME NEW t \in Slots, Copy(s, t)
      PROVE  RootsKept'
  <2>1. PICK v \in Read(Frame[t]) \cup {Frame[t], NilValue} : Set(s, v)
    BY <1>5 DEF Copy
  <2>2. v \in Value
    BY <2>1, FrameHeld, ReadValue DEF Value
  <2>3. Held' \subseteq Held \cup {v}
    BY <2>1, <2>2, HeldAfterSet
  <2>4. PointedTo' \subseteq PointedTo \cup {b \in Blocks : Pointer(b) = v}
    BY <2>3 DEF PointedTo
  <2>5. ASSUME NEW b \in Blocks, Pointer(b) = v
        PROVE  b \in used_blocks
    <3>1. v \in Pointers /\ v.sym = b
      BY <2>5 DEF Pointers, Pointer
    <3>2. CASE v \in Read(Frame[t])
      BY <3>1, <3>2, ReadReachable DEF NoDangling
    <3>3. CASE v = Frame[t]
      BY <2>5, <3>3, FrameHeld DEF PointedTo, RootsKept
    <3>4. CASE v = NilValue
      BY <3>1, <3>4, ConstantsAssumption
    <3> QED  BY <2>1, <3>2, <3>3, <3>4
  <2>6. used_blocks' = used_blocks
    BY <1>5 DEF Copy, gcVars
  <2> QED  BY <2>4, <2>5, <2>6 DEF RootsKept
<1>6. ASSUME NEW t \in Slots, Val_Binding(s, t)
      PROVE  RootsKept'
  <2>1. PICK v \in Read(Frame[t]) :
          v \in Pointers /\ \E r \in {Reference(v.sym), NilValue} : Set(s, r)
    BY <1>6 DEF Val_Binding
  <2>2. PICK r \in {Reference(v.sym), NilValue} : Set(s, r)
    BY <2>1
  <2>3. r \in Value /\ r \notin Pointers
    BY <2>1, ConstantsAssumption DEF Value, Pointers, References, Reference
  <2>4. Held' \subseteq Held \cup {r}
    BY <2>2, <2>3, HeldAfterSet
  <2>5. PointedTo' \subseteq PointedTo
    BY <2>3, <2>4 DEF PointedTo, Pointer, Pointers
  <2> QED  BY <1>6, <2>5 DEF Val_Binding, RootsKept, gcVars
<1>7. ASSUME NEW t \in Slots, Copy_Ref(s, t)
      PROVE  RootsKept'
  BY <1>7 DEF Copy_Ref, RootsKept, PointedTo, Held
<1>8. ASSUME NEW t \in Slots, NEW a \in Slots, Crystal_Array_Append(s, a, t)
      PROVE  RootsKept'
  BY <1>8, ConstructRoots DEF Crystal_Array_Append
<1> QED  BY <1>1, <1>2, <1>3, <1>4, <1>5, <1>6, <1>7, <1>8 DEF Compute

LEMMA CallHeld ==
  ASSUME TypeOK, Call
  PROVE  Held' \subseteq Held \cup {NilValue}
<1>1. PICK args \in [Slots -> {Frame[s] : s \in Slots} \cup {NilValue}] :
        generations' = Append(generations, args)
  BY DEF Call
<1>2. ASSUME NEW i \in 1 .. Len(generations'), NEW u \in Slots
      PROVE  generations'[i][u] \in Held \cup {NilValue}
  <2>1. args[u] \in Held \cup {NilValue}
    BY FrameHeld
  <2>2. Len(generations') = Len(generations) + 1
    BY <1>1 DEF TypeOK
  <2>3. CASE i = Len(generations) + 1
    BY <1>1, <2>1, <2>3 DEF TypeOK
  <2>4. CASE i \in 1 .. Len(generations)
    BY <1>1, <2>4 DEF TypeOK, Held
  <2> QED  BY <2>2, <2>3, <2>4 DEF TypeOK
<1> QED  BY <1>2 DEF Held

LEMMA ForkRoots ==
  ASSUME TypeOK, RootsKept, Fork
  PROVE  RootsKept'
<1>1. ASSUME NEW c \in Top.todo, ForkNested(c)
      PROVE  RootsKept'
  BY <1>1 DEF ForkNested, RootsKept, PointedTo, Held, gcVars
<1>2. ASSUME NEW c \in Top.todo, ForkString(c)
      PROVE  RootsKept'
  <2>1. PICK b \in Blocks : Allocate(b, "STRING", {}, NoBlock) /\ UNCHANGED generations
    BY <1>2 DEF ForkString
  <2>2. used_blocks' = Survivors \cup {b} /\ PointedTo' = PointedTo
    BY <2>1 DEF Allocate, PointedTo, Held
  <2> QED  BY <2>2, RootsSurvive DEF RootsKept
<1>3. ASSUME NEW s \in Slots, ForkFinish(s)
      PROVE  RootsKept'
  <2>1. PICK b \in Blocks :
          /\ Allocate(b, type[Top.src], Top.buffer, FlagSource(Top.src))
          /\ Set(s, Pointer(b)) \/ UNCHANGED generations
    BY <1>3 DEF ForkFinish
  <2> QED  BY <2>1, ConstructRoots
<1> QED  BY <1>1, <1>2, <1>3 DEF Fork

LEMMA NextRoots ==
  ASSUME TypeOK, RootsKept, [Next]_vars
  PROVE  RootsKept'
<1>1. CASE UNCHANGED vars
  BY <1>1 DEF RootsKept, PointedTo, Held, vars, gcVars
<1>2. CASE Next
  <2>1. NoDangling /\ (Program \/ Fork)
    BY <1>2 DEF Next
  <2>2. CASE Call
    <3>1. PointedTo' \subseteq PointedTo
      BY <2>2, CallHeld, ConstantsAssumption DEF PointedTo, Pointer, Pointers
    <3> QED  BY <2>2, <3>1 DEF Call, RootsKept
  <2>3. CASE ReturnNothing
    BY <2>3, ReturnNothingType DEF ReturnNothing, RootsKept, PointedTo, gcVars
  <2>4. ASSUME NEW s \in Slots, Compute(s)
        PROVE  RootsKept'
    BY <2>1, <2>4, ComputeRoots
  <2>5. ASSUME NEW s \in Slots, ForkStart(s)
        PROVE  RootsKept'
    BY <2>5 DEF ForkStart, RootsKept, PointedTo, Held, gcVars
  <2>6. ASSUME NEW s \in Slots, NEW t \in Slots, Return(s, t)
        PROVE  RootsKept'
    BY <2>6, ReturnType DEF Return, RootsKept, PointedTo
  <2> QED  BY <2>1, <2>2, <2>3, <2>4, <2>5, <2>6, ForkRoots DEF Program
<1> QED  BY <1>1, <1>2

(* Safety, for every program: what the symbols of the open frames point to *)
(* survives every collection (Branch, Collect, Mark).                      *)
THEOREM RootsAreKept == Spec => []RootsKept
<1>1. Init => RootsKept
  <2> SUFFICES ASSUME Init
               PROVE  PointedTo = {}
    BY DEF RootsKept
  <2>1. Held = {} \/ Held = {NilValue}
    BY DEF Init, Held
  <2> QED  BY <2>1, ConstantsAssumption DEF PointedTo, Pointer, Pointers
<1>2. TypeOK /\ RootsKept /\ [Next]_vars => RootsKept'
  BY NextRoots
<1> QED  BY <1>1, <1>2, TypeCorrect, PTL DEF Spec

(* The free list after a collection. *)
LEMMA FreeListBound ==
  ASSUME TypeOK, ListsConsistent, NEW dead \in SUBSET used_blocks,
         NEW available \in FreeLists(dead)
  PROVE  /\ available \subseteq free_blocks \cup dead
         /\ IsFiniteSet(available) /\ Cardinality(available) <= MAX_FREE_LIST
<1>1. PICK P \in SUBSET dead :
        /\ available = free_blocks \cup P
        /\ Cardinality(free_blocks) + Cardinality(P)
             = IF Cardinality(free_blocks) + Cardinality(dead) <= MAX_FREE_LIST
                 THEN Cardinality(free_blocks) + Cardinality(dead) ELSE MAX_FREE_LIST
  BY DEF FreeLists
<1>2. IsFiniteSet(free_blocks) /\ IsFiniteSet(P) /\ IsFiniteSet(dead)
  BY FS_Subset, ConstantsAssumption DEF TypeOK
<1>3. Cardinality(free_blocks) + Cardinality(P) <= MAX_FREE_LIST
  BY <1>1, <1>2, FS_CardinalityType, ConstantsAssumption
<1>4. free_blocks \cap P = {}
  BY DEF ListsConsistent
<1>5. /\ IsFiniteSet(available)
      /\ Cardinality(available) = Cardinality(free_blocks) + Cardinality(P)
  <2>1. /\ IsFiniteSet(free_blocks \cup P)
        /\ Cardinality(free_blocks \cup P)
             = Cardinality(free_blocks) + Cardinality(P) - Cardinality(free_blocks \cap P)
    BY <1>2, FS_Union
  <2>2. Cardinality(free_blocks \cap P) = 0
    BY <1>4, FS_EmptySet
  <2>3. Cardinality(free_blocks) \in Nat /\ Cardinality(P) \in Nat
    BY <1>2, FS_CardinalityType
  <2> QED  BY <1>1, <2>1, <2>2, <2>3
<1> QED  BY <1>1, <1>3, <1>5

(* What GC_Allocate does to the lists and to the flags. *)
LEMMA AllocateLists ==
  ASSUME TypeOK, RootsKept, ListsConsistent,
         NEW b \in Blocks, NEW t, NEW E, NEW x, Allocate(b, t, E, x)
  PROVE  /\ b \notin Survivors
         /\ used_blocks # {} => first \in Survivors
         /\ b \in sweep' => x \in Survivors
         /\ sweep' \subseteq {b} \cup sweep \cup {first}
         /\ ListsConsistent'
<1> DEFINE dead == used_blocks \ Survivors
<1>1. PICK available \in FreeLists(dead) :
        /\ b \in IF available # {} THEN available ELSE Blocks \ Survivors
        /\ free_blocks' = available \ {b}
  BY DEF Allocate, Popped
<1>2. /\ available \subseteq free_blocks \cup dead
      /\ IsFiniteSet(available) /\ Cardinality(available) <= MAX_FREE_LIST
  BY FreeListBound
<1>3. Survivors \subseteq used_blocks /\ free_blocks \cap used_blocks = {}
  BY RootsSurvive DEF ListsConsistent
<1>4. b \notin Survivors
  BY <1>1, <1>2, <1>3
<1>5. used_blocks # {} => first \in Survivors
  BY DEF ListsConsistent, Survivors, Kept
<1>6. used_blocks = {} => Survivors = {} /\ Flags = {}
  <2>1. used_blocks = {} => ~Trigger
    BY FS_EmptySet DEF Trigger, TypeOK
  <2> QED  BY <2>1, <1>3 DEF ListsConsistent, Flags
<1>7. Flags \subseteq Survivors
  BY <1>5, <1>6 DEF Flags, Survivors, ListsConsistent
<1>8. Flags \subseteq sweep \cup {first}
  BY DEF Flags
<1>9. used_blocks' = Survivors \cup {b} /\ sweep' = IF x \in Flags THEN Flags \cup {b} ELSE Flags
  BY DEF Allocate
<1>10. used_blocks' \cap free_blocks' = {}
  BY <1>1, <1>2, <1>3, <1>9
<1>11. Cardinality(free_blocks') <= MAX_FREE_LIST
  <2>1. Cardinality(free_blocks') <= Cardinality(available)
    BY <1>1, <1>2, FS_Subset
  <2>2. Cardinality(free_blocks') \in Nat /\ Cardinality(available) \in Nat
    BY <1>1, <1>2, FS_Subset, FS_CardinalityType
  <2> QED  BY <1>2, <2>1, <2>2, ConstantsAssumption
<1>12. first' \in used_blocks'
  BY <1>5, <1>9 DEF Allocate
<1>13. ListsConsistent'
  BY <1>7, <1>9, <1>10, <1>11, <1>12 DEF ListsConsistent
<1> QED  BY <1>4, <1>5, <1>7, <1>8, <1>9, <1>13

LEMMA NextLists ==
  ASSUME TypeOK, RootsKept, ListsConsistent, [Next]_vars
  PROVE  ListsConsistent'
<1>1. ASSUME UNCHANGED <<used_blocks, first, free_blocks, sweep>>
      PROVE  ListsConsistent'
  BY <1>1 DEF ListsConsistent
<1>2. ASSUME NEW s \in Slots, Compute(s)
      PROVE  ListsConsistent'
  <2>1. \/ \E b \in Blocks : \E t, E, x : Allocate(b, t, E, x)
        \/ UNCHANGED <<used_blocks, first, free_blocks, sweep>>
    <3>1. ASSUME NEW t \in Slots, NEW a \in Slots,
                 Crystal_Clone(s, t) \/ Crystal_Array_Append(s, a, t)
          PROVE  \E b \in Blocks : \E k, E, x : Allocate(b, k, E, x)
      BY <3>1 DEF Crystal_Clone, Crystal_Array_Append
    <3>2. ASSUME NEW t \in Slots, Copy(s, t) \/ Val_Binding(s, t) \/ Copy_Ref(s, t)
          PROVE  UNCHANGED <<used_blocks, first, free_blocks, sweep>>
      BY <3>2 DEF Copy, Val_Binding, Copy_Ref, gcVars
    <3>3. ASSUME Construct_String(s) \/ Construct_Array(s) \/ Construct_Class(s)
          PROVE  \E b \in Blocks : \E k, E, x : Allocate(b, k, E, x)
      BY <3>3 DEF Construct_String, Construct_Array, Construct_Class
    <3> QED  BY <1>2, <3>1, <3>2, <3>3 DEF Compute
  <2> QED  BY <1>1, <2>1, AllocateLists
<1>3. ASSUME NEW s \in Slots, NEW t \in Slots, Return(s, t)
      PROVE  ListsConsistent'
  <2>1. Target(Frame[s]) \subseteq PointedTo
    BY FrameHeld DEF Target, PointedTo, Pointers, Pointer
  <2> QED  BY <1>3, <2>1 DEF Return, ListsConsistent, RootsKept
<1>4. CASE Fork
  <2>1. \/ \E b \in Blocks : \E t, E, x : Allocate(b, t, E, x)
        \/ UNCHANGED <<used_blocks, first, free_blocks, sweep>>
    BY <1>4 DEF Fork, ForkNested, ForkString, ForkFinish, gcVars
  <2> QED  BY <1>1, <2>1, AllocateLists
<1>5. CASE Call \/ ReturnNothing \/ (\E s \in Slots : ForkStart(s)) \/ UNCHANGED vars
  BY <1>1, <1>5 DEF Call, ReturnNothing, ForkStart, gcVars, vars
<1> QED  BY <1>2, <1>3, <1>4, <1>5 DEF Next, Program

(* Safety, for every program: no block is on both lists, the free list     *)
(* keeps to its limit, and only blocks in use are flagged (Allocate,       *)
(* Collect).                                                               *)
THEOREM ListsAreConsistent == Spec => []ListsConsistent
<1>1. Init => ListsConsistent
  BY FS_EmptySet, ConstantsAssumption DEF Init, ListsConsistent
<1>2. TypeOK /\ RootsKept /\ ListsConsistent /\ [Next]_vars => ListsConsistent'
  BY NextLists
<1> QED  BY <1>1, <1>2, TypeCorrect, RootsAreKept, PTL DEF Spec

---------------------------------------------------------------------------
(* Programs without any of the Habits.  The collector traces less than     *)
(* what the program can reach: it does not enter a flagged block, it       *)
(* follows arrays only, it never traces the head of used_blocks, and it    *)
(* knows neither references nor the buffers of a fork.  The inductive      *)
(* invariant says that a disciplined program keeps nothing there.          *)
Closed  == \A c \in used_blocks : elems[c] \subseteq used_blocks
Plain   == \A c \in Blocks :
             elems[c] # {} => type[c] = "ARRAY" /\ c # first /\ c \notin sweep
Indexed == \A c \in ReferencedTo : c \in used_blocks /\ IsContainer(c)
Shallow == forks # <<>> => /\ Len(forks) = 1 /\ Top.src \in used_blocks
                           /\ Top.todo = {} /\ Top.buffer = {}

DisciplinedInv ==
  /\ TypeOK /\ RootsKept /\ ListsConsistent
  /\ Closed /\ Plain /\ Indexed /\ Shallow

(* The blocks in use are closed under what the program can do. *)
LEMMA DisciplinedImpliesSafe == DisciplinedInv => NoDangling
<1> SUFFICES ASSUME DisciplinedInv
             PROVE  PointedTo \cup ReferencedTo \cup Copying \subseteq used_blocks
  BY DEF DisciplinedInv, Closed, TypeOK, NoDangling, Reachable
<1>1. Copying \subseteq used_blocks
  <2>1. ASSUME NEW i \in 1 .. Len(forks)
        PROVE  forks[i].buffer \cup {forks[i].src} \subseteq used_blocks
    <3>1. forks # <<>>
      BY EmptySeq
    <3>2. Len(forks) = 1 /\ Top.src \in used_blocks /\ Top.buffer = {}
      BY <3>1 DEF DisciplinedInv, Shallow
    <3>3. forks[i] = Top
      BY <3>2 DEF Top
    <3> QED  BY <3>2, <3>3
  <2> QED  BY <2>1 DEF Copying
<1> QED  BY <1>1 DEF DisciplinedInv, RootsKept, Indexed

(* With the invariant, a collection leaves the blocks in use closed. *)
LEMMA SurvivorsClosed ==
  ASSUME DisciplinedInv, NEW c \in Survivors
  PROVE  elems[c] \subseteq Survivors
<1>1. CASE ~Trigger
  BY <1>1 DEF Survivors, DisciplinedInv, Closed
<1>2. CASE Trigger /\ elems[c] # {}
  <2>1. c \in used_blocks /\ c \in Marked
    BY <1>2 DEF Survivors, Kept, DisciplinedInv, Plain, TypeOK
  <2>2. elems[c] \subseteq Blocks /\ Traced(c) = elems[c]
    BY <1>2, <2>1 DEF Traced, DisciplinedInv, Plain, TypeOK
  <2>3. elems[c] \subseteq Marked /\ elems[c] \subseteq used_blocks
    BY <2>1, <2>2, MarkedClosed DEF DisciplinedInv, Closed
  <2> QED  BY <1>2, <2>3 DEF Survivors, Kept
<1> QED  BY <1>1, <1>2

(* An allocation whose payload survives the collection it may cause, and   *)
(* that copies no flag onto a block with elements.                         *)
LEMMA AllocateDisciplined ==
  ASSUME DisciplinedInv, Allowed = {},
         NEW b \in Blocks, NEW t \in {"NIL", "STRING", "ARRAY", "CLASS_OBJ"},
         NEW E \in SUBSET Survivors, NEW x,
         E # {} => t = "ARRAY" /\ x \notin Blocks,
         Allocate(b, t, E, x)
  PROVE  /\ Closed' /\ Plain'
         /\ \A c \in ReferencedTo : c \in used_blocks' /\ IsContainer(c)'
<1>1. /\ TypeOK /\ RootsKept /\ ListsConsistent /\ Plain /\ Indexed
  BY DEF DisciplinedInv
<1>2. /\ b \notin Survivors
      /\ used_blocks # {} => first \in Survivors
      /\ b \in sweep' => x \in Survivors
      /\ sweep' \subseteq {b} \cup sweep \cup {first}
  BY <1>1, AllocateLists
<1>3. Survivors \subseteq used_blocks /\ PointedTo \subseteq Survivors
  BY <1>1, RootsSurvive
<1>4. /\ used_blocks' = Survivors \cup {b}
      /\ first' = IF used_blocks = {} THEN b ELSE first
      /\ type'  = [c \in Blocks |-> IF c = b THEN t ELSE IF c \in Survivors THEN type[c] ELSE "NIL"]
      /\ elems' = [c \in Blocks |-> IF c = b THEN E ELSE IF c \in Survivors THEN elems[c] ELSE {}]
      /\ ReferencedTo \subseteq PointedTo
  BY DEF Allocate, MayAllocate
<1>5. Survivors \subseteq Blocks
  BY <1>1, <1>3 DEF TypeOK
<1>6. Closed'
  <2>1. ASSUME NEW c \in Survivors
        PROVE  elems'[c] \subseteq Survivors
    BY <1>2, <1>4, <1>5, <2>1, SurvivorsClosed
  <2>2. elems'[b] = E
    BY <1>4
  <2> QED  BY <1>4, <2>1, <2>2 DEF Closed
<1>7. Plain'
  <2> SUFFICES ASSUME NEW c \in Blocks, elems'[c] # {}
               PROVE  type'[c] = "ARRAY" /\ c # first' /\ c \notin sweep'
    BY DEF Plain
  <2>1. CASE c = b
    BY <1>2, <1>3, <1>4, <1>5, <2>1
  <2>2. CASE c # b
    <3>1. c \in Survivors /\ elems[c] # {} /\ type'[c] = type[c]
      BY <1>4, <2>2
    <3>2. type[c] = "ARRAY" /\ c # first /\ c \notin sweep
      BY <1>1, <3>1 DEF Plain
    <3>3. first' = first
      BY <1>3, <1>4, <3>1
    <3> QED  BY <1>2, <2>2, <3>1, <3>2, <3>3
  <2> QED  BY <2>1, <2>2
<1>8. ASSUME NEW c \in ReferencedTo
      PROVE  c \in used_blocks' /\ IsContainer(c)'
  <2>1. c \in Survivors /\ IsContainer(c)
    BY <1>1, <1>3, <1>4 DEF Indexed
  <2>2. type'[c] = type[c]
    BY <1>2, <1>4, <1>5, <2>1
  <2> QED  BY <1>4, <2>1, <2>2 DEF IsContainer
<1> QED  BY <1>6, <1>7, <1>8

(* What a symbol reads is a block in use. *)
LEMMA ReadUsed ==
  ASSUME DisciplinedInv, NEW t \in Slots, NEW w \in Read(Frame[t]), w \in Pointers
  PROVE  w.sym \in used_blocks /\ w = Pointer(w.sym)
BY ReadReachable, DisciplinedImpliesSafe DEF DisciplinedInv, NoDangling

(* When references keep to held containers, as at an allocation, what a    *)
(* symbol reads survives.                                                  *)
LEMMA ReadSurvives ==
  ASSUME DisciplinedInv, ReferencedTo \subseteq PointedTo,
         NEW t \in Slots, NEW w \in Read(Frame[t]), w \in Pointers
  PROVE  w.sym \in Survivors
<1>1. TypeOK /\ RootsKept /\ Frame[t] \in Held
  BY FrameHeld DEF DisciplinedInv
<1>2. w.sym \in Blocks /\ w = Pointer(w.sym)
  BY DEF Pointers, Pointer
<1>3. PointedTo \subseteq Survivors
  BY <1>1, RootsSurvive
<1>4. CASE Frame[t] \in References
  <2>1. Frame[t].sym \in PointedTo
    BY <1>1, <1>4 DEF References, Reference, ReferencedTo
  <2>2. w.sym \in elems[Frame[t].sym]
    BY <1>2, <1>4, ConstantsAssumption DEF Read, Pointer
  <2> QED  BY <1>3, <2>1, <2>2, SurvivorsClosed
<1>5. CASE Frame[t] \notin References
  BY <1>1, <1>2, <1>3, <1>5 DEF Read, PointedTo
<1> QED  BY <1>4, <1>5

(* A construction that puts its result into a symbol. *)
LEMMA ConstructDisciplined ==
  ASSUME DisciplinedInv, Allowed = {},
         NEW b \in Blocks, NEW t \in {"NIL", "STRING", "ARRAY", "CLASS_OBJ"},
         NEW E \in SUBSET Survivors, NEW x, NEW s \in Slots,
         E # {} => t = "ARRAY" /\ x \notin Blocks,
         Allocate(b, t, E, x), Set(s, Pointer(b))
  PROVE  Closed' /\ Plain' /\ Indexed'
<1>1. Held' \subseteq Held \cup {Pointer(b)}
  BY HeldAfterSet DEF DisciplinedInv, Value, Pointers, Pointer
<1>2. ReferencedTo' \subseteq ReferencedTo
  BY <1>1 DEF ReferencedTo, Pointer, Reference
<1> QED  BY <1>2, AllocateDisciplined DEF Indexed

LEMMA ComputeDisciplined ==
  ASSUME DisciplinedInv, Allowed = {}, forks = <<>>, NEW s \in Slots, Compute(s)
  PROVE  Closed' /\ Plain' /\ Indexed' /\ forks' = <<>>
<1>1. TypeOK /\ RootsKept /\ Closed /\ Plain /\ Indexed
  BY DEF DisciplinedInv
<1>2. PointedTo \subseteq Survivors
  BY <1>1, RootsSurvive
<1>3. NoBlock \notin Blocks /\ {} \in SUBSET Survivors
  BY ConstantsAssumption
<1>4. CASE Construct_String(s) \/ Construct_Class(s)
  BY <1>3, <1>4, ConstructDisciplined DEF Construct_String, Construct_Class
<1>5. CASE Construct_Array(s)
  <2>1. PICK b \in Blocks, E \in SUBSET {c \in Blocks : \E t \in Slots : Frame[t] = Pointer(c)} :
          Allocate(b, "ARRAY", E, NoBlock) /\ Set(s, Pointer(b)) /\ UNCHANGED forks
    BY <1>5 DEF Construct_Array
  <2>2. E \subseteq PointedTo
    BY <1>1, FrameHeld DEF PointedTo
  <2> QED  BY <1>2, <1>3, <2>1, <2>2, ConstructDisciplined
<1>6. ASSUME NEW t \in Slots, NEW a \in Slots, Crystal_Array_Append(s, a, t)
      PROVE  Closed' /\ Plain' /\ Indexed' /\ forks' = <<>>
  <2>1. PICK b \in Blocks, v \in Read(Frame[t]) :
          /\ Allocate(b, "ARRAY", elems[Frame[a].sym] \cup Target(v), NoBlock)
          /\ Set(s, Pointer(b)) /\ UNCHANGED forks
    BY <1>6 DEF Crystal_Array_Append
  <2>2. ReferencedTo \subseteq PointedTo
    BY <2>1 DEF Allocate, MayAllocate
  <2>3. Target(v) \subseteq Survivors
    BY <2>2, ReadSurvives DEF Target
  <2>4. Frame[a].sym \in PointedTo
    BY <1>1, <1>6, FrameHeld DEF Crystal_Array_Append, PointedTo, Pointers, Pointer
  <2>5. elems[Frame[a].sym] \subseteq Survivors
    BY <1>2, <2>4, SurvivorsClosed
  <2> QED  BY <1>3, <2>1, <2>3, <2>5, ConstructDisciplined
<1>7. ASSUME NEW t \in Slots, Crystal_Clone(s, t)
      PROVE  Closed' /\ Plain' /\ Indexed' /\ forks' = <<>>
  <2>1. PICK v \in Read(Frame[t]) :
          /\ v \in Pointers
          /\ \E b \in Blocks :
               /\ Allocate(b, type[v.sym], elems[v.sym], FlagSource(v.sym))
               /\ Set(s, Pointer(b))
          /\ UNCHANGED forks
    BY <1>7 DEF Crystal_Clone
  <2>2. PICK b \in Blocks : /\ Allocate(b, type[v.sym], elems[v.sym], FlagSource(v.sym))
                            /\ Set(s, Pointer(b))
    BY <2>1
  <2>3. ReferencedTo \subseteq PointedTo
    BY <2>2 DEF Allocate, MayAllocate
  <2>4. v.sym \in Survivors /\ v.sym \in Blocks
    BY <2>1, <2>3, ReadSurvives DEF Pointers
  <2>5. elems[v.sym] \in SUBSET Survivors
    BY <2>4, SurvivorsClosed
  <2>6. elems[v.sym] # {} => type[v.sym] = "ARRAY" /\ FlagSource(v.sym) \notin Blocks
    BY <1>1, <1>3, <2>4 DEF Plain, FlagSource
  <2>7. type[v.sym] \in {"NIL", "STRING", "ARRAY", "CLASS_OBJ"}
    BY <1>1, <2>4 DEF TypeOK
  <2> QED  BY <2>1, <2>2, <2>5, <2>6, <2>7, ConstructDisciplined
<1>8. ASSUME NEW t \in Slots, Copy(s, t)
      PROVE  Closed' /\ Plain' /\ Indexed' /\ forks' = <<>>
  <2>1. PICK v \in Read(Frame[t]) \cup {Frame[t], NilValue} : v \notin References /\ Set(s, v)
    BY <1>8 DEF Copy
  <2>2. v \in Value
    BY <1>1, <2>1, FrameHeld, ReadValue DEF Value
  <2>3. Held' \subseteq Held \cup {v}
    BY <1>1, <2>1, <2>2, HeldAfterSet
  <2>4. ReferencedTo' \subseteq ReferencedTo
    BY <2>1, <2>3 DEF ReferencedTo, References, Reference
  <2> QED  BY <1>1, <1>8, <2>4 DEF Copy, gcVars, Closed, Plain, Indexed, IsContainer
<1>9. ASSUME NEW t \in Slots, Val_Binding(s, t)
      PROVE  Closed' /\ Plain' /\ Indexed' /\ forks' = <<>>
  <2>1. PICK v \in Read(Frame[t]) :
          /\ v \in Pointers /\ IsContainer(v.sym)
          /\ \E r \in {Reference(v.sym), NilValue} : Set(s, r)
    BY <1>9 DEF Val_Binding
  <2>2. PICK r \in {Reference(v.sym), NilValue} : Set(s, r)
    BY <2>1
  <2>3. v.sym \in used_blocks /\ v.sym \in Blocks
    BY <2>1, ReadUsed DEF Pointers
  <2>4. r \in Value
    BY <2>3 DEF Value, References, Reference
  <2>5. Held' \subseteq Held \cup {r}
    BY <1>1, <2>2, <2>4, HeldAfterSet
  <2>6. ReferencedTo' \subseteq ReferencedTo \cup {v.sym}
    BY <2>2, <2>5, ConstantsAssumption DEF ReferencedTo, Reference, References
  <2> QED  BY <1>1, <1>9, <2>1, <2>3, <2>6
           DEF Val_Binding, gcVars, Closed, Plain, Indexed, IsContainer
<1>10. ASSUME NEW t \in Slots, Copy_Ref(s, t)
       PROVE  Closed' /\ Plain' /\ Indexed' /\ forks' = <<>>
  <2> DEFINE b == Frame[s].sym
  <2>1. PICK v \in Read(Frame[t]) \cup {NilValue}, old \in SUBSET elems[b] :
          /\ v \in Pointers => MayHold(b)
          /\ elems' = [elems EXCEPT ![b] = (@ \ old) \cup Target(v)]
    BY <1>10 DEF Copy_Ref
  <2>2. b \in ReferencedTo
    BY <1>1, <1>10, FrameHeld DEF Copy_Ref, References, Reference, ReferencedTo
  <2>3. b \in used_blocks /\ b \in Blocks /\ IsContainer(b)
    BY <1>1, <2>2 DEF Indexed, ReferencedTo
  <2>4. Target(v) \subseteq used_blocks
    BY <2>1, ReadUsed, ConstantsAssumption DEF Target, DisciplinedInv
  <2>5. /\ elems'[b] \subseteq elems[b] \cup Target(v)
        /\ \A c \in Blocks \ {b} : elems'[c] = elems[c]
    BY <1>1, <2>1, <2>3 DEF TypeOK
  <2>6. Closed'
    BY <1>1, <1>10, <2>3, <2>4, <2>5 DEF Closed, Copy_Ref, TypeOK
  <2>7. v \in Pointers => type[b] = "ARRAY" /\ b # first /\ b \notin sweep
    BY <2>1, <2>3 DEF MayHold, IsContainer
  <2>8. Plain'
    BY <1>1, <1>10, <2>3, <2>5, <2>7 DEF Plain, Copy_Ref, Target
  <2> QED  BY <1>1, <1>10, <2>6, <2>8
           DEF Copy_Ref, Indexed, IsContainer, ReferencedTo, Held
<1> QED  BY <1>4, <1>5, <1>6, <1>7, <1>8, <1>9, <1>10 DEF Compute

LEMMA NextDisciplined ==
  ASSUME DisciplinedInv, Allowed = {}, [Next]_vars
  PROVE  Closed' /\ Plain' /\ Indexed' /\ Shallow'
<1>1. TypeOK /\ RootsKept /\ Closed /\ Plain /\ Indexed /\ Shallow
  BY DEF DisciplinedInv
<1>2. CASE UNCHANGED vars
  BY <1>1, <1>2 DEF vars, gcVars, Closed, Plain, Indexed, Shallow, IsContainer, ReferencedTo,
                    Held, Top
<1>3. ASSUME NEW s \in Slots, forks = <<>>, Compute(s)
      PROVE  Closed' /\ Plain' /\ Indexed' /\ Shallow'
  BY <1>3, ComputeDisciplined DEF Shallow
<1>4. CASE forks = <<>> /\ Call
  <2>1. ReferencedTo' \subseteq ReferencedTo
    BY <1>1, <1>4, CallHeld, ConstantsAssumption DEF ReferencedTo, Reference, References
  <2> QED  BY <1>1, <1>4, <2>1 DEF Call, Closed, Plain, Indexed, Shallow, IsContainer
<1>5. CASE forks = <<>> /\ ReturnNothing
  <2>1. ReferencedTo' \subseteq ReferencedTo
    BY <1>1, <1>5, ReturnNothingType DEF ReferencedTo
  <2> QED  BY <1>1, <1>5, <2>1
           DEF ReturnNothing, gcVars, Closed, Plain, Indexed, Shallow, IsContainer
<1>6. ASSUME NEW s \in Slots, NEW t \in Slots, forks = <<>>, Return(s, t)
      PROVE  Closed' /\ Plain' /\ Indexed' /\ Shallow'
  <2>1. ReferencedTo' \subseteq ReferencedTo
    BY <1>1, <1>6, ReturnType DEF ReferencedTo
  <2>2. \A c \in Target(Frame[s]) : elems[c] = {}
    BY <1>6 DEF Return, MayReturn, Target
  <2>3. Plain'
    BY <1>1, <1>6, <2>2 DEF Return, Plain
  <2> QED  BY <1>1, <1>6, <2>1, <2>3 DEF Return, Closed, Indexed, Shallow, IsContainer
<1>7. ASSUME NEW t \in Slots, ForkStart(t)
      PROVE  Closed' /\ Plain' /\ Indexed' /\ Shallow'
  <2>1. elems[Frame[t].sym] = {}
    BY <1>7 DEF ForkStart, MayFork
  <2>2. Frame[t].sym \in used_blocks
    BY <1>1, <1>7, FrameHeld DEF ForkStart, RootsKept, PointedTo, Pointers, Pointer
  <2>3. forks' = <<[src |-> Frame[t].sym, todo |-> {}, buffer |-> {}]>>
    BY <1>7, <2>1 DEF ForkStart
  <2>4. Len(forks') = 1 /\ Top' = [src |-> Frame[t].sym, todo |-> {}, buffer |-> {}]
    BY <2>3 DEF Top
  <2>5. Shallow'
    BY <1>7, <2>2, <2>4 DEF Shallow, ForkStart, gcVars
  <2> QED  BY <1>1, <1>7, <2>5
           DEF ForkStart, gcVars, Closed, Plain, Indexed, IsContainer, ReferencedTo, Held
<1>8. CASE Fork
  <2>1. forks # <<>> /\ Len(forks) = 1 /\ Top.todo = {} /\ Top.buffer = {}
    BY <1>1, <1>8 DEF Fork, Shallow
  <2>2. PICK s \in Slots : ForkFinish(s)
    BY <1>8, <2>1 DEF Fork
  <2>3. SubSeq(forks, 1, Len(forks) - 1) = <<>>
    BY <2>1, SubSeqEmpty
  <2>4. PICK b \in Blocks :
          /\ Allocate(b, type[Top.src], {}, FlagSource(Top.src))
          /\ forks' = <<>> /\ Set(s, Pointer(b))
    BY <2>1, <2>2, <2>3 DEF ForkFinish
  <2>5. type[Top.src] \in {"NIL", "STRING", "ARRAY", "CLASS_OBJ"}
    BY <1>1, <2>1 DEF Shallow, TypeOK
  <2>6. Closed' /\ Plain' /\ Indexed'
    BY <2>4, <2>5, ConstructDisciplined
  <2> QED  BY <2>4, <2>6 DEF Shallow
<1> QED  BY <1>2, <1>3, <1>4, <1>5, <1>6, <1>7, <1>8 DEF Next, Program

(* Safety: a program without any of the Habits never loses a block it can  *)
(* still reach, however deep it calls, whatever it stores and whenever a   *)
(* collection strikes (GC::Allocate, Collect and Mark).                    *)
THEOREM DisciplinedSafety ==
  ASSUME Allowed = {}
  PROVE  Spec => []NoDangling
<1>1. Init => Closed /\ Plain /\ Indexed /\ Shallow
  <2> SUFFICES ASSUME Init
               PROVE  ReferencedTo = {}
    BY DEF Init, Closed, Plain, Indexed, Shallow
  <2>1. Held \subseteq {NilValue}
    BY DEF Init, Held
  <2> QED  BY <2>1, ConstantsAssumption DEF ReferencedTo, Reference, References
<1>2. DisciplinedInv /\ [Next]_vars => (Closed /\ Plain /\ Indexed /\ Shallow)'
  BY NextDisciplined
<1>3. DisciplinedInv <=> /\ TypeOK /\ RootsKept /\ ListsConsistent
                         /\ Closed /\ Plain /\ Indexed /\ Shallow
  BY DEF DisciplinedInv
<1>4. DisciplinedInv => NoDangling
  BY DisciplinedImpliesSafe
<1> QED  BY <1>1, <1>2, <1>3, <1>4, TypeCorrect, RootsAreKept, ListsAreConsistent, PTL DEF Spec
-----------------------------------------------------------------------------

(* What the program can get at through its symbols and the copies that a   *)
(* fork has made so far.  Unlike Reachable it leaves out what a fork still *)
(* has to copy, which may be stale once a collection has struck.           *)
Buffers == UNION {forks[i].buffer : i \in 1 .. Len(forks)}
Owned   == PointedTo \cup ReferencedTo \cup Buffers
Accessible ==
  {b \in Blocks : \A S \in SUBSET Blocks :
     Owned \subseteq S /\ (\A c \in S : elems[c] \subseteq S) => b \in S}

LEMMA AccessibleClosed ==
  ASSUME TypeOK
  PROVE  /\ Owned \subseteq Accessible /\ Accessible \subseteq Reachable
         /\ Accessible \in SUBSET Blocks
         /\ \A c \in Accessible : elems[c] \subseteq Accessible
<1>1. Buffers \subseteq Blocks
  <2>1. forks \in Seq(Activations)
    BY DEF TypeOK, Activations
  <2>2. ASSUME NEW i \in 1 .. Len(forks)
        PROVE  forks[i].buffer \subseteq Blocks
    <3>1. forks[i] \in Activations
      BY <2>1
    <3> QED  BY <3>1 DEF Activations
  <2> QED  BY <2>2 DEF Buffers
<1>2. Owned \subseteq Blocks
  BY <1>1 DEF Owned, PointedTo, ReferencedTo
<1>3. Buffers \subseteq Copying
  BY DEF Buffers, Copying
<1>4. \A c \in Accessible : elems[c] \subseteq Blocks
  BY DEF TypeOK, Accessible
<1> QED  BY <1>2, <1>3, <1>4 DEF Accessible, Reachable, Owned

(* Whatever holds the roots and the elements of its blocks holds all that  *)
(* is accessible.                                                          *)
LEMMA AccessibleLeast ==
  ASSUME NEW S \in SUBSET Blocks, Owned' \subseteq S, \A c \in S : elems'[c] \subseteq S
  PROVE  Accessible' \subseteq S
BY DEF Accessible

LEMMA ReadAccessible ==
  ASSUME TypeOK, NEW t \in Slots, NEW w \in Read(Frame[t]), w \in Pointers
  PROVE  w.sym \in Accessible /\ w = Pointer(w.sym) /\ w.sym \in Blocks
<1>1. Frame[t] \in Held /\ Frame[t] \in Value
  BY FrameHeld
<1>2. w.sym \in Blocks /\ w = Pointer(w.sym)
  BY DEF Pointers, Pointer
<1>3. CASE Frame[t] \in References
  <2>1. Frame[t].sym \in ReferencedTo
    BY <1>1, <1>3 DEF References, Reference, ReferencedTo
  <2>2. w.sym \in elems[Frame[t].sym]
    BY <1>2, <1>3, ConstantsAssumption DEF Read, Pointer
  <2> QED  BY <1>2, <2>1, <2>2, AccessibleClosed DEF Owned
<1>4. CASE Frame[t] \notin References
  BY <1>1, <1>2, <1>4, AccessibleClosed DEF Read, PointedTo, Owned
<1> QED  BY <1>3, <1>4

(* Storing v into a symbol. *)
LEMMA OwnedAfterSet ==
  ASSUME TypeOK, NEW s \in Slots, NEW v \in Value, Set(s, v), UNCHANGED forks \/ forks' = <<>>
  PROVE  Owned' \subseteq Owned \cup {b \in Blocks : v \in {Pointer(b), Reference(b)}}
<1>1. Held' \subseteq Held \cup {v}
  BY HeldAfterSet
<1>2. Buffers' \subseteq Buffers
  BY EmptySeq DEF Buffers
<1> QED  BY <1>1, <1>2 DEF Owned, PointedTo, ReferencedTo
---------------------------------------------------------------------------
(* The three kinds of steps: one block is made, of accessible blocks; the  *)
(* program looks at accessible blocks or forgets some; an accessible block *)
(* is given other elements.                                                *)
Makes ==
  \E b \in Blocks, E \in SUBSET Accessible, t \in {"NIL", "STRING", "ARRAY", "CLASS_OBJ"} : \E x :
    /\ Allocate(b, t, E, x)
    /\ Owned' \subseteq Owned \cup {b}
    /\ t = "NIL" => \E c \in Reachable : type[c] = "NIL"

Looks ==
  /\ UNCHANGED <<used_blocks, first, type, elems, history>>
  /\ Owned' \subseteq Accessible
  /\ sweep' \subseteq sweep \cup PointedTo

Stores ==
  /\ \E b \in ReferencedTo, E \in SUBSET Accessible : elems' = [elems EXCEPT ![b] = E]
  /\ UNCHANGED <<used_blocks, first, sweep, type, history, generations, forks>>

LEMMA MakesBySet ==
  ASSUME TypeOK, NEW b \in Blocks, NEW E \in SUBSET Accessible, NEW x, NEW s \in Slots,
         NEW t \in {"NIL", "STRING", "ARRAY", "CLASS_OBJ"},
         Allocate(b, t, E, x), Set(s, Pointer(b)), UNCHANGED forks \/ forks' = <<>>,
         t = "NIL" => \E c \in Reachable : type[c] = "NIL"
  PROVE  Makes
<1>1. Pointer(b) \in Value
  BY DEF Value, Pointers, Pointer
<1>2. Owned' \subseteq Owned \cup {b}
  BY <1>1, OwnedAfterSet DEF Pointer, Reference
<1> QED  BY <1>2 DEF Makes

LEMMA ComputeKinds ==
  ASSUME TypeOK, NEW s \in Slots, Compute(s)
  PROVE  Makes \/ Looks \/ Stores
<1>1. CASE Construct_String(s)
  BY <1>1, MakesBySet DEF Construct_String
<1>2. CASE Construct_Array(s)
  <2>1. PICK b \in Blocks, E \in SUBSET {c \in Blocks : \E t \in Slots : Frame[t] = Pointer(c)} :
          Allocate(b, "ARRAY", E, NoBlock) /\ Set(s, Pointer(b)) /\ UNCHANGED forks
    BY <1>2 DEF Construct_Array
  <2>2. {c \in Blocks : \E t \in Slots : Frame[t] = Pointer(c)} \subseteq PointedTo
    BY FrameHeld DEF PointedTo
  <2>3. E \in SUBSET Accessible
    BY <2>2, AccessibleClosed DEF Owned
  <2> QED  BY <2>1, <2>3, MakesBySet
<1>3. CASE Construct_Class(s)
  BY <1>3, MakesBySet DEF Construct_Class
<1>4. ASSUME NEW t \in Slots, Crystal_Clone(s, t)
      PROVE  Makes
  <2>1. PICK v \in Read(Frame[t]) : v \in Pointers /\ \E b \in Blocks :
          /\ Allocate(b, type[v.sym], elems[v.sym], FlagSource(v.sym)) /\ Set(s, Pointer(b))
          /\ UNCHANGED forks
    BY <1>4 DEF Crystal_Clone
  <2>2. v.sym \in Accessible /\ v.sym \in Blocks
    BY <2>1, ReadAccessible
  <2>3. v.sym \in Reachable /\ elems[v.sym] \in SUBSET Accessible
    BY <2>2, AccessibleClosed
  <2>4. type[v.sym] \in {"NIL", "STRING", "ARRAY", "CLASS_OBJ"}
    BY <2>2 DEF TypeOK
  <2> QED  BY <2>1, <2>3, <2>4, MakesBySet
<1>5. ASSUME NEW t \in Slots, Copy(s, t)
      PROVE  Looks
  <2>1. PICK v \in Read(Frame[t]) \cup {Frame[t], NilValue} : Set(s, v)
    BY <1>5 DEF Copy
  <2>2. v \in Value
    BY <2>1, FrameHeld, ReadValue DEF Value
  <2>3. UNCHANGED <<used_blocks, first, type, elems, history, sweep, forks>>
    BY <1>5 DEF Copy, gcVars
  <2>4. Owned' \subseteq Owned \cup {b \in Blocks : v \in {Pointer(b), Reference(b)}}
    BY <2>1, <2>2, <2>3, OwnedAfterSet
  <2>5. ASSUME NEW b \in Blocks, v \in {Pointer(b), Reference(b)}
        PROVE  b \in Accessible
    <3>1. CASE v = Frame[t]
      BY <2>5, <3>1, FrameHeld, AccessibleClosed DEF Owned, PointedTo, ReferencedTo
    <3>2. CASE v \in Read(Frame[t]) /\ v # Frame[t]
      <4>1. v \in Pointers
        BY <2>2, <2>5, <3>2, ConstantsAssumption DEF Read, Value, Pointers, Pointer, References, Reference
      <4>2. v.sym \in Accessible
        BY <3>2, <4>1, ReadAccessible
      <4> QED  BY <2>5, <4>1, <4>2 DEF Pointer, Reference
    <3>3. CASE v = NilValue
      BY <2>5, <3>3, ConstantsAssumption DEF Pointers, References, Pointer, Reference
    <3> QED  BY <2>1, <3>1, <3>2, <3>3
  <2>6. Owned' \subseteq Accessible
    BY <2>4, <2>5, AccessibleClosed
  <2> QED  BY <2>3, <2>6 DEF Looks
<1>6. ASSUME NEW t \in Slots, Val_Binding(s, t)
      PROVE  Looks
  <2>1. PICK v \in Read(Frame[t]) :
          v \in Pointers /\ \E r \in {Reference(v.sym), NilValue} : Set(s, r)
    BY <1>6 DEF Val_Binding
  <2>2. PICK r \in {Reference(v.sym), NilValue} : Set(s, r)
    BY <2>1
  <2>3. v.sym \in Accessible /\ v.sym \in Blocks
    BY <2>1, ReadAccessible
  <2>4. r \in Value
    BY <2>3 DEF Value, References, Reference
  <2>5. UNCHANGED <<used_blocks, first, type, elems, history, sweep, forks>>
    BY <1>6 DEF Val_Binding, gcVars
  <2>6. Owned' \subseteq Owned \cup {b \in Blocks : r \in {Pointer(b), Reference(b)}}
    BY <2>2, <2>4, <2>5, OwnedAfterSet
  <2>7. ASSUME NEW b \in Blocks, r \in {Pointer(b), Reference(b)}
        PROVE  b \in Accessible
    BY <2>2, <2>3, <2>7, ConstantsAssumption DEF Pointer, Reference, Pointers, References
  <2>8. Owned' \subseteq Accessible
    BY <2>6, <2>7, AccessibleClosed
  <2> QED  BY <2>5, <2>8 DEF Looks
<1>7. ASSUME NEW t \in Slots, Copy_Ref(s, t)
      PROVE  Stores
  <2> DEFINE b == Frame[s].sym
  <2>1. b \in ReferencedTo /\ b \in Blocks
    BY <1>7, FrameHeld DEF Copy_Ref, ReferencedTo, References, Reference
  <2>2. PICK v \in Read(Frame[t]) \cup {NilValue}, old \in SUBSET elems[b] :
          elems' = [elems EXCEPT ![b] = (@ \ old) \cup Target(v)]
    BY <1>7 DEF Copy_Ref
  <2>3. Target(v) \subseteq Accessible
    BY ReadAccessible, ConstantsAssumption DEF Target
  <2>4. elems[b] \subseteq Accessible
    BY <2>1, AccessibleClosed DEF Owned
  <2>5. elems' = [elems EXCEPT ![b] = (elems[b] \ old) \cup Target(v)]
    BY <2>2
  <2>6. UNCHANGED <<used_blocks, first, sweep, type, history, generations, forks>>
    BY <1>7 DEF Copy_Ref
  <2>7. (elems[b] \ old) \cup Target(v) \in SUBSET Accessible
    BY <2>3, <2>4
  <2> HIDE DEF b
  <2> QED  BY <2>1, <2>5, <2>6, <2>7 DEF Stores
<1>8. ASSUME NEW t \in Slots, NEW a \in Slots, Crystal_Array_Append(s, a, t)
      PROVE  Makes
  <2>1. /\ Frame[a] \in Pointers
        /\ \E b \in Blocks, v \in Read(Frame[t]) :
             /\ Allocate(b, "ARRAY", elems[Frame[a].sym] \cup Target(v), NoBlock)
             /\ Set(s, Pointer(b))
        /\ UNCHANGED forks
    BY <1>8 DEF Crystal_Array_Append
  <2>2. Frame[a].sym \in PointedTo
    BY <2>1, FrameHeld DEF PointedTo, Pointers, Pointer
  <2>3. elems[Frame[a].sym] \subseteq Accessible
    BY <2>2, AccessibleClosed DEF Owned
  <2>4. \A v \in Read(Frame[t]) : Target(v) \subseteq Accessible
    BY ReadAccessible DEF Target
  <2> QED  BY <2>1, <2>3, <2>4, MakesBySet
<1> QED  BY <1>1, <1>2, <1>3, <1>4, <1>5, <1>6, <1>7, <1>8 DEF Compute

(* The steps of a fork, the activations of Crystal_Fork. *)
LEMMA ForkKinds ==
  ASSUME TypeOK, Fork
  PROVE  Makes \/ Looks
<1>0. forks # <<>> /\ Len(forks) \in Nat \ {0} /\ Top \in Activations /\ forks \in Seq(Activations)
  BY TopType DEF Fork
<1>1. Top.src \in Blocks /\ Top.buffer \subseteq Buffers /\ Top.src \in Copying
  BY <1>0 DEF Top, Buffers, Copying, Activations
<1>2. ASSUME NEW c \in Top.todo, ForkNested(c)
      PROVE  Looks
  <2> DEFINE top == [Top EXCEPT !.todo = @ \ {c}]
             started == [forks EXCEPT ![Len(forks)] = top]
             new == [src |-> c, todo |-> elems[c], buffer |-> {}]
  <2>1. c \in Blocks /\ top \in Activations /\ new \in Activations
    BY <1>0 DEF Activations, TypeOK
  <2>2. forks' = Append(started, new)
    BY <1>0, <1>2 DEF ForkNested, Top
  <2>3. started \in Seq(Activations) /\ Len(started) = Len(forks)
    BY <1>0, <2>1
  <2>4. ASSUME NEW i \in 1 .. Len(forks)
        PROVE  started[i].buffer \subseteq Buffers
    <3>1. CASE i = Len(forks)
      <4>1. started[i] = top
        BY <1>0, <3>1
      <4>2. top.buffer = Top.buffer
        BY <1>0 DEF Activations
      <4> QED  BY <1>1, <4>1, <4>2
    <3>2. CASE i # Len(forks)
      <4>1. started[i] = forks[i]
        BY <1>0, <3>2
      <4> QED  BY <4>1 DEF Buffers
    <3> QED  BY <3>1, <3>2
  <2>5. Buffers' \subseteq Buffers
    <3> HIDE DEF started, new
    <3>1. Len(forks') = Len(forks) + 1 /\ forks'[Len(forks) + 1] = new
          /\ \A i \in 1 .. Len(forks) : forks'[i] = started[i]
      BY <1>0, <2>1, <2>2, <2>3
    <3>2. new.buffer = {}
      BY DEF new
    <3>3. \A i \in 1 .. Len(forks) + 1 : i \in 1 .. Len(forks) \/ i = Len(forks) + 1
      BY <1>0
    <3>4. \A i \in 1 .. Len(forks') : forks'[i].buffer \subseteq Buffers
      BY <2>4, <3>1, <3>2, <3>3
    <3> QED  BY <3>4 DEF Buffers
  <2>6. UNCHANGED <<used_blocks, first, type, elems, history, sweep, generations>>
    BY <1>2 DEF ForkNested, gcVars
  <2>7. Owned' \subseteq Owned
    BY <2>5, <2>6 DEF Owned, PointedTo, ReferencedTo, Held
  <2> QED  BY <2>6, <2>7, AccessibleClosed DEF Looks
<1>3. ASSUME NEW c \in Top.todo, ForkString(c)
      PROVE  Makes
  <2>1. PICK b \in Blocks :
          /\ Allocate(b, "STRING", {}, NoBlock)
          /\ forks' = [forks EXCEPT ![Len(forks)].todo = @ \ {c},
                                    ![Len(forks)].buffer = @ \cup {b}]
    BY <1>3 DEF ForkString
  <2> DEFINE top == [Top EXCEPT !.todo = @ \ {c}, !.buffer = @ \cup {b}]
  <2>2. top \in Activations /\ top.buffer = Top.buffer \cup {b}
    BY <1>0 DEF Activations
  <2>3. forks' = [forks EXCEPT ![Len(forks)] = top]
    BY <1>0, <2>1 DEF Top
  <2>4. Len(forks') = Len(forks)
        /\ \A i \in 1 .. Len(forks) : forks'[i] = IF i = Len(forks) THEN top ELSE forks[i]
    <3> HIDE DEF top
    <3> QED  BY <1>0, <2>2, <2>3
  <2>5. Buffers' \subseteq Buffers \cup {b}
    <3> HIDE DEF top
    <3>1. \A i \in 1 .. Len(forks') : forks'[i].buffer \subseteq Buffers \cup {b}
      BY <1>1, <2>2, <2>4 DEF Buffers
    <3> QED  BY <3>1 DEF Buffers
  <2>6. generations' = generations
    BY <1>3 DEF ForkString
  <2>7. Owned' \subseteq Owned \cup {b}
    BY <2>5, <2>6 DEF Owned, PointedTo, ReferencedTo, Held
  <2>8. {} \in SUBSET Accessible /\ "STRING" \in {"NIL", "STRING", "ARRAY", "CLASS_OBJ"}
        /\ "STRING" # "NIL"
    OBVIOUS
  <2> QED  BY <2>1, <2>7, <2>8 DEF Makes
<1>4. ASSUME NEW s \in Slots, ForkFinish(s)
      PROVE  Makes
  <2> DEFINE outer == SubSeq(forks, 1, Len(forks) - 1)
  <2>1. PICK b \in Blocks :
          /\ Allocate(b, type[Top.src], Top.buffer, FlagSource(Top.src))
          /\ IF outer = <<>>
               THEN forks' = <<>> /\ Set(s, Pointer(b))
               ELSE /\ forks' = [outer EXCEPT ![Len(outer)].buffer = @ \cup {b}]
                    /\ UNCHANGED generations
    BY <1>4 DEF ForkFinish
  <2>2. type[Top.src] \in {"NIL", "STRING", "ARRAY", "CLASS_OBJ"}
    BY <1>1 DEF TypeOK
  <2>3. Top.buffer \in SUBSET Accessible
    BY <1>1, AccessibleClosed DEF Owned
  <2>4. Top.src \in Reachable
    BY <1>1 DEF Reachable
  <2>5. CASE outer = <<>>
    BY <2>1, <2>2, <2>3, <2>4, <2>5, MakesBySet
  <2>6. CASE outer # <<>>
    <3>1. outer \in Seq(Activations) /\ Len(outer) = Len(forks) - 1
          /\ \A i \in 1 .. Len(outer) : outer[i] = forks[i]
      <4>1. PICK n \in Nat : n = Len(forks) - 1
        BY <1>0
      <4>2. outer \in Seq(Activations) /\ Len(outer) = n
        BY <1>0, <4>1
      <4>3. \A i \in 1 .. n : outer[i] = forks[i]
        BY <1>0, <4>1
      <4> QED  BY <4>1, <4>2, <4>3
    <3> HIDE DEF outer
    <3>2. Len(outer) \in Nat \ {0}
      BY <2>6, <3>1, EmptySeq
    <3> DEFINE last == outer[Len(outer)]
               filled == [last EXCEPT !.buffer = @ \cup {b}]
    <3>3. last \in Activations
      BY <3>1, <3>2
    <3>4. filled.buffer = last.buffer \cup {b} /\ filled \in Activations
      <4> HIDE DEF last
      <4> QED  BY <3>3 DEF Activations
    <3>5. forks' = [outer EXCEPT ![Len(outer)] = filled]
      BY <2>1, <2>6
    <3>6. \A i \in 1 .. Len(outer) : outer[i].buffer \subseteq Buffers
      BY <1>0, <3>1 DEF Buffers
    <3>7. Len(forks') = Len(outer)
          /\ \A i \in 1 .. Len(outer) : forks'[i] = IF i = Len(outer) THEN filled ELSE outer[i]
      <4> HIDE DEF filled
      <4> QED  BY <3>1, <3>2, <3>4, <3>5
    <3>8. last.buffer \subseteq Buffers
      BY <3>2, <3>6
    <3>9. \A i \in 1 .. Len(forks') : forks'[i].buffer \subseteq Buffers \cup {b}
      <4> HIDE DEF filled, last
      <4> QED  BY <3>4, <3>6, <3>7, <3>8
    <3>10. Buffers' \subseteq Buffers \cup {b}
      BY <3>9 DEF Buffers
    <3>11. generations' = generations
      BY <2>1, <2>6
    <3>12. Owned' \subseteq Owned \cup {b}
      BY <3>10, <3>11 DEF Owned, PointedTo, ReferencedTo, Held
    <3>13. PICK t, E, x : t = type[Top.src] /\ E = Top.buffer /\ x = FlagSource(Top.src)
      OBVIOUS
    <3>14. /\ t \in {"NIL", "STRING", "ARRAY", "CLASS_OBJ"} /\ E \in SUBSET Accessible
           /\ Allocate(b, t, E, x) /\ b \in Blocks
           /\ t = "NIL" => \E c \in Reachable : type[c] = "NIL"
      BY <2>1, <2>2, <2>3, <2>4, <3>13
    <3> QED  BY ONLY <3>12, <3>14 DEF Makes
  <2> QED  BY <2>5, <2>6
<1> QED  BY <1>2, <1>3, <1>4 DEF Fork

LEMMA NextKinds ==
  ASSUME TypeOK, [Next]_vars
  PROVE  Makes \/ Looks \/ Stores
<1>1. ASSUME UNCHANGED <<used_blocks, first, type, elems, history>>,
             sweep' \subseteq sweep \cup PointedTo,
             Held' \subseteq Held \cup {NilValue}, Buffers' \subseteq Buffers
      PROVE  Looks
  <2>1. Owned' \subseteq Owned
    BY <1>1, ConstantsAssumption
       DEF Owned, PointedTo, ReferencedTo, Pointers, References, Pointer, Reference
  <2> QED  BY <1>1, <2>1, AccessibleClosed DEF Looks
<1>2. CASE UNCHANGED vars
  BY <1>1, <1>2 DEF vars, gcVars, Held, Buffers
<1>3. CASE Call
  BY <1>1, <1>3, CallHeld DEF Call, Buffers
<1>4. CASE ReturnNothing
  BY <1>1, <1>4, ReturnNothingType DEF ReturnNothing, gcVars, Buffers
<1>5. ASSUME NEW s \in Slots, NEW t \in Slots, Return(s, t)
      PROVE  Looks
  <2>1. Target(Frame[s]) \subseteq PointedTo
    BY FrameHeld DEF Target, PointedTo, Pointers, Pointer
  <2> QED  BY <1>1, <1>5, <2>1, ReturnType DEF Return, Buffers
<1>6. ASSUME NEW t \in Slots, ForkStart(t)
      PROVE  Looks
  <2>1. forks' = <<[src |-> Frame[t].sym, todo |-> elems[Frame[t].sym], buffer |-> {}]>>
    BY <1>6 DEF ForkStart
  <2>2. Buffers' = {}
    BY <2>1 DEF Buffers
  <2> QED  BY <1>1, <1>6, <2>2 DEF ForkStart, gcVars, Held
<1> QED  BY <1>2, <1>3, <1>4, <1>5, <1>6, ComputeKinds, ForkKinds DEF Next, Program

(* No step brings anything within reach but the block it makes. *)
LEMMA MakesAccess ==
  ASSUME TypeOK, NEW b \in Blocks, NEW E \in SUBSET Accessible, NEW t, NEW x,
         Allocate(b, t, E, x), Owned' \subseteq Owned \cup {b}
  PROVE  Accessible' \subseteq Accessible \cup {b}
<1> DEFINE S == Accessible \cup {b}
<1>1. S \in SUBSET Blocks /\ Owned' \subseteq S
  BY AccessibleClosed
<1>2. elems' = [c \in Blocks |-> IF c = b THEN E ELSE IF c \in Survivors THEN elems[c] ELSE {}]
  BY DEF Allocate
<1>3. \A c \in S : elems'[c] \subseteq S
  BY <1>1, <1>2, AccessibleClosed
<1> HIDE DEF S
<1>4. Accessible' \subseteq S
  BY <1>1, <1>3, AccessibleLeast
<1> QED  BY <1>4 DEF S

LEMMA LooksAccess ==
  ASSUME TypeOK, Looks
  PROVE  Accessible' \subseteq Accessible
BY AccessibleClosed, AccessibleLeast DEF Looks

LEMMA StoresAccess ==
  ASSUME TypeOK, Stores
  PROVE  Accessible' \subseteq Accessible
<1>1. PICK b \in ReferencedTo, E \in SUBSET Accessible : elems' = [elems EXCEPT ![b] = E]
  BY DEF Stores
<1>2. Owned' = Owned
  BY DEF Stores, Owned, PointedTo, ReferencedTo, Buffers, Held
<1>3. \A c \in Accessible : elems'[c] \subseteq Accessible
  BY <1>1, AccessibleClosed DEF TypeOK
<1> QED  BY <1>2, <1>3, AccessibleClosed, AccessibleLeast

---------------------------------------------------------------------------
(* Garbage.  The inductive invariant: what the last collection spared as   *)
(* garbage is still in use, and nothing can spare it again: it has no      *)
(* flag, it is not the head of the list and the program cannot get at it.  *)
Spent ==
  /\ spared \subseteq used_blocks
  /\ spared \cap (sweep \cup {first} \cup Accessible) = {}
  /\ leaked = {}

LEMMA MarkedAccessible ==
  ASSUME TypeOK
  PROVE  Marked \subseteq Accessible
<1>1. PointedTo \subseteq Accessible /\ Accessible \in SUBSET Blocks
  BY AccessibleClosed DEF Owned
<1>2. \A c \in Accessible : Traced(c) \subseteq Accessible
  BY AccessibleClosed DEF Traced
<1> QED  BY <1>1, <1>2 DEF Marked

LEMMA AllocateSpent ==
  ASSUME TypeOK, RootsKept, ListsConsistent, Spent, Makes
  PROVE  Spent'
<1>1. PICK b \in Blocks, E \in SUBSET Accessible : \E t, x :
        Allocate(b, t, E, x) /\ Owned' \subseteq Owned \cup {b}
  BY DEF Makes
<1>2. PICK t, x : Allocate(b, t, E, x) /\ Owned' \subseteq Owned \cup {b}
  BY <1>1
<1>3. /\ b \notin Survivors
      /\ used_blocks # {} => first \in Survivors
      /\ Survivors \subseteq used_blocks
  BY <1>2, AllocateLists, RootsSurvive
<1>4. Accessible' \subseteq Accessible \cup {b} /\ Accessible \subseteq Reachable
  BY <1>2, MakesAccess, AccessibleClosed
<1>5. /\ used_blocks' = Survivors \cup {b}
      /\ first' = IF used_blocks = {} THEN b ELSE first
      /\ sweep' \subseteq Flags \cup {b}
      /\ spared' = IF Trigger THEN Survivors \ (Reachable \cup {first}) ELSE spared
      /\ leaked' = leaked \cup (IF Trigger THEN spared \cap spared' ELSE {})
  BY <1>2 DEF Allocate
<1>6. CASE ~Trigger
  <2>1. Survivors = used_blocks /\ Flags = sweep /\ spared' = spared /\ leaked' = leaked
    BY <1>5, <1>6 DEF Survivors, Flags
  <2>2. b \notin spared
    BY <1>3, <2>1 DEF Spent
  <2> QED  BY <1>4, <1>5, <2>1, <2>2 DEF Spent
<1>7. CASE Trigger
  <2>1. Survivors \subseteq {first} \cup sweep \cup Marked /\ Flags \subseteq {first}
    BY <1>7 DEF Survivors, Kept, Flags
  <2>2. spared' = Survivors \ (Reachable \cup {first})
    BY <1>5, <1>7
  <2>3. spared \cap spared' = {}
    BY <2>1, <2>2, MarkedAccessible DEF Spent
  <2>4. leaked' = {}
    BY <1>5, <2>3 DEF Spent
  <2>5. b \notin spared' /\ first \notin spared' /\ spared' \cap Accessible = {}
    BY <1>3, <1>4, <2>2
  <2>6. first' \notin spared'
    BY <1>3, <1>5, <2>2, <2>5
  <2>7. spared' \subseteq used_blocks'
    BY <1>5, <2>2
  <2> QED  BY <1>4, <1>5, <2>1, <2>4, <2>5, <2>6, <2>7 DEF Spent
<1> QED  BY <1>6, <1>7

LEMMA NextSpent ==
  ASSUME TypeOK, RootsKept, ListsConsistent, Spent, [Next]_vars
  PROVE  Spent'
<1>1. CASE Makes
  BY <1>1, AllocateSpent
<1>2. CASE Looks
  <2>1. PointedTo \subseteq Accessible
    BY AccessibleClosed DEF Owned
  <2> QED  BY <1>2, <2>1, LooksAccess DEF Looks, Spent, history
<1>3. CASE Stores
  BY <1>3, StoresAccess DEF Stores, Spent, history
<1> QED  BY <1>1, <1>2, <1>3, NextKinds

(* For every program: garbage does not stay.  Whatever a collection finds  *)
(* unreachable and yet spares, for the flag GC_Extend_Generation or        *)
(* Clone_Class left on it, the next collection sweeps (GC::Collect); only  *)
(* the head of used_blocks is never freed.                                 *)
THEOREM GarbageAlwaysLeaves == Spec => []GarbageLeaves
<1>1. Init => Spent
  BY DEF Init, Spent
<1>2. TypeOK /\ RootsKept /\ ListsConsistent /\ Spent /\ [Next]_vars => Spent'
  BY NextSpent
<1>3. Spent => GarbageLeaves
  BY DEF Spent, GarbageLeaves
<1> QED  BY <1>1, <1>2, <1>3, TypeCorrect, RootsAreKept, ListsAreConsistent, PTL DEF Spec

---------------------------------------------------------------------------
(* Programs without any of the Habits: the collector implements            *)
(* ManagedHeap.  Besides DisciplinedInv the proof needs that the source of *)
(* a fork is in a variable, and that every block in use has a type.        *)
Rooted == forks # <<>> => Top.src \in PointedTo
Typed  == \A c \in used_blocks : type[c] # "NIL"

IdealInv == DisciplinedInv /\ Rooted /\ Typed

LEMMA ReachableAccessible ==
  IdealInv => /\ Reachable = Accessible /\ Reachable \subseteq used_blocks
              /\ \A c \in Reachable : type[c] # "NIL" /\ elems[c] \subseteq Reachable
<1> SUFFICES ASSUME IdealInv
             PROVE  /\ Reachable = Accessible /\ Reachable \subseteq used_blocks
                    /\ \A c \in Reachable : type[c] # "NIL" /\ elems[c] \subseteq Reachable
  OBVIOUS
<1>1. TypeOK /\ Shallow /\ DisciplinedInv
  BY DEF IdealInv, DisciplinedInv
<1>2. Copying \subseteq PointedTo
  <2>1. ASSUME NEW i \in 1 .. Len(forks)
        PROVE  forks[i].buffer \cup {forks[i].src} \subseteq PointedTo
    <3>1. forks # <<>>
      BY EmptySeq
    <3>2. Len(forks) = 1 /\ Top.src \in PointedTo /\ Top.buffer = {}
      BY <1>1, <3>1 DEF Shallow, IdealInv, Rooted
    <3>3. forks[i] = Top
      BY <3>2 DEF Top
    <3> QED  BY <3>2, <3>3
  <2> QED  BY <2>1 DEF Copying
<1>3. Reachable \subseteq Accessible
  BY <1>1, <1>2, AccessibleClosed DEF Reachable, Owned
<1>4. Reachable = Accessible
  BY <1>1, <1>3, AccessibleClosed
<1>5. Reachable \subseteq used_blocks
  BY <1>1, DisciplinedImpliesSafe DEF NoDangling
<1> QED  BY <1>1, <1>4, <1>5, AccessibleClosed DEF IdealInv, Typed

LEMMA NextRooted ==
  ASSUME DisciplinedInv, Rooted, [Next]_vars
  PROVE  Rooted'
<1>1. TypeOK /\ Shallow
  BY DEF DisciplinedInv
<1>2. CASE UNCHANGED vars
  BY <1>2 DEF vars, Rooted, Top, PointedTo, Held
<1>3. ASSUME forks' = <<>>
      PROVE  Rooted'
  BY <1>3 DEF Rooted
<1>4. ASSUME NEW s \in Slots, forks = <<>>, Compute(s)
      PROVE  forks' = <<>>
  BY <1>4 DEF Compute, Construct_String, Construct_Array, Construct_Class, Crystal_Clone, Copy,
              Val_Binding, Copy_Ref, Crystal_Array_Append
<1>5. ASSUME NEW t \in Slots, ForkStart(t)
      PROVE  Rooted'
  <2>1. Frame[t].sym \in PointedTo
    BY <1>1, <1>5, FrameHeld DEF ForkStart, PointedTo, Pointers, Pointer
  <2>2. forks' = <<[src |-> Frame[t].sym, todo |-> elems[Frame[t].sym], buffer |-> {}]>>
    BY <1>5 DEF ForkStart
  <2>3. Top' = [src |-> Frame[t].sym, todo |-> elems[Frame[t].sym], buffer |-> {}]
    BY <2>2 DEF Top
  <2> QED  BY <1>5, <2>1, <2>3 DEF ForkStart, Rooted, PointedTo, Held
<1>6. CASE Fork
  <2>1. forks # <<>> /\ Len(forks) = 1 /\ Top.todo = {}
    BY <1>1, <1>6 DEF Fork, Shallow
  <2>2. PICK s \in Slots : ForkFinish(s)
    BY <1>6, <2>1 DEF Fork
  <2>3. SubSeq(forks, 1, Len(forks) - 1) = <<>>
    BY <2>1, SubSeqEmpty
  <2> QED  BY <1>3, <2>2, <2>3 DEF ForkFinish
<1> QED  BY <1>2, <1>3, <1>4, <1>5, <1>6 DEF Next, Program, Call, ReturnNothing, Return

LEMMA NextTyped ==
  ASSUME IdealInv, [Next]_vars
  PROVE  Typed'
<1>1. TypeOK
  BY DEF IdealInv, DisciplinedInv
<1>2. CASE Makes
  <2>1. PICK b \in Blocks, E \in SUBSET Accessible, t \in {"NIL", "STRING", "ARRAY", "CLASS_OBJ"} :
          \E x : Allocate(b, t, E, x) /\ (t = "NIL" => \E c \in Reachable : type[c] = "NIL")
    BY <1>2 DEF Makes
  <2>2. t # "NIL"
    BY <2>1, ReachableAccessible
  <2>3. /\ used_blocks' = Survivors \cup {b}
        /\ type' = [c \in Blocks |-> IF c = b THEN t ELSE IF c \in Survivors THEN type[c] ELSE "NIL"]
    BY <2>1 DEF Allocate
  <2>4. Survivors \subseteq used_blocks /\ used_blocks \subseteq Blocks
    BY <1>1 DEF Survivors, Kept, TypeOK
  <2> QED  BY <2>2, <2>3, <2>4 DEF Typed, IdealInv
<1>3. CASE Looks \/ Stores
  BY <1>3 DEF Looks, Stores, Typed, IdealInv
<1> QED  BY <1>1, <1>2, <1>3, NextKinds

(* A collection keeps what is accessible. *)
LEMMA AccessibleSurvives ==
  ASSUME IdealInv, MayAllocate, Allowed = {}
  PROVE  Accessible \subseteq Survivors
<1>1. TypeOK /\ RootsKept /\ DisciplinedInv /\ Shallow
  BY DEF IdealInv, DisciplinedInv
<1>2. PointedTo \subseteq Survivors /\ Survivors \subseteq Blocks /\ ReferencedTo \subseteq PointedTo
  BY <1>1, RootsSurvive DEF MayAllocate, TypeOK
<1>3. Buffers = {}
  <2>1. ASSUME NEW i \in 1 .. Len(forks)
        PROVE  forks[i].buffer = {}
    <3>1. forks # <<>>
      BY EmptySeq
    <3>2. Len(forks) = 1 /\ Top.buffer = {}
      BY <1>1, <3>1 DEF Shallow
    <3>3. forks[i] = Top
      BY <3>2 DEF Top
    <3> QED  BY <3>2, <3>3
  <2> QED  BY <2>1 DEF Buffers
<1>4. Owned \subseteq Survivors
  BY <1>2, <1>3 DEF Owned
<1>5. \A c \in Survivors : elems[c] \subseteq Survivors
  BY <1>1, SurvivorsClosed
<1> QED  BY <1>2, <1>4, <1>5 DEF Accessible

(* Every step of the program and of the collector is a step of ManagedHeap *)
(* or leaves the reachable objects alone.                                  *)
LEMMA NextIdeal ==
  ASSUME IdealInv, IdealInv', Allowed = {}, [Next]_vars,
         Reachable = Accessible, (Reachable = Accessible)',
         (\A c \in Reachable : type[c] # "NIL" /\ elems[c] \subseteq Reachable)'
  PROVE  Ideal!Next
<1>1. TypeOK /\ RootsKept /\ ListsConsistent
  BY DEF IdealInv, DisciplinedInv
<1>2. Reachable \subseteq Blocks /\ Reachable' \subseteq Blocks
  BY DEF Reachable
<1>3. CASE Makes
  <2>1. PICK b \in Blocks, E \in SUBSET Accessible :
          \E t, x : Allocate(b, t, E, x) /\ Owned' \subseteq Owned \cup {b}
    BY <1>3 DEF Makes
  <2>2. PICK t, x : Allocate(b, t, E, x) /\ Owned' \subseteq Owned \cup {b}
    BY <2>1
  <2>3. Reachable \subseteq Survivors /\ b \notin Survivors
    BY <1>1, <2>2, AccessibleSurvives, AllocateLists DEF Allocate
  <2>4. Reachable' \subseteq Reachable \cup {b}
    BY <1>1, <2>2, MakesAccess
  <2>5. /\ type' = [c \in Blocks |-> IF c = b THEN t ELSE IF c \in Survivors THEN type[c] ELSE "NIL"]
        /\ elems' = [c \in Blocks |-> IF c = b THEN E ELSE IF c \in Survivors THEN elems[c] ELSE {}]
    BY <2>2 DEF Allocate
  <2>6. \A c \in Reachable : type'[c] = type[c] /\ elems'[c] = elems[c]
    BY <1>2, <2>3, <2>5
  <2>7. elems'[b] \subseteq Reachable
    BY <2>5
  <2>8. CASE b \in Reachable'
    <3>1. Ideal!New(b, Reachable, Reachable')
      BY <2>3, <2>4, <2>6, <2>7, <2>8 DEF Ideal!New, Ideal!Same
    <3> QED  BY <3>1 DEF Ideal!Next
  <2>9. CASE b \notin Reachable'
    <3>1. Ideal!Forget(Reachable, Reachable')
      BY <2>4, <2>6, <2>9 DEF Ideal!Forget, Ideal!Same
    <3> QED  BY <3>1 DEF Ideal!Next
  <2> QED  BY <2>8, <2>9
<1>4. CASE Looks
  <2>1. Ideal!Forget(Reachable, Reachable')
    BY <1>1, <1>4, LooksAccess DEF Looks, Ideal!Forget, Ideal!Same
  <2> QED  BY <2>1 DEF Ideal!Next
<1>5. CASE Stores
  <2>1. PICK b \in ReferencedTo : \E E : elems' = [elems EXCEPT ![b] = E]
    BY <1>5 DEF Stores
  <2>2. Reachable' \subseteq Reachable /\ type' = type
    BY <1>1, <1>5, StoresAccess DEF Stores
  <2>3. \A c \in Blocks \ {b} : elems'[c] = elems[c]
    BY <1>1, <2>1 DEF TypeOK
  <2>4. b \in Reachable' /\ b \in Blocks
    BY <1>5 DEF Stores, Reachable, ReferencedTo, Held
  <2>5. Ideal!Store(b, Reachable, Reachable')
    BY <1>2, <2>2, <2>3, <2>4 DEF Ideal!Store, Ideal!Same
  <2> QED  BY <2>4, <2>5 DEF Ideal!Next
<1> QED  BY <1>1, <1>3, <1>4, <1>5, NextKinds

(* Safety, as a refinement, for programs without any of the Habits: the    *)
(* collector is invisible.  Seen through its reachable blocks the heap of  *)
(* GC_Allocate and GC::Collect behaves as one that is never collected.     *)
THEOREM CollectorInvisible ==
  ASSUME Allowed = {}
  PROVE  Spec => IdealSpec
<1>1. Init => Ideal!Init /\ Closed /\ Plain /\ Indexed /\ Shallow /\ Rooted /\ Typed
  <2> SUFFICES ASSUME Init
               PROVE  PointedTo \cup ReferencedTo \cup Copying = {}
    BY DEF Init, Closed, Plain, Indexed, Shallow, Rooted, Typed, Ideal!Init, Reachable
  <2>1. Held \subseteq {NilValue}
    BY DEF Init, Held
  <2>2. Copying = {}
    BY DEF Init, Copying
  <2> QED  BY <2>1, <2>2, ConstantsAssumption
           DEF ReferencedTo, PointedTo, Reference, References, Pointer, Pointers
<1>2. DisciplinedInv /\ [Next]_vars => (Closed /\ Plain /\ Indexed /\ Shallow)'
  BY NextDisciplined
<1>3. DisciplinedInv /\ Rooted /\ [Next]_vars => Rooted'
  BY NextRooted
<1>4. IdealInv /\ [Next]_vars => Typed'
  BY NextTyped
<1>5. IdealInv <=> /\ DisciplinedInv /\ Rooted /\ Typed
  BY DEF IdealInv
<1>6. DisciplinedInv <=> /\ TypeOK /\ RootsKept /\ ListsConsistent
                         /\ Closed /\ Plain /\ Indexed /\ Shallow
  BY DEF DisciplinedInv
<1>7. IdealInv => /\ Reachable = Accessible
                  /\ \A c \in Reachable : type[c] # "NIL" /\ elems[c] \subseteq Reachable
  BY ReachableAccessible
<1>8. /\ IdealInv /\ IdealInv' /\ [Next]_vars
      /\ Reachable = Accessible /\ (Reachable = Accessible)'
      /\ (\A c \in Reachable : type[c] # "NIL" /\ elems[c] \subseteq Reachable)'
      => [Ideal!Next]_<<Reachable, type, elems>>
  BY NextIdeal
<1> QED  BY <1>1, <1>2, <1>3, <1>4, <1>5, <1>6, <1>7, <1>8,
            TypeCorrect, RootsAreKept, ListsAreConsistent, PTL
         DEF Spec, IdealSpec, Ideal!Spec
=============================================================================
