# Verification of Crystal Clear

TLA+ models of the Crystal Clear compiler and runtime (`src/Crystal`), the TLC
configurations that check them on small instances, and TLAPS proofs of the
properties that matter most.

## The system

Crystal Clear compiles a Ruby-like language ahead of time to x86 code and runs
it. A source file goes through these parts:

| Part | Source | State | Operations | Hard behaviour |
|---|---|---|---|---|
| Lexer | `Lexicon.cpp` | position in the text | next token, classification | none: pure scanning |
| Interpreter | `Interpreter.cpp` | packages, classes, locals, the current tree | a pass that collects packages, classes and functions, one that compiles; binding of names | two passes count the same scopes in two ways, and the second relies on what the first registered |
| Syntax tree | `Syntax_Tree.cpp` | nodes, result registers, bytecode list | insertion by precedence, folding, evaluation | a register freed too early is overwritten by a sibling |
| Constant folding | `Reductions.cpp` | none | one reduction per operator | must agree with the runtime operators |
| Bytecode generators | `Operations.cpp`, `Native.cpp` | none | one generator per operator and statement | copies into the result register first |
| Clarity filters | `Clarity_Filter.cpp` | a set of types and a dilution | set, dilute, obscure, test, combine | must cover all types a symbol can take |
| Code generator | `Compiler.cpp` | a filter per symbol, open blocks with their corruptions | one per operator and control structure | types known at compile time on every path of the run |
| Machine | `Machines/x86_Machine.cpp` | program text, labels, jumps that wait for a label | one emitter per instruction, labels | code that is patched after it was emitted |
| Linker | `Linker.cpp` | tables of functions, strings, doubles | link, read, write | what is written must be read back |
| Runtime operators | `Obscure.cpp`, `Function.cpp`, `Helper.cpp` | symbols of the frame, blocks | dynamic operators, append, index, conversions | aliasing of elements by references |
| Garbage collector | `Garbage_Collector.cpp` | lists of used and free blocks, flags, generations | allocate, collect, branch, prune, extend | collections between any two steps of a program |
| Containers | `Containers.cpp` | none | contains, index, size, clone, fork | allocation in the middle of a copy |
| Marshaler | `Marshal.cpp` | an open file and a count | open, dump, close, load | a crash before close |
| Class generator, core library | `Generator.cpp`, `Core.cpp`, `Library.cpp` | class tables | registration at start-up | none |
| Mathematics, files, console | `Math.cpp`, `Filesystems.cpp`, `IO.cpp`, `OS.cpp` | none | wrappers of the C library | none |
| Driver | `main.cpp` | none | command line | none |

The lexer feeds the interpreter, which builds one syntax tree per line; the tree
folds constants, allocates registers and calls the bytecode generators, which
call the code generator, which consults and updates the clarity filters and
emits code for the machine; the linker resolves the addresses. At run time the
emitted code calls the runtime operators and helpers directly. They share the
symbols of the running function's stack frame with the compiled code, and the
blocks of the heap with the garbage collector, whose roots are those frames.
The program is single threaded. What makes it hard is order: a collection may
happen inside every allocation, and compiled code relies on what the compiler
assumed about symbols many instructions earlier and on other paths.

What makes each part correct:

* garbage collector: no block the program can still reach is freed or handed
  out again; garbage is freed eventually; the lists never share a block;
* code generator and filters: on every path the types that occur are among
  those the code was compiled for;
* operators: folded, statically compiled and dynamic evaluation agree;
* syntax tree: an intermediate result is in its register until it is used;
* machine: a jump lands on its label, in whatever order the two were made;
* linker, marshaler: what is read back is what was written;
* interpreter: every name is bound to what the finished program declares.

The hazards, each with its source line, are listed in `PROJECT.json`.

## Modules

| Module | Contents |
|---|---|
| `GarbageCollector` | the collector, and the compiled code and helpers that use it |
| `ManagedHeap` | abstract heap without a collector: what the README of Crystal promises |
| `MCGarbageCollector` | TLC instance: symmetry |
| `GarbageCollectorProofs` | theorems about `GarbageCollector`: types, roots, lists, no dangling block, garbage leaves, the refinement of `ManagedHeap` |
| `ClarityFilter` | the compiler's sets of types |
| `Compiler` | the code generator and, in lock step, the run of the code it generates |
| `MCCompiler` | TLC instance: the sets of types |
| `CompilerProofs` | theorems about the structure of the code and the open blocks |
| `FilterProofs` | theorems about the filters and the types that the code meets |
| `Operators`, `MCOperators` | the operators as folded, as compiled statically and as evaluated at run time; TLC instance: the numbers |
| `OperatorsProofs` | theorems about `Operators`: types, agreement of the three, elements |
| `SyntaxTree` | one statement through the tree: insertion, folding, registers |
| `Statement`, `MCSyntaxTree` | what a statement means by its symbols alone, to compare the tree with; TLC instance: all symbols |
| `SyntaxTreeProofs` | theorems about `SyntaxTree`: types, registers freed, operands kept, statements grouped |
| `Interpreter`, `MCInterpreter` | the two passes over a program; TLC instance |
| `InterpreterProofs` | theorems about `Interpreter`: types, duplicates, functions, names |
| `Jumps` | labels and jumps of the x86 machine |
| `JumpsProofs` | theorems about `Jumps` |
| `Marshaler`, `MCMarshaler` | the marshaler over the C library and a disk, with crashes; TLC instance: the values |
| `DumpFiles` | what the marshaler promises, without streams, buffers and counts |
| `MarshalerProofs` | theorems about `Marshaler`: types, streams, the refinement of `DumpFiles` |

### GarbageCollector

State. `used_blocks` and `free_blocks` are the lists of the class `GC`; of the
order of `used_blocks` only the head matters, because the sweep starts at
`++used_blocks.begin()`, so the list is a set and its head `first`. `sweep` is
the set of blocks whose flag is set. `type` and `elems` are what a block holds;
a payload is the set of blocks its elements point to, because scalars, order and
size do not matter to the collector. `generations` is `GC::generations` together
with the frames it points to: one function from slots (locals and registers) to
values per open call. `forks` is the C++ stack of `Crystal_Fork`. `spared` and
`leaked` are history variables for `GarbageLeaves`.

Actions. `Allocate` is `GC_Allocate` with the collection it may start and the
initialisation the caller does next; no other step can come between.
`Construct_String`, `Construct_Array`, `Construct_Class`, `Crystal_Array_Append`
and `Crystal_Clone` are the helpers that allocate. `Copy`, `Val_Binding` and
`Copy_Ref` move values between symbols and elements. `Call` is the prologue of
a function (`Start_Encode`), `Return` and `ReturnNothing` its epilogues. A fork
is several steps (`ForkStart`, `ForkNested`, `ForkString`, `ForkFinish`), since
it allocates many times.

The marking of `GC::Mark` is stated as the least set that contains the roots and
is closed under `Traced`. A block whose flag is set before the collection is not
entered; frames' symbols have their own flag cleared first.

The constant `Allowed` says what programs the model runs. The collector treats
five ways of holding blocks unlike a pointer in a local variable (`Habits`); a
program without any of them is called disciplined. The habits are conditions on
the program's next step, so that a run or a theorem says which programs it is
about.

The behaviour after a freed block in use is undefined in C++, so `Next` stops
there, and the bounded set of blocks may be exhausted, which the real heap is
not: the runs do not check deadlock.

The habits of `GarbageCollector`. Each one alone lets TLC find a violation of
`NoDangling`, when the `Allowed` of `GC_nested.cfg` names it:

| Habit | What the program does | What happens |
|---|---|---|
| `pinned` | the first block ever allocated holds pointers | its flag is never cleared, so the second collection does not trace it (`Garbage_Collector.cpp:77`) |
| `returned` | a returned container holds pointers | `GC_Extend_Generation` sets the flag, the next `Mark` does not enter the block (`Garbage_Collector.cpp:165`) |
| `object` | an attribute is a pointer | `Mark` does not follow attributes (`Garbage_Collector.cpp:132`) |
| `reference` | an element reference outlives the last pointer to its container | references are no roots (`Helper.cpp:400`) |
| `fork` | a container that holds pointers is forked | the copies wait in a buffer that is no root (`Containers.cpp:119`) |

### ClarityFilter and Compiler

The compiler walks a function once. For every symbol it keeps a clarity filter,
a set of the types the symbol may have at run time, and emits the shortest code
that works for them. Whether the filters are right is a question about all paths
through the generated code, so `Compiler` compiles and executes at the same
time: an action of `Compile` is one method of `Crystal_Compiler`, which changes
filters and open blocks and appends instructions; an action of `Run` executes
one instruction. Compilation proceeds when execution has reached the end of the
code, or waits for a label that has not been placed. TLC thus chooses a program
and a run of it together, and the instructions behind the tip can be forgotten
unless a loop is open. This loses no path: whatever a finished program does up
to a point of its text, execution can do here when compilation is at that point.

State. `states` and `lookups` are the compiler's members of these names, a
lookup being the record `CryLookup` with the labels of the next branch (`next`)
and the end of the block (`block`), the loop's label (`back`, 0 for none) and
`corruptions`; `pending` says that the condition is still to come. `live` are
the registers that hold a result of the statement being compiled. `code` and
`pc` are the program; `env` is the type each symbol has. Values are abstracted
to their types and conditions to a free choice, because the filters speak of
types only. A pointer is represented as the type of its block.

An instruction carries the types of its operands that it was selected for
(`dneeds`, `sneeds`): the types whose words a `Copy` moves, the type a static
operator computes with, the types whose truth a condition reads correctly.
`CodeSound` says that no instruction meets another type. What follows unsound
code is undefined, and execution stops there.

`Dynamic` gives the types that `Obscure_*` leaves in its first operand. It is a
set, because an element may hold anything and because some of those functions
write their result through the reference, so that the symbol stays one.

The filters are not kept right for everything. The constant `Allowed` names what
the program may do of these `Habits`; each one alone lets TLC find a violation
of the property named:

| Habit | Example | What happens |
|---|---|---|
| `else` | `if c; x = "s"; else; y = x + 1; end` | `Else` keeps the filters of the branch before it and drops its corruptions (`Compiler.cpp:641`): `FiltersCover` |
| `condition` | `for i in x ... end` with `x` of a known type that the body changes | the expression was compiled before the filters are obscured and runs again after the body (`Compiler.cpp:586`): `CodeSound` |
| `compound` | `x = 1; if c; x += "s"; end` | operators do not mark their destination as corrupted (`Compiler.cpp:2739`): `FiltersCover` |
| `element` | `y = a[0] = 5` | the filter becomes that of the value stored, the symbol stays a reference (`Compiler.cpp:861`): `CodeSound` |
| `swap` | `a[0] <> x` | the type bytes are exchanged, the words that hold the reference are not unless a filter has a pointer (`Compiler.cpp:890`): `CodeSound` |
| `stale` | `b = a[0]; c = x + 1` | the register still is a reference for the next statement, which stores into `a[0]` (`Compiler.cpp:743`): `FiltersCover`. The implicit return does the same with its nil and hands out the type byte of the reference: `CodeSound` |
| `operand` | `a[0] + 1` with nil or a text in `a[0]` | two flags with dilution 1 (`Clarity_Filter.cpp:83`): `FiltersCover` |
| `not` | `y = !x` with a number in `x` | the result is a boolean, the filter is not changed (`Compiler.cpp:907`): `FiltersCover` |
| `range` | `a[10]` of a shorter array | nil under a filter of a reference; reading it is handled, storing through it is not: `CodeSound` for stores |

`Sub` stands for `Mul` and `Pow`, `Les` for the four comparisons, `Eql` for
`Dif`, `And` for `Or`: they choose between static and dynamic code, and between
types, in the same way. Calls of helpers that are never linked (see Operators)
are taken to return what the filters say they do.

### Operators

An operator has three implementations: the folding of constants
(`Reductions.cpp`), code for known types (`Compiler.cpp`) and the runtime
(`Obscure.cpp`). Which one a program gets depends on what the compiler knows, so
the language is only defined if they agree. `Operators` evaluates one expression
operator by operator in the three ways at once. `folded`, `compiled` and
`dynamic` are the values of the accumulator; `element` is the array element the
accumulator was read from and `refers` tells if it still refers to it, because
several runtime operators write their result through the reference.

Integers have `Width` bits and wrap, doubles are fractions, a text is the
sequence of values it is the text of. A value that the code reads without having
written it is `Unknown`: its bytes are left to chance.

Some static code cannot run at all: `Unlinked` is the result of a call of a
helper that `Library.cpp` does not register, or of a load from a pool that the
linker is not given. It is what every `&&` and `||` that is not folded gives
(`Crystal_And` and `Crystal_Or`, `Compiler.cpp:1864-1908`, in the runtime case
too), a constant text joined with what is no text (`Crystal_Const_Append_T` and
`_TL`, `Compiler.cpp:1133`), a constant appended to a string (`Call` instead of
`Runtime`, `Compiler.cpp:1177`), a power of doubles (`Power_Syms` and `_SymsR`,
`Compiler.cpp:1770` and `1840`), and an integer constant that meets a double
(`FPU_Load` of an integer uses a pool of floats, `x86_Machine.cpp:978`, of which
`Crystal_Compiler::Linker` knows nothing). These are all the names passed to
`Runtime` in `Compiler.cpp` that are not registered, printing aside.
The linker only prints `Failed to link function` (`Linker.cpp:100`), and the
tests have such expressions: `print(x && y)`
(`src/Test/operations/bool_ops.cry:14`), `print(y + " = " + 2200)`
(`src/Test/operations/operation_test.cry:34`), `print(pw ^ pw + ...)`
(`src/Test/sample/integration.cry:64`). An expression ends there, and the step
is one of those excused below.

The three do not agree everywhere. `Differs` lists where, each disjunct with its
reason, in the order of the code that is the odd one; after such a step the
expression is `excused`. Every disjunct is needed: `Agreed` or `ElementsKept` is violated without
it. What the run shows is that there are no other differences, over chains of
operators with constants, symbols and elements on either side.

### SyntaxTree

One statement after the other is read symbol by symbol (`ReadSymbol`, with the
priority that `Process_Package` gives), inserted into the tree (`Process`),
folded (`Reduce`) and evaluated (`Evaluate`), children first, with the
allocation and release of registers. A node is the position of its symbol. The
recursion of the code over the tree is stated without recursive operators:
`todo` is the set of operations that are left, `IsNext` the one that the
recursion of `Syntax_Node::Evaluate` comes to next, and `Spine` and `Subtree`
are what is `Reach`ed by its loops.
`Meaning`, in `Statement`, is an independent definition of what a statement
means: split it at the weakest operator outside of brackets.
`TreeMeansStatement` compares the two. `TreeGroups` says the same without
recursion, except for which argument of a call an operand becomes and what a
bracket is used for: the tree of a complete statement has all of its symbols, the
operands of a symbol stand around it in their order, and each binds stronger than
the symbol (`Stronger`: by brackets, then by strength) or as strong and on the side
its associativity says.
The strengths are those of the language, not the priorities of the code.
`holds` is a history variable: the node whose value a register has when the code
runs; with it `OperandsKept` says that no register was reused too early.

| Habit | Example | What happens |
|---|---|---|
| `differs` | `2 != 4` | `Process` takes every symbol that starts with `!` for the prefix operator (`Syntax_Tree.cpp:45`): `TreeMeansStatement`, kept as run `SyntaxTree_differs` |
| `getter` | `x.m[i]` | read as `x.(m[i])`: `TreeMeansStatement` |
| `element` | `[@a = x, @b]` | the register of the reference is freed and taken by the next operand (`Syntax_Tree.cpp:201`): `OperandsKept` |

### Interpreter

A first stage writes any well-formed program, line by line, and keeps in `defs`
what a reader takes its functions to be. Then the two passes of
`Interpreter.cpp` run over the same lines: `Process_Lookups` collects classes,
functions and attributes and reports errors, which stop nothing;
`Process_Logic` and `Process_Package` compile each function where they find it.
The passes count scopes by different tests and share nothing but the tables.
`Lookup_Processing` is the order in which a name is looked for.

| Habit | What the program has | What happens |
|---|---|---|
| `text` | a text `"end"`, `"if"` or `"."` | the first pass takes it for a keyword (`Interpreter.cpp:317`), the second for a dot of the next line (`:659`): `PassesAgree`, `NamesResolved` |
| `nested` | a function in a function | accepted, and never compiled (`:321`): `PassesAgree` |
| `stray` | an attribute outside of a class | a slot of a null class (`:614`): `NamesResolved` |
| `shadow` | an argument named like a function | found to be the function (`:592`): `NamesResolved` |
| `override` | a method that every class has | replaced between the passes (`:142`): `NamesResolved` |

### Jumps and JumpsProofs

The machine writes code at `p`, one instruction after the other, and goes back
for one reason only: a jump to a label that was not made yet. `Make_Label`
patches it, and has to find out from the bytes around it how much room it was
given. `mem` are the cells of the code (a displacement of four bytes is one cell
and three of rest), `cls` the addresses of labels, `cjs` the jumps forward, as in
the code; `cond`, `back` and `other` are history. Every other instruction is an
`Emit` of some size. The conditions differ in their opcode only and are one.

| Habit | What the compiler would do | What happens |
|---|---|---|
| `far` | make the label of a short jump out of its reach | four bytes are written where there is room for one (`x86_Machine.cpp:72`): `JumpsLand` |
| `nop` | put a short jump right behind another jump | it is taken for a long one (`:59`): `JumpsLand` |
| `back` | jump back on a condition | the far form has none (`:893`): `JumpsLand` |

The compiler has none of them: its short jumps forward follow a comparison and
span a handful of instructions, and its jumps back are unconditional.

### Marshaler and DumpFiles

`Marshaler` is the class of that name over the streams of the C library and a
disk. A stream that writes has an image of its file, of which any prefix may
have reached the disk (`Flushed`); a crash loses the rest. `handle` keeps its
value after `Close`, as in the code, so that later calls use a stream that is
closed. `Load` is several steps, because it allocates, and a collection or a
crash may come between. `DumpFiles` is what the descriptions in `Library.cpp`
promise: a file holds all the values of a session that ended, or none. The
refinement maps a file to what loading it would give.

| Habit | What the program does | What happens |
|---|---|---|
| `container` | dumps an array or an object | only its type is written (`Marshal.cpp:43`): `PromisedSpec` |
| `foreign` | loads a file that is no dump | its stream is not closed again (`Marshal.cpp:71`): `StreamsClosed` |
| `collect` | a collection runs while it loads | the strings read so far are no roots (`Marshal.cpp:101`): `PromisedSpec` |

### Faulty variants

Definitions commented as faulty are variants of the definition that follows
them with one plausible bug. They document that the properties notice it; the
model does not use them.

## Runs

`USAGE_LIMIT = 1` makes a collection possible at the third allocation, so that a
handful of blocks sees several collections; the code's limit is 128 and nothing
depends on its value. `GROWTH_RATE` is the code's.

| Run | Bounds | What it shows |
|---|---|---|
| `GC_nested` | 4 blocks, 2 slots, one frame | `NoDangling` for disciplined programs with arrays in arrays, forks and clones |
| `GC_calls` | 3 blocks, 1 slot, 3 frames | a disciplined program cannot tell the collector from `ManagedHeap` |
| `GC_any` | 3 blocks, 1 slot, 2 frames | for every program: lists are consistent, roots are kept, garbage outlives at most one collection |
| `Compiler_blocks` | 1 local, 1 register, 3 types, `Add`, 2 nested ifs | disciplined programs: filters cover and the code fits on all paths over `if`, `elsif`, `else` |
| `Compiler_loops` | 1 local, 1 register, 2 types, `Les`, 2 nested blocks, 4 instructions per outermost loop | the same over loops, with elements read at any index; every jump lands |
| `Compiler_operators` | 1 local, 1 register, all types, all operators, no blocks | static code leaves the filter of what it computes, dynamic code one that covers it |
| `Operators_agree` | integers of 4 bits, 5 of them, 4 fractions, 2 texts, 2 operators | folding, static code and the runtime agree but for the list `Differs`, and no operator changes the element its operand was read from |
| `SyntaxTree_statements` | every well-formed statement of up to 8 symbols, one after the other | the tree is what the statement means and groups its symbols; no register is reused too early or kept too long |
| `SyntaxTree_differs` | `!=` between constants and as argument, 5 kinds of symbols | violation: the operator is not given its operands |
| `Interpreter_passes` | every well-formed program of up to 7 lines over 2 functions, a class, 2 attributes | the passes agree on functions and bodies, names are what they mean, duplicates are reported, and the passes end |
| `Jumps_land` | 15 bytes of code, 3 labels, one-byte displacements up to 6 or 7 | every jump to a label that is made lands there; no other instruction is touched |
| `Marshaler_files` | 2 files, 2 streams, 2 values per session, crashes and restarts anywhere | the promise of `DumpFiles`; no stream is lost; every load returns; a session open at exit is saved |

A collection whose free list has room for one block leaves it empty, because the
allocation takes that block: `MAX_FREE_LIST = 2` lets blocks stay on it over
several steps (`GC_calls`, `GC_any`), and 0 returns every swept block to the C
heap, so that a missing block is not handed out again in the same step
(`GC_nested`). Four blocks are enough for the head, a
container, its element and the new block in one collection; three frames for a
caller, a callee and the caller that allocates after the return. Blocks and
slots are symmetric: no definition orders them.

In the compiler runs one local and one register are enough for a value to be
computed, stored and read in another block; more symbols repeat the same
filters, since no decision looks at more than two. `Compiler_operators` has all
types because it is about their order; the blocks need one type per way of
copying (one word, two words, pointer). Two nested blocks are what it takes for
a corruption to be recorded in the wrong one, and four instructions let a loop
of two statements turn twice. `MaxCode` bounds the text of a loop only: code
outside of loops is forgotten as it is executed, so that a function may be
arbitrarily long.

A function may end anywhere, and code that meets a type it was not made for has
no defined continuation: deadlock is not checked here either.

In `Operators_agree` 4 bits make every overflow and the trap of the smallest
integer happen with small operands; the fractions are integral, dyadic and
neither, which is what the code that looks at half of a double tells apart. Two
operators are needed because some differences show in the next operator only (a
folded value keeps the token it replaced).

Eight symbols are enough for `[x, f(y)]` and for any two operators on each
side of a bracket; every difference of priorities, associativity and brackets
occurs with at most three operators. Seven lines are a class with a method, a
function behind it that is used before, and a nested block. In `Jumps_land` a
displacement of one byte is bounded by 7 instead of 127, so that a jump over two
other jumps is on either side of the boundary; `JumpsProofs` has no such bound.
Two files and two streams let a session be opened over another one, and a load
run beside a session; two values tell a part of a session from all of it.

The violation is a disagreement of the code with a test, listed under "findings"
in `PROJECT.json`. The other habits are documented in the tables above; each was
seen to violate the property named by adding it to `Allowed` in the `.cfg` of
the component.

## Fairness and liveness

The program has one thread. A handler or a pass that was entered runs on unless
the process dies, which is weak fairness of its steps:

* `Marshaler`: `WF` of the steps of `Load`, and of the destructor of
  `global_marshal`, which the C++ runtime calls after `main`. Nothing is assumed
  of the program: it may stop calling, or crash. `LoadsReturn` and
  `SessionsSaved` say what is reached unless it crashes.
* `Interpreter`: `WF` of the steps of the passes, which are loops that always
  take their next step. `Interpreted` says that they end, for rejected programs
  too, so that no function runs past the end of the text.

The other components are state machines of calls: there is nothing that must
eventually happen which a safety property does not say. `GarbageLeaves` states
the progress of the collector as a safety property over collections.

## Proofs

`GarbageCollectorProofs` proves, for every finite set of blocks, every set of
slots and all limits:

* `TypeCorrect`: `Spec => []TypeOK`;
* `RootsAreKept`: `Spec => []RootsKept`, for every program. Marked blocks
  contain what the roots point to, so `Survivors` does, and every other step
  puts into a symbol only a block that some symbol or a container in use holds;
* `ListsAreConsistent`: `Spec => []ListsConsistent`, for every program. The
  bound of the free list rests on the cardinality facts of the library;
* `DisciplinedSafety`: with `Allowed = {}`, `Spec => []NoDangling`.

`NoDangling` is not inductive: whether a block survives the next collection
depends on flags and on paths through other blocks. The inductive invariant
`DisciplinedInv` adds to `TypeOK`, `RootsKept` and `ListsConsistent`:

* `Closed`: the elements of used blocks are used blocks;
* `Plain`: a block that holds pointers is an array, is not the head, and its
  flag is not set, so that the mark always enters it;
* `Indexed`: a reference refers into a container in use (which a symbol also
  points to when a disciplined program allocates);
* `Shallow`: a fork in progress only copies blocks without pointers, so that its
  buffer is empty whenever it allocates.

Of what the collector does to the blocks that a program can get at it proves:

* `GarbageAlwaysLeaves`: `Spec => []GarbageLeaves`, for every program;
* `CollectorInvisible`: with `Allowed = {}`, `Spec => IdealSpec`, the refinement
  of `ManagedHeap`.

`GarbageLeaves` speaks of the history variable `leaked`; the invariant `Spent`
says of the blocks that were spared as garbage that they have no flag, are not
the head and cannot be accessed, so that the next collection sweeps them. This
must hold of a notion of access that no step can enlarge by stale data:
`Reachable` counts what a fork has still to copy, which may have been swept and
handed out again, so that a spared block could become `Reachable`. `Accessible`
leaves that out, and every step makes accessible only what it allocates. For the
refinement, `IdealInv` adds to `DisciplinedInv` that the source of a fork is in
a variable (`Rooted`) and that blocks in use have a type (`Typed`); then the two
notions agree, and `Survivors` contains everything reachable. Every step is one
of three kinds (`NextKinds`): it allocates one block, or only looks, or stores
into an element. Each maps to a step of `ManagedHeap`.

`CompilerProofs` and `FilterProofs` prove, for every set of symbols, of types
and of operators, every nesting and every length of code:

* `TypeCorrect` and `JumpsAlwaysLand`: `Spec => []TypeOK` and
  `Spec => []JumpsLand`, for every program;
* `FiltersAlwaysCover`: with `Allowed` at most `{"range"}`,
  `Spec => []FiltersCover`;
* `CodeAlwaysSound`: `Spec => []CodeSound` under the same condition, and with
  `Literals = {}` where an index may be out of range.

The habits that are excluded are the ones of the table above, each of which
violates the property. With `range` the condition on literals is needed, because
a constant is stored through an element whose reference is missing: TLC finds
that violation when literals are given.

`Struct` is the invariant behind the first two. It says where labels come from:
a block of depth `k` has the labels `NextLabel(k)` and `BlockLabel(k)`, and
every label that the code, or its execution, refers to belongs to an open block;
that the loops' labels are positions of the code written so far; and that code
is kept for an open loop, or for what is not executed yet, only.

For the other two the invariant must say what holds at places that are not being
executed: behind a branch that was not taken, and in the body of a loop that
will be run again. `Cover` is Floyd's method over code that is still being
written: there is an annotation, a set of environments for every position of the
code and for every label that is not placed yet, such that

* every instruction of the code is sound in the environments at its position,
  and leads into those of the next position and of its target (`Annotates`);
* the end of the code has the environments that the filters admit (`Here`);
* an unplaced label has those that agree with the filters on the locals that no
  block outside of it has recorded as corrupted (`Waits`): this is what the
  compiler makes of the filters when it closes the block;
* the head of a loop has every environment, because the compiler obscures all
  locals there;
* the current environment is in the set at `pc`.

Appending an instruction extends the annotation, placing a label joins the set
of the label with the end, and opening a block adds labels. Only the condition
of a loop makes it awkward: it is compiled with the filters before the loop and
run again after the body, so while it is pending a second annotation claims the
results of the condition alone, and replaces the first when the body starts.

`JumpsProofs` proves, for every reach of a one-byte displacement from 4 on,
every size of the program, every number of labels and every set of sizes of
other instructions:

* `TypeCorrect`: `Spec => []TypeOK`, for every program;
* `JumpsAlwaysLand` and `CodeAlwaysKept`: with `Allowed = {}`,
  `Spec => []JumpsLand` and `Spec => []CodeKept`.

`JumpsLand` says nothing of a jump whose label is not made, and everything
depends on what `Make_Label` finds at such a jump. The inductive invariant
`Disciplined` adds to `TypeOK` and the two properties:

* `Apart`: the cells of a jump forward overlap no other instruction, so that
  what is patched for one jump is neither patched for another nor code;
* `Behind`: a short jump follows an instruction that is no jump, so that the
  byte that `Make_Label` takes for a NOP is none (`NopTells`);
* `Waits`: a jump whose label is not made is still as it was written.

`PatchOf` gives the three forms of a patch and their cells, `Patched` and
`Unpatched` what the program holds after the label is made, and `Landed` that
every form lands, by the arithmetic of its displacement.

`MarshalerProofs` proves, for every set of files and values, every finite set of
streams and every length of a session:

* `TypeCorrect`: `Spec => []TypeOK`, for every program;
* `StreamsAlwaysClosed`: `Spec => []StreamsClosed`, for programs without the
  habit `foreign`;
* `PromiseAlwaysKept`: `Spec => PromisedSpec`, the refinement of `DumpFiles`, for
  programs without `container` and `collect`; `foreign` may be allowed.

The invariant `Inv` says that only `handle` writes, to a file whose count is
still zero (`Writes`, `Opened`), and that a load finds the count it has read
(`Loads`). A file that is no dump holds nothing and any other has a count of zero
or of all its values (`Whole`); this is why whatever prefix of a session a crash
leaves loads as empty. `Faithful` adds that a stream holds what was given to it,
and that the loader has read what is in the file. `handle` may be a stream that
was closed and opened again for reading: no step of the proof needs that it is
not, because what is done through it then changes no file. That `fopen` finds a
lowest stream rests on the well-foundedness of inclusion on finite sets.

`InterpreterProofs` proves, for programs of every length over every set of names:

* `TypeCorrect`: `Spec => []TypeOK`, for every program;
* `DuplicatesAlwaysReported`: `Spec => []DuplicatesReported`, for programs
  without the habit `text`;
* `PassesAlwaysAgree`: `Spec => []PassesAgree`, for programs without `text` and
  `nested`;
* `NamesAlwaysResolved`: with `Allowed = {}`, `Spec => []NamesResolved`.

The passes count scopes in two ways, and a reader sees blocks; that the three
agree at a line depends on all lines before it. A *history* of the program
(`History`) gives for every line the depth `D` of the open blocks behind it, the
class `C` it is in and the number `K` of functions begun. The invariant says
that there is one: the writer extends it line by line (`Written` relates it to
the open blocks, `Ends` to where functions end), and the passes leave it alone.
Then each pass is described by what the history has at its position:

* `Collected`: until an error is reported, the first pass has counted `D` and is
  in class `C`, and its tables hold the functions, classes and attributes of the
  lines before it, nothing else. After a rejected `def` its count is off by one
  (that is the hazard); nothing is claimed behind an error;
* `Followed`: the second pass is in a function if and only if the history is,
  has compiled the functions that ended before, and counts the depth within;
* `Named`: what it has found for the names of those lines is what they mean,
  and the map of locals has no name twice.

`MethodsHidden` is what remains of `Collected` between the passes, when the
global methods replace those of the class.

`OperatorsProofs` proves, for integers of every width, every set of operands and
expressions of every length:

* `ImplementationsAgree`: `Spec => []Agreed`;
* `ElementsStay`: `Spec => []ElementsKept`;
* `TypeCorrect`: `Spec => []TypeOK`, on the excused steps too.

`Agreed` compares values up to what a program can tell, and so says too little
to be inductive: a folded text is a text where static code has a string, a folded
value may carry a mark that only the next operator looks at, and a fraction must
be in lowest terms for equal values to have equal bytes. `IInv` says, until a step
is excused,

* the value in static code is one whose bytes are all written (`Shaped`) or a
  trap (`Result`);
* the folded value is that value as a constant (`Alike`), the dynamic one is
  that value itself (`Twin`);
* the element is what it was, and if `dest` still refers to it, it is what
  `dest` holds.

That the three agree on one operator (`OperateAgrees`) has one lemma per
operator. Every one of them needs that an integer constant with a double is
excused (`NotPooled`). They do not look into what the machine's `+` or `/` computes: for each
kind of operands (`Kinds`: texts, nil, booleans, a mix, numbers) the three give
nil, or join the same texts, or apply the same machine operation to the same
operands in the same order, or the step is in `Differs`; so every disjunct of
`Differs` is used. That the results are values again needs arithmetic: wrapped
integers fit their width (`WrapIs`), a double is never divided by zero (`DoublesIs`,
from the guard `Finite`), and a fraction divided by its greatest common divisor is
in lowest terms (`LowestIs`, where the maximum exists because `<` is well-founded).
For `TypeCorrect` the same is shown of every result that the code can leave,
unwritten bytes included (`Clean`), whether or not the three agree on it.

The prover has no rules for powers. What the proofs need of them is stated as
`PowersAssumption` in `Operators`, facts of arithmetic that TLC evaluates for the
width of its run: `2 ^ Width` is twice `2 ^ (Width - 1)`, and powers of the
operands that occur are integers, those of non-zero numbers not zero.

The only other assumptions are the ones named in `GarbageCollector`, `Compiler`,
`Jumps`, `Marshaler`, `Operators` and `Interpreter` about their constants, which
TLC evaluates in their runs: finite sets, limits that are numbers, names that
differ from each other, and that nil has no data. For `Interpreter`, names of attributes (which
start with `@`), of locals and of the methods of all classes are not names of
functions; programs that break this are what `shadow` and `override` are about.

`SyntaxTreeProofs` proves, for statements of every length over every set of
symbols:

* `TypeCorrect`: `Spec => []TypeOK`, for every program;
* `RegistersAlwaysFreed`: `Spec => []RegistersFreed`, for programs without the
  habits `differs` and `getter` (`Plain`);
* `OperandsAlwaysKept`: with `Allowed = {}` (`Disciplined`),
  `Spec => []OperandsKept`;
* `StatementAlwaysGrouped`: `Spec => []TreeGroups`, for plain programs.

Each rests on more knowledge of the tree than the one before:

* `IInv` is about the links. The right spine is a sequence from the root
  (`Chain`), and what one insertion does to it and to the nodes has three forms:
  a comma, a node to the right, a node in the place of another (`Inserted`). The
  walk stops since the spine is finite. The difficulty is that a symbol has a
  slot for its child: `=` must find what it assigns to (`Assigned`), a dot must
  get its method (`Called`), which the priorities on the spine decide
  (`Spined`);
* `TreeInv` is about the shape of the spine of a plain program (`Shaped`):
  priorities grow along it up to a bound that the next symbol decides, open calls
  and lists have their node on it, and nothing is below a local or a constant, or
  becomes the method of a dot, that should not (`Leafy`). A comma then finds the
  call it belongs to (`TakenBy`);
* `FreedInv` says who still reads the value of a node: every operation that is
  left, and every register in use, has an operation left that is its reader
  (`AwaitedBy`). `NoCycle` gives that for every node but the root;
* `HeapInv` says of all nodes that priorities grow towards the leaves
  (`Ordered`), what an assignment has on its left (`Aimed`), and that above an
  assignment outside of brackets there are only such assignments (`Low`);
* `KeepInv` says that a parameter in a register is what the register holds
  (`Held`), and that the register is in use, or the parameter is an assignment
  that stands for a register that was freed (`Passing`). The latter would be
  given away, but then everything that is left is above it (`AllAbove`): its
  reader is the next operation, an assignment too, which takes no register
  before it reads;
* `GroupInv` is `TreeInv` with what relates the tree to the symbols read so far
  (`Grouped`): the tree holds the terms among them, the priority of a node is 13
  times the brackets around its position plus its rank (`Labelled`), and the
  operands of all nodes, complete or not, are in order, bound strongly enough and
  on the right side (`Grouping`). A new node has the highest position, so it is in
  order where it goes right, and behind its operand where it takes the place of a
  node. That it does one or the other by what stands before it, an operator or the
  end of an operand, is what the last node of the spine decides (`Filled`).
  An insertion changes the subtrees of the nodes above the place only, each by the
  new node (`InsertionSubtrees`, `SlotSubtrees`).

The nodes reached by the loops are defined by a recursive function on sets;
`ReachIsLeast` proves, by the well-foundedness of `<`, that it is the least
closed set, and all that follows uses only this.

Only model-checked: liveness (`LoadsReturn`, `SessionsSaved`, `Interpreted`), which
needs ENABLED, and `TreeMeansStatement`, which beyond `TreeGroups` says which
argument an operand is and what a bracket is used for, and compares two recursive
definitions, `Meaning` of symbols and `Parsed` of a tree: operators that no theorem can be
checked about, and for recursive functions it would need an induction over
statements for which the library's theorems cannot be instantiated. `Statement`
keeps them out of the module that the theorems are about.

## Not modelled

* In `GarbageCollector`: element references stored in array literals; `this`,
  which refers to a symbol of the caller; the return of `main` and the
  destructor at exit; an object shared by two elements of a forked container;
  negative indices below the size of an array; sizes and capacities; the
  recursion depth of `Mark`; the contents of strings.
* In `Compiler`: objects and calls through a binding, of which
  `Compiler.cpp:267` clobbers the counter of an enclosing loop; the registers of
  the processor; the register that holds a constant operand of a dynamic
  operator; the container of an indexing or a loop; the payload of an appended
  array; what the value word of a pointer or a reference means to a condition;
  calls of the runtime with too few pops (`Ref_Load` of nil); a reference passed
  as an argument.
* In `Operators`: rounding and infinities of doubles, 64-bit integers, objects
  and arrays as operands, the memory a string takes.
* In `SyntaxTree`: control statements other than `return`, methods called on the
  result of a method, more than one statement sharing a scope, the pool of
  nodes. In `Interpreter`: `Format_Code`, includes, inheritance, programs whose
  blocks are not closed.
* In `Jumps`: the bytes of the other instructions, the pools of strings and
  doubles, the 64 KB that the code has (`Compiler.cpp:42`), and the order of the
  increment and the read of `p` in one expression (`x86_Machine.cpp:890`).
* In `Marshaler`: the bytes of an item, and disks that are full.
* `Linker`, beyond the names and pools it misses (`Operators`): an image is written and read by the same list of fields without
  state in between. `Lexicon`: a scanner without state. The class generator, the
  core classes, mathematics and console: tables and wrappers.
* The parts with status `not_modelled` in `PROJECT.json`.

## Left to do

* The part of `TreeMeansStatement` that `TreeGroups` leaves out as a theorem: the
  commas before an operand are as many as the slots before its own.
* Registers of the processor in `Compiler`: a call through a binding uses the
  counter of an enclosing loop (`Compiler.cpp:267`).
