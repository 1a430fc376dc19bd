------------------------------ MODULE Interpreter ------------------------------
(***************************************************************************)
(* The two passes of the interpreter over a program (Interpreter.cpp).     *)
(* Process_Lookups collects the classes, functions and attributes and      *)
(* reports errors, which stop nothing.  Process_Logic reads the same text  *)
(* again and compiles every function where it finds it.  Both count the    *)
(* scopes that if, while, for, def and class open and end closes, each in  *)
(* its own way, and the second looks names up in what the first has left.  *)
(*                                                                         *)
(* A program is a sequence of lines, each a record with the operation, the *)
(* name it is about, the arguments of a def, and whether a dot precedes    *)
(* the name.  The first stage writes any well-formed program.              *)
(***************************************************************************)
EXTENDS Naturals, Integers, Sequences, FiniteSets, SequencesExt

CONSTANTS
  Functions, Classes, Attributes, Locals, BuiltIns,  (* the names           *)
  GlobalMethods,  (* the methods every class has                            *)
  Methods,   (* the functions that are called with a dot                    *)
  Nil,       (* no class                                                    *)
  MaxLines,  (* bound on the length of the program                          *)
  Allowed    (* the Habits the program has                                  *)

Names == Functions \cup GlobalMethods \cup Attributes \cup Locals \cup BuiltIns \cup Classes

(* What a disciplined program does not do: have a text that is a keyword   *)
(* or a dot; define a function inside of a function; use an attribute      *)
(* outside of a class; give an argument the name of a function; define in  *)
(* a class a method that every class has.                                  *)
Habits == {"text", "nested", "stray", "shadow", "override"}

(* A name of a local, of an attribute or of a method that every class has  *)
(* is not the name of something else, unless a Habit says so.              *)
ASSUME InterpreterAssumption ==
  /\ Allowed \subseteq Habits /\ MaxLines \in Nat /\ Methods \subseteq Functions
  /\ Functions \cap (Attributes \cup GlobalMethods) = {}
  /\ Locals \cap (Functions \cup Classes \cup BuiltIns \cup {"this"}) = {}
  /\ Nil \notin Classes
  /\ Nil \notin [name : Names, class : Classes \cup {Nil}, arguments : Nat, from : Nat, to : Nat]

Line(op, name, args, dot) == [op |-> op, name |-> name, args |-> args, dot |-> dot]

VARIABLES
  lines, blocks, defs,  (* the program; its open blocks and its functions,  *)
               (* as a reader understands them                              *)
  stage,       (* write, lookups, logic or done                             *)
  pos,         (* the line the pass is at                                   *)
  scope, current_class,          (* locals of the pass                      *)
  packages, lookup, attributes,  (* what the first pass collects            *)
  errors,      (* the lines for which it printed an error                   *)
  package, inner, local_map, dot_op,  (* locals of Process_Package: the     *)
               (* function, its scope, its locals, and the pending dot      *)
  compiled,    (* the functions given to the compiler, in order             *)
  resolved     (* what the name of a line was found to be                   *)

vars == <<lines, blocks, defs, stage, pos, scope, current_class, packages, lookup, attributes,
          errors, package, inner, local_map, dot_op, compiled, resolved>>

Program == <<lines, blocks, defs>>
Tables  == <<packages, lookup, attributes, errors>>
Body    == <<package, inner, local_map, dot_op, compiled, resolved>>
-----------------------------------------------------------------------------
(* Writing the program.                                                    *)
InDef   == \E i \in DOMAIN blocks : blocks[i].op = "def"
InClass == blocks # <<>> /\ blocks[1].op = "class"

ClassOf(name) == IF InClass THEN blocks[1].name ELSE Nil

ArgumentLists ==
  {<<>>} \cup {<<x>> : x \in Locals \cup (IF "shadow" \in Allowed THEN Functions ELSE {})}

Uses ==
  {Line("use", n, <<>>, FALSE) : n \in Names \ (IF InClass \/ "stray" \in Allowed THEN {} ELSE Attributes)}
  \cup {Line("use", n, <<>>, TRUE) : n \in Methods}

Texts ==
  {Line("text", w, <<>>, FALSE) : w \in {"plain"} \cup (IF "text" \in Allowed THEN {"end", "if", "dot"} ELSE {})}

Defs ==
  LET names == Functions \cup (IF InClass /\ "override" \in Allowed THEN GlobalMethods ELSE {})
  IN [op : {"def"}, name : names, args : ArgumentLists, dot : {FALSE}]

Writable ==
  IF InDef THEN Uses \cup Texts \cup {Line("if", Nil, <<>>, FALSE), Line("end", Nil, <<>>, FALSE)}
                     \cup (IF "nested" \in Allowed THEN Defs ELSE {})
  ELSE Defs \cup (IF InClass THEN {Line("end", Nil, <<>>, FALSE)}
                  ELSE {Line("class", n, <<>>, FALSE) : n \in Classes})

Opens(l) == l.op \in {"def", "class", "if"}

(* The function whose block ends with the current line.                    *)
Ending == CHOOSE i \in DOMAIN defs : defs[i].from = Last(blocks).line

Write(l) ==
  LET n == Len(lines) + 1
      after == IF Opens(l) THEN Append(blocks, [op |-> l.op, name |-> l.name, line |-> n])
               ELSE IF l.op = "end" THEN Front(blocks) ELSE blocks
  IN /\ stage = "write" /\ n + Len(after) <= MaxLines
     /\ lines' = Append(lines, l) /\ blocks' = after
     /\ defs' = CASE l.op = "def" -> Append(defs, [name |-> l.name, class |-> ClassOf(l.name), arguments |-> Len(l.args),
                                                   from |-> n, to |-> 0])
                  [] l.op = "end" /\ Last(blocks).op = "def" -> [defs EXCEPT ![Ending].to = n]
                  [] OTHER -> defs
     /\ UNCHANGED <<stage, pos, scope, current_class>> /\ UNCHANGED Tables /\ UNCHANGED Body

Interpret ==
  /\ stage = "write" /\ blocks = <<>> /\ lines # <<>>
  /\ stage' = "lookups"
  /\ UNCHANGED <<pos, scope, current_class>> /\ UNCHANGED Program /\ UNCHANGED Tables /\ UNCHANGED Body
-----------------------------------------------------------------------------
(* Process_Lookups.  The scope is unsigned in the code and only compared   *)
(* with 0 and 1: what is less than 0 here is a large number there.         *)
At == lines[pos]

(* What a text contains is not told from a keyword.                        *)
Reads(op) == At.op = op \/ (At.op = "text" /\ At.name = op)

Misplaced == scope \notin {0, 1}

Duplicate ==
  At.name \in (IF current_class = Nil THEN DOMAIN packages ELSE DOMAIN lookup[current_class])

Entry(type, n) == [type |-> type, arguments |-> n]

With(table, name, entry) == [n \in DOMAIN table \cup {name} |-> IF n = name THEN entry ELSE table[n]]

LookupDef ==
  /\ At.op = "def"
  /\ IF Misplaced \/ Duplicate
     THEN errors' = errors \cup {pos} /\ UNCHANGED <<scope, packages, lookup>>
     ELSE /\ scope' = scope + 1
          /\ IF current_class = Nil
             THEN packages' = With(packages, At.name, Entry("function", Len(At.args))) /\ UNCHANGED lookup
             ELSE /\ lookup' = [lookup EXCEPT ![current_class] = With(@, At.name, Entry("function", Len(At.args)))]
                  /\ UNCHANGED packages
          /\ UNCHANGED errors
  /\ UNCHANGED <<current_class, attributes>>

LookupClass ==
  /\ At.op = "class"
  /\ IF At.name \in DOMAIN packages \/ scope # 0
     THEN errors' = errors \cup {pos} /\ UNCHANGED <<scope, current_class, packages>>
     ELSE /\ scope' = scope + 1 /\ current_class' = At.name
          /\ packages' = With(packages, At.name, Entry("class", 0))
          /\ UNCHANGED errors
  /\ UNCHANGED <<lookup, attributes>>

(* Faulty: every end leaves the class.                                     *)
LookupEnd_any ==
  /\ Reads("end")
  /\ scope' = scope - 1 /\ current_class' = Nil
  /\ UNCHANGED Tables

LookupEnd ==
  /\ Reads("end")
  /\ scope' = scope - 1
  /\ current_class' = IF scope' = 0 THEN Nil ELSE current_class
  /\ UNCHANGED Tables

LookupIf ==
  /\ Reads("if")
  /\ scope' = scope + 1
  /\ UNCHANGED current_class /\ UNCHANGED Tables

(* Faulty: every name of a class is taken for an attribute.                *)
LookupUse_any ==
  /\ At.op \in {"use", "text"} /\ ~Reads("end") /\ ~Reads("if")
  /\ attributes' = IF current_class # Nil /\ At.name \notin ToSet(attributes[current_class]) /\ ~At.dot
                   THEN [attributes EXCEPT ![current_class] = Append(@, At.name)] ELSE attributes
  /\ UNCHANGED <<scope, current_class, packages, lookup, errors>>

(* The attributes of a class, in the order of their slots.                 *)
LookupUse ==
  /\ At.op \in {"use", "text"} /\ ~Reads("end") /\ ~Reads("if")
  /\ attributes' = IF current_class # Nil /\ At.name \in Attributes \ ToSet(attributes[current_class]) /\ ~At.dot
                   THEN [attributes EXCEPT ![current_class] = Append(@, At.name)] ELSE attributes
  /\ UNCHANGED <<scope, current_class, packages, lookup, errors>>

Process_Lookups ==
  /\ stage = "lookups" /\ pos <= Len(lines)
  /\ LookupDef \/ LookupClass \/ LookupEnd \/ LookupIf \/ LookupUse
  /\ pos' = pos + 1
  /\ UNCHANGED stage /\ UNCHANGED Program /\ UNCHANGED Body

(* Every class gets the global methods, over a function of the class that  *)
(* has the same name.                                                      *)
Add_Global_Methods(table) ==
  [n \in DOMAIN table \cup GlobalMethods |-> IF n \in GlobalMethods THEN Entry("external", 1) ELSE table[n]]

(* The end of the text; the line after the last one stands for the error   *)
(* about a hanging scope.                                                  *)
EndLookups ==
  /\ stage = "lookups" /\ pos > Len(lines)
  /\ errors' = IF scope # 0 THEN errors \cup {pos} ELSE errors
  /\ lookup' = [c \in Classes |-> Add_Global_Methods(lookup[c])]
  /\ stage' = "logic" /\ pos' = 1 /\ current_class' = Nil
  /\ UNCHANGED <<scope, packages, attributes>> /\ UNCHANGED Program /\ UNCHANGED Body
-----------------------------------------------------------------------------
(* Process_Logic, outside of functions.                                    *)
Slots == DOMAIN local_map

(* The locals a function starts with: the object, and its arguments.       *)
Parameters(args) ==
  LET this == IF current_class = Nil THEN <<>> ELSE <<"this">>
  IN this \o args

LogicDef ==
  /\ At.op = "def"
  /\ package' = [name |-> At.name, class |-> current_class, arguments |-> Len(At.args), from |-> pos, to |-> 0]
  /\ inner' = 1 /\ local_map' = Parameters(At.args) /\ dot_op' = FALSE
  /\ UNCHANGED <<current_class, compiled, resolved>>

LogicClass ==
  /\ At.op = "class"
  /\ current_class' = At.name
  /\ UNCHANGED Body

(* Every other line is skipped here, the ends excepted.                    *)
LogicOther ==
  /\ At.op \notin {"def", "class"}
  /\ current_class' = IF Reads("end") THEN Nil ELSE current_class
  /\ UNCHANGED Body

Process_Logic ==
  /\ stage = "logic" /\ package = Nil /\ pos <= Len(lines)
  /\ LogicDef \/ LogicClass \/ LogicOther
  /\ pos' = pos + 1
  /\ UNCHANGED <<stage, scope>> /\ UNCHANGED Program /\ UNCHANGED Tables
-----------------------------------------------------------------------------
(* Process_Package.                                                        *)
SlotOf(name) == CHOOSE i \in Slots : local_map[i] = name

Found(type, slot) == [type |-> type, slot |-> slot]

AttributeSlot(name) ==
  IF current_class = Nil \/ name \notin ToSet(attributes[current_class]) THEN 0
  ELSE CHOOSE i \in DOMAIN attributes[current_class] : attributes[current_class][i] = name

(* Faulty: the global methods count as functions of the class.             *)
IsInternal_external(name) == current_class # Nil /\ name \in DOMAIN lookup[current_class]

(* A function of the class itself, which can be called without a dot.      *)
IsInternal(name) ==
  /\ current_class # Nil
  /\ name \in DOMAIN lookup[current_class] /\ lookup[current_class][name].type # "external"

Lookup_Processing(name, dot) ==
  IF ~dot /\ IsInternal(name) THEN Found("internal", 0)
  ELSE IF dot /\ name \notin Attributes THEN Found("method", 0)
  ELSE IF ~dot /\ name \in Attributes THEN Found("attribute", AttributeSlot(name))
  ELSE IF name \in DOMAIN packages THEN Found(packages[name].type, packages[name].arguments)
  ELSE IF name \in BuiltIns THEN Found("builtin", 0)
  ELSE IF name \in ToSet(local_map) THEN Found("local", SlotOf(name))
  ELSE Found("local", Len(local_map) + 1)

PackageUse ==
  LET found == Lookup_Processing(At.name, At.dot \/ dot_op)
  IN /\ At.op = "use"
     /\ resolved' = [resolved EXCEPT ![pos] = found]
     /\ local_map' = IF found.type = "local" /\ found.slot > Len(local_map)
                     THEN Append(local_map, At.name) ELSE local_map
     /\ dot_op' = FALSE
     /\ UNCHANGED <<package, inner, compiled>>

(* Faulty: a nested block does not raise the scope.                        *)
PackageIf_flat ==
  /\ At.op = "if"
  /\ dot_op' = FALSE
  /\ UNCHANGED <<package, inner, local_map, compiled, resolved>>

PackageIf ==
  /\ At.op = "if"
  /\ inner' = inner + 1 /\ dot_op' = FALSE
  /\ UNCHANGED <<package, local_map, compiled, resolved>>

(* Faulty: the ends of nested blocks are skipped.                          *)
PackageEnd_skip ==
  /\ At.op = "end"
  /\ inner' = IF inner > 1 THEN inner ELSE 0
  /\ IF inner' = 0
     THEN compiled' = Append(compiled, [package EXCEPT !.to = pos]) /\ package' = Nil /\ UNCHANGED dot_op
     ELSE dot_op' = FALSE /\ UNCHANGED <<compiled, package>>
  /\ UNCHANGED <<local_map, resolved>>

(* At scope zero the body is complete and the function is compiled.        *)
PackageEnd ==
  /\ At.op = "end"
  /\ inner' = inner - 1
  /\ IF inner' = 0
     THEN compiled' = Append(compiled, [package EXCEPT !.to = pos]) /\ package' = Nil /\ UNCHANGED dot_op
     ELSE dot_op' = FALSE /\ UNCHANGED <<compiled, package>>
  /\ UNCHANGED <<local_map, resolved>>

(* A text is only a text here, but for the dot it may be, and a def is a   *)
(* name like any other.                                                    *)
PackageOther ==
  /\ At.op \in {"text", "def"}
  /\ dot_op' = Reads("dot")
  /\ local_map' = IF At.op = "def" /\ "def" \notin ToSet(local_map) THEN Append(local_map, "def") ELSE local_map
  /\ UNCHANGED <<package, inner, compiled, resolved>>

Process_Package ==
  /\ stage = "logic" /\ package # Nil /\ pos <= Len(lines)
  /\ PackageUse \/ PackageIf \/ PackageEnd \/ PackageOther
  /\ pos' = pos + 1
  /\ UNCHANGED <<stage, scope, current_class>> /\ UNCHANGED Program /\ UNCHANGED Tables

(* Process_Logic returns; Process_Package reads past the end of the text.  *)
EndLogic ==
  /\ stage = "logic" /\ package = Nil /\ pos > Len(lines)
  /\ stage' = "done"
  /\ UNCHANGED <<pos, scope, current_class>> /\ UNCHANGED Program /\ UNCHANGED Tables /\ UNCHANGED Body

Init ==
  /\ lines = <<>> /\ blocks = <<>> /\ defs = <<>> /\ stage = "write" /\ pos = 1
  /\ scope = 0 /\ current_class = Nil
  /\ packages = <<>> /\ lookup = [c \in Classes |-> <<>>] /\ attributes = [c \in Classes |-> <<>>]
  /\ errors = {}
  /\ package = Nil /\ inner = 0 /\ local_map = <<>> /\ dot_op = FALSE
  /\ compiled = <<>> /\ resolved = [i \in 1 .. MaxLines |-> Found("none", 0)]

Passes == Process_Lookups \/ EndLookups \/ Process_Logic \/ Process_Package \/ EndLogic

Next == (\E l \in Writable : Write(l)) \/ Interpret \/ Passes

Spec == Init /\ [][Next]_vars /\ WF_vars(Passes)
-----------------------------------------------------------------------------
(* Every variable has its type; the scopes of a disciplined program stay   *)
(* within its length.                                                      *)
TypeOK ==
  /\ stage \in {"write", "lookups", "logic", "done"} /\ pos \in 1 .. MaxLines + 1
  /\ scope \in -MaxLines .. MaxLines /\ inner \in 0 .. MaxLines
  /\ current_class \in Classes \cup {Nil}
  /\ DOMAIN packages \subseteq Functions \cup GlobalMethods \cup Classes
  /\ \A c \in Classes : DOMAIN lookup[c] \subseteq Functions \cup GlobalMethods /\ ToSet(attributes[c]) \subseteq Attributes
  /\ errors \subseteq 1 .. MaxLines + 1

Accepted == stage = "done" /\ errors = {}

(* The second pass compiles what a reader sees: each function of the       *)
(* program once, in its class, with its arguments and its whole body, if   *)
(* the first pass reported no error (Process_Lookups, Process_Logic,       *)
(* Process_Package).                                                       *)
PassesAgree == Accepted => compiled = defs

(* The function around a line.                                             *)
Around(i) == CHOOSE d \in ToSet(defs) : d.from < i /\ i < d.to

Siblings(i) == {d.name : d \in {e \in ToSet(defs) : e.class = Around(i).class /\ e.class # Nil}}

Globals == {d \in ToSet(defs) : d.class = Nil}

Argument(i, name) == name \in ToSet(lines[Around(i).from].args)

(* What a name means at line i of an accepted program.                     *)
Meant(i) ==
  LET name == lines[i].name IN
  IF lines[i].dot THEN "method"
  ELSE IF name \in Attributes THEN "attribute"
  ELSE IF Argument(i, name) THEN "local"
  ELSE IF name \in Siblings(i) THEN "internal"
  ELSE IF name \in {d.name : d \in Globals} THEN "function"
  ELSE IF \E k \in DOMAIN lines : lines[k].op = "class" /\ lines[k].name = name /\ name \in Classes THEN "class"
  ELSE IF name \in BuiltIns THEN "builtin"
  ELSE "local"

UseLines == {i \in DOMAIN lines : lines[i].op = "use"}

(* A name is found to be what it means, wherever in the program that is    *)
(* declared: a function with its own number of arguments, and a local or   *)
(* an attribute in a slot of its own (Lookup_Processing, Process_Lookups). *)
NamesResolved ==
  Accepted => \A i \in UseLines :
    /\ resolved[i].type = Meant(i)
    /\ resolved[i].type = "function" =>
         \E d \in Globals : d.name = lines[i].name /\ d.arguments = resolved[i].slot
    /\ resolved[i].type = "attribute" => \A j \in UseLines :
         resolved[j].type = "attribute" /\ Around(i).class = Around(j).class =>
           (resolved[i].slot = resolved[j].slot <=> lines[i].name = lines[j].name)
    /\ resolved[i].type = "local" => \A j \in UseLines :
         resolved[j].type = "local" /\ Around(i) = Around(j) =>
           (resolved[i].slot = resolved[j].slot <=> lines[i].name = lines[j].name)

(* A function that is defined twice in its class, or twice outside of      *)
(* classes, is reported (Process_Lookups).                                 *)
DuplicatesReported ==
  stage = "done" =>
    ((\E i, j \in DOMAIN defs : i # j /\ defs[i].name = defs[j].name /\ defs[i].class = defs[j].class)
       => errors # {})

(* The interpretation of every program ends, the rejected ones included:   *)
(* no function reads past the end of the text (Process_Package).           *)
Interpreted == stage = "lookups" ~> stage = "done"
=============================================================================
