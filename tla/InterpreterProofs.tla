----------------------------- MODULE InterpreterProofs -----------------------------
(***************************************************************************)
(* Theorems about Interpreter, for programs of every length over every set *)
(* of names.                                                               *)
(*                                                                         *)
(* Whatever a pass does it does by what it has read so far.  A history of  *)
(* the program gives for every line the depth D of the blocks that are     *)
(* open behind it, the class C it is in, and the number K of functions     *)
(* that have begun.  A pass at a line has counted what the history says.   *)
(***************************************************************************)
EXTENDS Interpreter, SequenceTheorems, TLAPS

(* A line, in any program. *)
Words == {"plain", "end", "if", "dot"}
LineType == [op : {"use", "text", "def", "class", "if", "end"}, name : Names \cup {Nil} \cup Words,
             args : Seq(Locals \cup Functions), dot : BOOLEAN]
BlockType == [op : {"def", "class", "if"}, name : Names \cup {Nil}, line : Nat]
DefType   == [name : Names, class : Classes \cup {Nil}, arguments : Nat, from : Nat, to : Nat]
EntryType == [type : {"function", "class", "external"}, arguments : Nat]

LineOK(l) ==
  /\ l.op = "def" => l.name \in Functions \cup GlobalMethods
  /\ l.op = "class" => l.name \in Classes
  /\ l.op = "use" => l.name \in Names /\ (l.dot => l.name \in Methods)
  /\ l.op = "text" => l.name = "plain" \/ ("text" \in Allowed /\ l.name \in {"end", "if", "dot"})
  /\ l.op \in {"if", "end"} => l.name = Nil
  /\ l.args = <<>> \/ \E x \in Locals \cup Functions : l.args = <<x>> /\ ("shadow" \notin Allowed => x \in Locals)

ProgramType ==
  /\ lines \in Seq(LineType) /\ (\A k \in 1 .. Len(lines) : LineOK(lines[k]))
  /\ blocks \in Seq(BlockType) /\ defs \in Seq(DefType)
  /\ Len(lines) + Len(blocks) <= MaxLines
  /\ blocks # <<>> /\ blocks[1].op = "class" => blocks[1].name \in Classes
  /\ stage # "write" => blocks = <<>>

TablesType ==
  /\ packages \in [DOMAIN packages -> EntryType] /\ DOMAIN packages \subseteq Functions \cup GlobalMethods \cup Classes
  /\ lookup = [c \in Classes |-> lookup[c]] /\ attributes \in [Classes -> Seq(Attributes)]
  /\ \A c \in Classes : /\ lookup[c] \in [DOMAIN lookup[c] -> EntryType]
                         /\ DOMAIN lookup[c] \subseteq Functions \cup GlobalMethods
  /\ errors \subseteq 1 .. Len(lines) + 1

PassType ==
  /\ stage \in {"write", "lookups", "logic", "done"}
  /\ pos \in 1 .. Len(lines) + 1
  /\ scope \in -MaxLines .. MaxLines /\ inner \in Nat
  /\ stage \in {"write", "lookups"} => -(pos - 1) <= scope /\ scope <= pos - 1
  /\ inner <= pos - 1 /\ (package # Nil => inner > 0)
  /\ stage \in {"write", "lookups"} => package = Nil /\ inner = 0
  /\ current_class \in Classes \cup {Nil}

TypeInv == ProgramType /\ TablesType /\ PassType

LEMMA TypeImplies == TypeInv => TypeOK
<1> SUFFICES ASSUME TypeInv
             PROVE  TypeOK
  OBVIOUS
<1>1. Len(lines) \in Nat /\ Len(blocks) \in Nat /\ MaxLines \in Nat
  BY InterpreterAssumption DEF TypeInv, ProgramType
<1>2. Len(lines) <= MaxLines /\ pos \in 1 .. MaxLines + 1 /\ inner \in 0 .. MaxLines
  BY <1>1 DEF TypeInv, ProgramType, PassType
<1>3. errors \subseteq 1 .. MaxLines + 1
  BY <1>1, <1>2 DEF TypeInv, TablesType
<1>4. ASSUME NEW c \in Classes
      PROVE  ToSet(attributes[c]) \subseteq Attributes
  <2>1. attributes[c] \in Seq(Attributes)
    BY DEF TypeInv, TablesType
  <2> QED  BY <2>1 DEF ToSet
<1> QED  BY <1>2, <1>3, <1>4 DEF TypeInv, TablesType, PassType, TypeOK

(***************************************************************************)
(* Sequences.                                                              *)
(***************************************************************************)
LEMMA FrontOf ==
  ASSUME NEW S, NEW s \in Seq(S), s # <<>>
  PROVE  /\ Len(s) \in Nat \ {0} /\ Last(s) = s[Len(s)] /\ Last(s) \in S
         /\ Front(s) \in Seq(S) /\ Len(Front(s)) = Len(s) - 1
         /\ \A k \in 1 .. Len(s) - 1 : Front(s)[k] = s[k]
<1>1. Len(s) \in Nat \ {0}
  BY EmptySeq
<1>2. Last(s) = s[Len(s)] /\ Last(s) \in S
  BY <1>1 DEF Last
<1>3. PICK n \in Nat : n = Len(s) - 1
  BY <1>1
<1>4. Front(s) = SubSeq(s, 1, n)
  BY <1>3 DEF Front
<1>5. /\ Front(s) \in Seq(S) /\ Len(Front(s)) = n
      /\ \A k \in 1 .. n : Front(s)[k] = s[k]
  BY <1>1, <1>3, <1>4
<1> QED  BY <1>1, <1>2, <1>3, <1>5

LEMMA EmptyTables ==
  ASSUME NEW S
  PROVE  <<>> \in [DOMAIN <<>> -> S] /\ DOMAIN <<>> = {} /\ <<>> \in Seq(S) /\ Len(<<>>) = 0
<1>1. DOMAIN <<>> = {}
  OBVIOUS
<1>2. <<>> = [k \in {} |-> k]
  BY <1>1
<1> QED  BY <1>1, <1>2

LEMMA TypeInit == Init => TypeInv
<1> SUFFICES ASSUME Init
             PROVE  TypeInv
  OBVIOUS
<1>1. Nil \notin Classes /\ MaxLines \in Nat
  BY InterpreterAssumption
<1>2. ProgramType
  BY <1>1, EmptyTables DEF Init, ProgramType
<1>3. TablesType
  BY <1>1, EmptyTables DEF Init, TablesType
<1>4. PassType
  BY <1>1, EmptyTables DEF Init, PassType
<1> QED  BY <1>2, <1>3, <1>4 DEF TypeInv

(***************************************************************************)
(* Writing.                                                                *)
(***************************************************************************)
Permitted(l) ==
  /\ l.op \in {"use", "text", "if"} => InDef
  /\ l.op = "def" => /\ ~InDef \/ "nested" \in Allowed
                     /\ l.name \in GlobalMethods \ Functions => InClass /\ "override" \in Allowed
  /\ l.op = "class" => ~InDef /\ ~InClass
  /\ l.op = "end" => InDef \/ InClass
  /\ l.op = "use" /\ l.name \in Attributes /\ "stray" \notin Allowed => InClass

LEMMA WritableIs ==
  ASSUME NEW l \in Writable
  PROVE  l \in LineType /\ LineOK(l) /\ Permitted(l)
<1>1. CASE l \in Uses /\ InDef
  <2>1. Methods \subseteq Names /\ Methods \cap Attributes = {}
    BY InterpreterAssumption DEF Names
  <2>2. PICK n, d : /\ l = Line("use", n, <<>>, d) /\ d \in BOOLEAN
                    /\ n \in Names /\ (d => n \in Methods)
                    /\ ~d /\ n \in Attributes => InClass \/ "stray" \in Allowed
    BY <1>1, <2>1 DEF Uses
  <2>3. l.op = "use" /\ l.name = n /\ l.args = <<>> /\ l.dot = d /\ l \in LineType
    BY <2>2, EmptyTables DEF Line, LineType
  <2> QED  BY <1>1, <2>1, <2>2, <2>3 DEF LineOK, Permitted
<1>2. CASE l \in Texts /\ InDef
  <2>1. PICK w \in Words : l = Line("text", w, <<>>, FALSE) /\ (w # "plain" => "text" \in Allowed)
    BY <1>2 DEF Texts, Words
  <2>2. l.op = "text" /\ l.name = w /\ l.args = <<>> /\ l \in LineType
    BY <2>1, EmptyTables DEF Line, LineType
  <2> QED  BY <1>2, <2>1, <2>2 DEF LineOK, Permitted, Words
<1>3. CASE l \in Defs /\ (~InDef \/ "nested" \in Allowed)
  <2>0. /\ l.op = "def" /\ l.dot = FALSE /\ l.args \in ArgumentLists
        /\ l.name \in Functions \cup (IF InClass /\ "override" \in Allowed THEN GlobalMethods ELSE {})
        /\ l = [op |-> l.op, name |-> l.name, args |-> l.args, dot |-> l.dot]
    BY <1>3 DEF Defs
  <2>1. PICK n \in Functions \cup GlobalMethods, a \in ArgumentLists :
          /\ l = Line("def", n, a, FALSE)
          /\ n \in GlobalMethods \ Functions => InClass /\ "override" \in Allowed
    BY <2>0 DEF Line
  <2>2. a = <<>> \/ \E x \in Locals \cup Functions : a = <<x>> /\ ("shadow" \notin Allowed => x \in Locals)
    BY <2>1 DEF ArgumentLists
  <2>3. a \in Seq(Locals \cup Functions)
    <3>1. ASSUME NEW x \in Locals \cup Functions PROVE <<x>> \in Seq(Locals \cup Functions)
      OBVIOUS
    <3> QED  BY <2>2, <3>1, EmptyTables
  <2>4. l.op = "def" /\ l.name = n /\ l.args = a /\ l \in LineType
    BY <2>1, <2>3 DEF Line, LineType, Names
  <2> QED  BY <1>3, <2>1, <2>2, <2>4 DEF LineOK, Permitted
<1>4. CASE l = Line("if", Nil, <<>>, FALSE) /\ InDef
  <2>1. l.op = "if" /\ l.name = Nil /\ l.args = <<>> /\ l \in LineType
    BY <1>4, EmptyTables DEF Line, LineType
  <2> QED  BY <1>4, <2>1 DEF LineOK, Permitted
<1>5. CASE l = Line("end", Nil, <<>>, FALSE) /\ (InDef \/ InClass)
  <2>1. l.op = "end" /\ l.name = Nil /\ l.args = <<>> /\ l \in LineType
    BY <1>5, EmptyTables DEF Line, LineType
  <2> QED  BY <1>5, <2>1 DEF LineOK, Permitted
<1>6. CASE ~InDef /\ ~InClass /\ \E n \in Classes : l = Line("class", n, <<>>, FALSE)
  <2>1. PICK n \in Classes : l = Line("class", n, <<>>, FALSE)
    BY <1>6
  <2>2. l.op = "class" /\ l.name = n /\ l.args = <<>> /\ l \in LineType
    BY <2>1, EmptyTables DEF Line, LineType, Names
  <2> QED  BY <1>6, <2>1, <2>2 DEF LineOK, Permitted
<1> QED  BY <1>1, <1>2, <1>3, <1>4, <1>5, <1>6 DEF Writable

(* The program with one line more. *)
Longer(l) == /\ Len(lines') = Len(lines) + 1 /\ lines'[Len(lines) + 1] = l
             /\ \A k \in 1 .. Len(lines) : lines'[k] = lines[k]

LEMMA LongerIs ==
  ASSUME ProgramType, NEW l \in LineType, lines' = Append(lines, l)
  PROVE  Longer(l) /\ lines' \in Seq(LineType)
BY DEF ProgramType, Longer

Block(l) == [op |-> l.op, name |-> l.name, line |-> Len(lines) + 1]

BlocksAre(l) ==
  /\ Opens(l) => /\ blocks' = Append(blocks, Block(l)) /\ Len(blocks') = Len(blocks) + 1
                 /\ \A k \in 1 .. Len(blocks) : blocks'[k] = blocks[k]
                 /\ blocks'[Len(blocks) + 1] = Block(l)
  /\ l.op = "end" => /\ Len(blocks') = Len(blocks) - 1
                     /\ \A k \in 1 .. Len(blocks) - 1 : blocks'[k] = blocks[k]
  /\ l.op \in {"use", "text"} => blocks' = blocks

LEMMA BlocksWritten ==
  ASSUME ProgramType, NEW l \in Writable, Write(l)
  PROVE  /\ BlocksAre(l) /\ blocks' \in Seq(BlockType) /\ Len(lines) + 1 + Len(blocks') <= MaxLines
         /\ blocks' # <<>> /\ blocks'[1].op = "class" => blocks'[1].name \in Classes
<1>1. l \in LineType /\ LineOK(l) /\ Permitted(l)
  BY WritableIs
<1>2. blocks \in Seq(BlockType) /\ Len(blocks) \in Nat
  BY DEF ProgramType
<1>3. Len(lines) + 1 + Len(blocks') <= MaxLines
  BY DEF Write
<1>4. CASE Opens(l)
  <2>1. PICK b : b = Block(l)
    OBVIOUS
  <2>2. b \in BlockType /\ b.op = l.op /\ b.name = l.name
    BY <1>1, <1>4, <2>1 DEF Block, LineOK, Opens, BlockType, Names, ProgramType
  <2>3. blocks' = Append(blocks, b)
    BY <1>4, <2>1 DEF Write, Block
  <2>4. /\ blocks' \in Seq(BlockType) /\ Len(blocks') = Len(blocks) + 1
        /\ \A k \in 1 .. Len(blocks) : blocks'[k] = blocks[k]
        /\ blocks'[Len(blocks) + 1] = b
    BY <1>2, <2>2, <2>3
  <2>5. blocks # <<>> => 1 \in 1 .. Len(blocks)
    BY <1>2, EmptySeq
  <2>6. blocks = <<>> => blocks'[1] = b
    BY <2>4
  <2>7. BlocksAre(l)
    BY <1>4, <2>1, <2>3, <2>4 DEF BlocksAre, Opens
  <2>8. blocks'[1].op = "class" => blocks'[1].name \in Classes
    BY <1>1, <2>2, <2>4, <2>5, <2>6 DEF ProgramType, LineOK
  <2> QED  BY <1>3, <2>4, <2>7, <2>8
<1>5. CASE l.op = "end"
  <2>1. blocks # <<>>
    BY <1>1, <1>5 DEF Permitted, InDef, InClass
  <2>2. blocks' = Front(blocks)
    BY <1>5 DEF Write, Opens
  <2>3. /\ blocks' \in Seq(BlockType) /\ Len(blocks') = Len(blocks) - 1
        /\ \A k \in 1 .. Len(blocks) - 1 : blocks'[k] = blocks[k]
    BY <1>2, <2>1, <2>2, FrontOf
  <2>4. blocks' # <<>> => 1 \in 1 .. Len(blocks) - 1
    BY <1>2, <2>3, EmptySeq
  <2> QED  BY <1>3, <1>5, <2>1, <2>3, <2>4 DEF BlocksAre, Opens, ProgramType
<1>6. CASE l.op \in {"use", "text"}
  <2>1. blocks' = blocks
    BY <1>6 DEF Write, Opens
  <2> QED  BY <1>2, <1>3, <1>6, <2>1 DEF BlocksAre, Opens, ProgramType
<1> QED  BY <1>1, <1>4, <1>5, <1>6 DEF Opens, LineType

(* The functions: one more, or one that ends, or none changes. *)
Same(d, e) == d.name = e.name /\ d.class = e.class /\ d.arguments = e.arguments /\ d.from = e.from

Ended(l, i) ==
  /\ l.op = "end" /\ blocks # <<>> /\ Last(blocks).op = "def" /\ i = Ending
  /\ Len(defs') = Len(defs)
  /\ \A k \in 1 .. Len(defs) : /\ k # i => defs'[k] = defs[k]
                               /\ k = i => Same(defs'[k], defs[k]) /\ defs'[k].to = Len(lines) + 1

Begun(l) ==
  /\ l.op = "def" /\ Len(defs') = Len(defs) + 1
  /\ \A k \in 1 .. Len(defs) : defs'[k] = defs[k]
  /\ defs'[Len(defs) + 1] = [name |-> l.name, class |-> ClassOf(l.name), arguments |-> Len(l.args),
                             from |-> Len(lines) + 1, to |-> 0]

LEMMA DefsWritten ==
  ASSUME ProgramType, NEW l \in Writable, Write(l)
  PROVE  /\ defs' \in Seq(DefType)
         /\ \/ Begun(l) \/ \E i : Ended(l, i)
            \/ /\ l.op # "def" /\ ~(l.op = "end" /\ Last(blocks).op = "def") /\ defs' = defs
<1>1. l \in LineType /\ LineOK(l) /\ Permitted(l)
  BY WritableIs
<1>2. defs \in Seq(DefType) /\ Len(defs) \in Nat /\ DOMAIN defs = 1 .. Len(defs) /\ Len(lines) \in Nat
  BY DEF ProgramType
<1>3. CASE l.op = "def"
  <2>1. PICK d : d = [name |-> l.name, class |-> ClassOf(l.name), arguments |-> Len(l.args),
                      from |-> Len(lines) + 1, to |-> 0]
    OBVIOUS
  <2>2. Len(l.args) \in Nat
    BY <1>1 DEF LineType
  <2>3. ClassOf(l.name) \in Classes \cup {Nil}
    BY DEF ClassOf, InClass, ProgramType
  <2>4. l.name \in Names
    BY <1>1, <1>3 DEF LineOK, Names
  <2>5. d \in DefType
    BY <1>2, <2>1, <2>2, <2>3, <2>4 DEF DefType
  <2>6. defs' = Append(defs, d)
    BY <1>3, <2>1 DEF Write
  <2>7. /\ defs' \in Seq(DefType) /\ Len(defs') = Len(defs) + 1
        /\ \A k \in 1 .. Len(defs) : defs'[k] = defs[k]
        /\ defs'[Len(defs) + 1] = d
    BY <1>2, <2>5, <2>6
  <2> QED  BY <1>3, <2>1, <2>7 DEF Begun
<1>4. CASE l.op = "end" /\ Last(blocks).op = "def"
  <2>0. PICK i : i = Ending
    OBVIOUS
  <2>1. PICK n \in Nat : i = Ending /\ n = Len(lines) + 1
    BY <1>2, <2>0
  <2>2. blocks # <<>>
    BY <1>1, <1>4 DEF Permitted, InDef, InClass
  <2>3. defs' = [defs EXCEPT ![i].to = n]
    BY <1>4, <2>1 DEF Write
  <2>4. DOMAIN defs' = 1 .. Len(defs) /\ \A k \in 1 .. Len(defs) : k # i => defs'[k] = defs[k]
    BY <1>2, <2>3
  <2>5. ASSUME NEW k \in 1 .. Len(defs), k = i
        PROVE  Same(defs'[k], defs[k]) /\ defs'[k].to = n /\ defs'[k] \in DefType
    <3>1. defs'[k] = [defs[k] EXCEPT !.to = n]
      BY <1>2, <2>3, <2>5
    <3>2. defs[k] \in DefType
      BY <1>2
    <3> QED  BY <2>1, <3>1, <3>2 DEF DefType, Same
  <2>6. \A k \in 1 .. Len(defs) : defs'[k] \in DefType
    BY <1>2, <2>4, <2>5
  <2>7. defs' \in [1 .. Len(defs) -> DefType]
    BY <2>3, <2>4, <2>6
  <2>8. defs' \in Seq(DefType) /\ Len(defs') = Len(defs)
    BY <1>2, <2>7
  <2>9. Ended(l, i)
    BY <1>4, <2>1, <2>2, <2>4, <2>5, <2>8 DEF Ended
  <2> QED  BY <2>8, <2>9
<1>5. CASE l.op # "def" /\ ~(l.op = "end" /\ Last(blocks).op = "def")
  <2>1. defs' = defs
    BY <1>5 DEF Write
  <2> QED  BY <1>2, <1>5, <2>1
<1> QED  BY <1>3, <1>4, <1>5

LEMMA WriteType ==
  ASSUME TypeInv, NEW l \in Writable, Write(l)
  PROVE  TypeInv'
<1>1. l \in LineType /\ LineOK(l)
  BY WritableIs
<1>2. ProgramType /\ Len(lines) \in Nat
  BY DEF TypeInv, ProgramType
<1>3. Longer(l) /\ lines' \in Seq(LineType)
  BY <1>1, <1>2, LongerIs DEF Write
<1>4. \A k \in 1 .. Len(lines') : LineOK(lines'[k])
  <2>1. \A k \in 1 .. Len(lines') : k \in 1 .. Len(lines) \/ k = Len(lines) + 1
    BY <1>2, <1>3 DEF Longer
  <2> QED  BY <1>1, <1>2, <1>3, <2>1 DEF Longer, ProgramType
<1>5. stage' = "write" /\ stage = "write"
  BY DEF Write
<1>6. ProgramType'
  <2>1. /\ blocks' \in Seq(BlockType) /\ Len(lines) + 1 + Len(blocks') <= MaxLines
        /\ blocks' # <<>> /\ blocks'[1].op = "class" => blocks'[1].name \in Classes
    BY <1>2, BlocksWritten
  <2>2. defs' \in Seq(DefType)
    BY <1>2, DefsWritten
  <2>3. Len(lines') + Len(blocks') <= MaxLines
    BY <1>3, <2>1 DEF Longer
  <2> QED  BY <1>3, <1>4, <1>5, <2>1, <2>2, <2>3 DEF ProgramType
<1>7. TablesType' /\ PassType'
  <2>1. UNCHANGED <<stage, pos, scope, current_class, packages, lookup, attributes, errors, package, inner>>
    BY DEF Write, Tables, Body
  <2>2. 1 .. Len(lines) + 1 \subseteq 1 .. Len(lines') + 1
    BY <1>2, <1>3 DEF Longer
  <2>3. TablesType'
    BY <2>1, <2>2 DEF TypeInv, TablesType
  <2> QED  BY <2>1, <2>2, <2>3 DEF TypeInv, PassType
<1> QED  BY <1>6, <1>7 DEF TypeInv

LEMMA InterpretType ==
  ASSUME TypeInv, Interpret
  PROVE  TypeInv'
<1>1. /\ UNCHANGED <<pos, scope, current_class, lines, blocks, defs, packages, lookup, attributes, errors, package, inner>>
      /\ stage = "write" /\ stage' = "lookups" /\ blocks = <<>>
  BY DEF Interpret, Program, Tables, Body
<1>2. ProgramType'
  BY <1>1 DEF TypeInv, ProgramType
<1>3. TablesType'
  BY <1>1 DEF TypeInv, TablesType
<1>4. PassType'
  BY <1>1 DEF TypeInv, PassType
<1> QED  BY <1>2, <1>3, <1>4 DEF TypeInv

(***************************************************************************)
(* The passes.                                                             *)
(***************************************************************************)
WithOf(table, name, e, t) ==
  /\ t \in [DOMAIN t -> EntryType] /\ DOMAIN t = DOMAIN table \cup {name} /\ t[name] = e
  /\ \A n \in DOMAIN table : n # name => t[n] = table[n]

LEMMA WithIs ==
  ASSUME NEW table, table \in [DOMAIN table -> EntryType], NEW name, NEW e \in EntryType
  PROVE  WithOf(table, name, e, With(table, name, e))
<1>1. PICK t : t = With(table, name, e)
  OBVIOUS
<1>2. /\ DOMAIN t = DOMAIN table \cup {name}
      /\ \A n \in DOMAIN table \cup {name} : t[n] = IF n = name THEN e ELSE table[n]
      /\ t = [n \in DOMAIN t |-> t[n]]
  BY <1>1 DEF With
<1>3. \A n \in DOMAIN table : table[n] \in EntryType
  OBVIOUS
<1>4. \A n \in DOMAIN t : t[n] \in EntryType
  BY <1>2, <1>3
<1> QED  BY <1>1, <1>2, <1>4 DEF WithOf

LEMMA EntryIs ==
  ASSUME NEW type \in {"function", "class", "external"}, NEW n \in Nat
  PROVE  Entry(type, n) \in EntryType /\ Entry(type, n).type = type /\ Entry(type, n).arguments = n
BY DEF Entry, EntryType

(* The line a pass is at. *)
LEMMA AtIs ==
  ASSUME TypeInv, pos <= Len(lines)
  PROVE  /\ At \in LineType /\ LineOK(At) /\ Len(At.args) \in Nat
         /\ pos \in 1 .. Len(lines) /\ pos - 1 \in 0 .. Len(lines) /\ pos + 1 \in 1 .. Len(lines) + 1
         /\ Len(lines) \in Nat /\ Len(lines) <= MaxLines /\ MaxLines \in Nat
<1>1. Len(lines) \in Nat /\ Len(blocks) \in Nat /\ Len(lines) + Len(blocks) <= MaxLines /\ MaxLines \in Nat
  BY InterpreterAssumption DEF TypeInv, ProgramType
<1>2. pos \in 1 .. Len(lines)
  BY <1>1 DEF TypeInv, PassType
<1>3. At \in LineType /\ LineOK(At)
  BY <1>2 DEF TypeInv, ProgramType, At
<1>4. Len(At.args) \in Nat
  BY <1>3 DEF LineType
<1> QED  BY <1>1, <1>2, <1>3, <1>4

LEMMA ProgramStays ==
  ASSUME ProgramType, UNCHANGED Program, stage # "write"
  PROVE  ProgramType'
BY DEF ProgramType, Program

LEMMA TablesStay ==
  ASSUME TablesType, UNCHANGED Tables, UNCHANGED Program
  PROVE  TablesType'
BY DEF TablesType, Tables, Program

LEMMA LookupsType ==
  ASSUME TypeInv, Process_Lookups
  PROVE  TypeInv'
<1>1. /\ stage = "lookups" /\ pos <= Len(lines) /\ pos' = pos + 1
      /\ UNCHANGED <<stage, package, inner>> /\ UNCHANGED Program /\ lines' = lines
  BY DEF Process_Lookups, Program, Body
<1>2. ProgramType'
  BY <1>1, ProgramStays DEF TypeInv
<1>3. /\ At \in LineType /\ LineOK(At) /\ Len(At.args) \in Nat
      /\ pos \in 1 .. Len(lines) /\ pos - 1 \in 0 .. Len(lines) /\ pos + 1 \in 1 .. Len(lines) + 1
      /\ Len(lines) \in Nat /\ Len(lines) <= MaxLines /\ MaxLines \in Nat
  BY <1>1, AtIs
<1>4. TablesType /\ PassType
  BY DEF TypeInv
<1>5. TablesType' /\ current_class' \in Classes \cup {Nil} /\ scope' \in {scope - 1, scope, scope + 1}
  <2>1. CASE LookupDef
    <3>1. UNCHANGED <<current_class, attributes>> /\ scope' \in {scope, scope + 1} /\ errors' \subseteq errors \cup {pos}
      BY <2>1 DEF LookupDef
    <3>2. PICK e \in EntryType : e = Entry("function", Len(At.args))
      BY <1>3, EntryIs
    <3>3. At.name \in Functions \cup GlobalMethods
      BY <1>3, <2>1 DEF LookupDef, LineOK
    <3>4. packages' = packages \/ packages' = With(packages, At.name, e)
      BY <2>1, <3>2 DEF LookupDef
    <3>5. packages' \in [DOMAIN packages' -> EntryType] /\ DOMAIN packages' \subseteq Functions \cup GlobalMethods \cup Classes
      <4>1. packages \in [DOMAIN packages -> EntryType] /\ DOMAIN packages \subseteq Functions \cup GlobalMethods \cup Classes
        BY <1>4 DEF TablesType
      <4>2. WithOf(packages, At.name, e, With(packages, At.name, e))
        BY <4>1, WithIs
      <4>3. WithOf(packages, At.name, e, packages') \/ packages' = packages
        BY <3>4, <4>2
      <4> QED  BY <3>3, <4>1, <4>3 DEF WithOf
    <3>6. \/ lookup' = lookup
          \/ current_class # Nil /\ lookup' = [lookup EXCEPT ![current_class] = With(lookup[current_class], At.name, e)]
      BY <2>1, <3>2 DEF LookupDef
    <3>7. /\ lookup' = [c \in Classes |-> lookup'[c]]
          /\ \A c \in Classes : lookup'[c] = lookup[c] \/ lookup'[c] = With(lookup[c], At.name, e)
      BY <1>4, <3>6 DEF TablesType
    <3>8. ASSUME NEW c \in Classes
          PROVE  lookup'[c] \in [DOMAIN lookup'[c] -> EntryType] /\ DOMAIN lookup'[c] \subseteq Functions \cup GlobalMethods
      <4>1. PICK t : t = lookup[c]
        OBVIOUS
      <4>2. t \in [DOMAIN t -> EntryType] /\ DOMAIN t \subseteq Functions \cup GlobalMethods
        BY <1>4, <4>1 DEF TablesType
      <4>3. WithOf(t, At.name, e, With(t, At.name, e))
        BY <4>2, WithIs
      <4> QED  BY <3>3, <3>7, <4>1, <4>2, <4>3 DEF WithOf
    <3>9. errors' \subseteq 1 .. Len(lines) + 1
      BY <1>3, <1>4, <3>1 DEF TablesType
    <3>10. TablesType'
      BY <1>1, <1>4, <3>1, <3>5, <3>7, <3>8, <3>9 DEF TablesType
    <3> QED  BY <1>4, <3>1, <3>10 DEF PassType
  <2>2. CASE LookupClass
    <3>1. UNCHANGED <<lookup, attributes>> /\ scope' \in {scope, scope + 1} /\ errors' \subseteq errors \cup {pos}
          /\ current_class' \in {current_class, At.name}
      BY <2>2 DEF LookupClass
    <3>2. PICK e \in EntryType : e = Entry("class", 0)
      BY EntryIs
    <3>3. At.name \in Classes
      BY <1>3, <2>2 DEF LookupClass, LineOK
    <3>4. packages' = packages \/ packages' = With(packages, At.name, e)
      BY <2>2, <3>2 DEF LookupClass
    <3>5. packages' \in [DOMAIN packages' -> EntryType] /\ DOMAIN packages' \subseteq Functions \cup GlobalMethods \cup Classes
      <4>1. packages \in [DOMAIN packages -> EntryType] /\ DOMAIN packages \subseteq Functions \cup GlobalMethods \cup Classes
        BY <1>4 DEF TablesType
      <4>2. WithOf(packages, At.name, e, With(packages, At.name, e))
        BY <4>1, WithIs
      <4>3. WithOf(packages, At.name, e, packages') \/ packages' = packages
        BY <3>4, <4>2
      <4> QED  BY <3>3, <4>1, <4>3 DEF WithOf
    <3>6. errors' \subseteq 1 .. Len(lines) + 1
      BY <1>3, <1>4, <3>1 DEF TablesType
    <3>7. TablesType'
      BY <1>1, <1>4, <3>1, <3>5, <3>6 DEF TablesType
    <3> QED  BY <1>4, <3>1, <3>3, <3>7 DEF PassType
  <2>3. CASE LookupEnd \/ LookupIf
    <3>1. /\ UNCHANGED Tables /\ scope' \in {scope - 1, scope + 1} /\ current_class' \in {current_class, Nil}
      BY <2>3 DEF LookupEnd, LookupIf
    <3> QED  BY <1>1, <1>4, <3>1, TablesStay DEF PassType
  <2>4. CASE LookupUse
    <3>1. UNCHANGED <<scope, current_class, packages, lookup, errors>>
      BY <2>4 DEF LookupUse
    <3>2. \/ attributes' = attributes
          \/ /\ At.name \in Attributes
             /\ attributes' = [attributes EXCEPT ![current_class] = Append(attributes[current_class], At.name)]
      BY <2>4 DEF LookupUse
    <3>3. attributes' \in [Classes -> Seq(Attributes)]
      <4>1. ASSUME NEW c \in Classes, At.name \in Attributes
            PROVE  Append(attributes[c], At.name) \in Seq(Attributes)
        BY <1>4, <4>1 DEF TablesType
      <4>2. attributes \in [Classes -> Seq(Attributes)]
        BY <1>4 DEF TablesType
      <4> QED  BY <3>2, <4>1, <4>2
    <3>4. TablesType'
      BY <1>1, <1>4, <3>1, <3>3 DEF TablesType
    <3> QED  BY <1>4, <3>1, <3>4 DEF PassType
  <2> QED  BY <2>1, <2>2, <2>3, <2>4 DEF Process_Lookups
<1>6. PassType'
  BY <1>1, <1>3, <1>4, <1>5 DEF PassType
<1> QED  BY <1>2, <1>5, <1>6 DEF TypeInv

LEMMA EndLookupsType ==
  ASSUME TypeInv, EndLookups
  PROVE  TypeInv'
<1>1. /\ stage = "lookups" /\ stage' = "logic" /\ pos' = 1 /\ current_class' = Nil
      /\ UNCHANGED <<scope, packages, attributes, package, inner>> /\ UNCHANGED Program /\ lines' = lines
      /\ errors' \subseteq errors \cup {pos}
  BY DEF EndLookups, Body, Program
<1>2. ProgramType'
  BY <1>1, ProgramStays DEF TypeInv
<1>3. TablesType /\ PassType /\ Len(lines) \in Nat
  BY DEF TypeInv, ProgramType
<1>4. PassType'
  BY <1>1, <1>3 DEF PassType
<1>5. errors' \subseteq 1 .. Len(lines) + 1
  BY <1>1, <1>3 DEF TablesType, PassType
<1>6. lookup' = [c \in Classes |-> Add_Global_Methods(lookup[c])]
  BY DEF EndLookups
<1>7. lookup' = [c \in Classes |-> lookup'[c]]
  BY <1>6
<1>8. ASSUME NEW c \in Classes
      PROVE  lookup'[c] \in [DOMAIN lookup'[c] -> EntryType] /\ DOMAIN lookup'[c] \subseteq Functions \cup GlobalMethods
  <2>1. PICK t, t2 : t = lookup[c] /\ t2 = lookup'[c]
    OBVIOUS
  <2>2. t \in [DOMAIN t -> EntryType] /\ DOMAIN t \subseteq Functions \cup GlobalMethods
    BY <1>3, <2>1 DEF TablesType
  <2>3. PICK e \in EntryType : e = Entry("external", 1)
    BY EntryIs
  <2>4. t2 = [n \in DOMAIN t \cup GlobalMethods |-> IF n \in GlobalMethods THEN e ELSE t[n]]
    BY <1>6, <2>1, <2>3 DEF Add_Global_Methods
  <2> QED  BY <2>1, <2>2, <2>3, <2>4
<1>9. TablesType'
  BY <1>1, <1>3, <1>5, <1>7, <1>8 DEF TablesType
<1> QED  BY <1>2, <1>4, <1>9 DEF TypeInv

LEMMA LogicType ==
  ASSUME TypeInv, Process_Logic
  PROVE  TypeInv'
<1>1. /\ stage = "logic" /\ package = Nil /\ pos <= Len(lines) /\ pos' = pos + 1
      /\ UNCHANGED <<stage, scope>> /\ UNCHANGED Program /\ UNCHANGED Tables /\ lines' = lines
  BY DEF Process_Logic, Program
<1>2. ProgramType' /\ TablesType'
  BY <1>1, ProgramStays, TablesStay DEF TypeInv
<1>3. /\ LineOK(At) /\ pos \in 1 .. Len(lines) /\ pos + 1 \in 1 .. Len(lines) + 1 /\ Len(lines) \in Nat
  BY <1>1, AtIs
<1>4. /\ current_class' \in {current_class, Nil, At.name} /\ (current_class' = At.name => At.op = "class" \/ At.name \in {current_class, Nil})
      /\ inner' = 1 \/ (inner' = inner /\ package' = package)
  BY DEF Process_Logic, LogicDef, LogicClass, LogicOther, Body
<1>5. current_class' \in Classes \cup {Nil}
  BY <1>3, <1>4 DEF TypeInv, PassType, LineOK
<1>6. PassType'
  BY <1>1, <1>3, <1>4, <1>5 DEF TypeInv, PassType
<1> QED  BY <1>2, <1>6 DEF TypeInv

LEMMA PackageType ==
  ASSUME TypeInv, Process_Package
  PROVE  TypeInv'
<1>1. /\ stage = "logic" /\ package # Nil /\ pos <= Len(lines) /\ pos' = pos + 1
      /\ UNCHANGED <<stage, scope, current_class>> /\ UNCHANGED Program /\ UNCHANGED Tables /\ lines' = lines
  BY DEF Process_Package, Program
<1>2. ProgramType' /\ TablesType'
  BY <1>1, ProgramStays, TablesStay DEF TypeInv
<1>3. /\ pos \in 1 .. Len(lines) /\ pos + 1 \in 1 .. Len(lines) + 1 /\ Len(lines) \in Nat
  BY <1>1, AtIs
<1>4. \/ inner' = inner /\ package' = package
      \/ inner' = inner + 1 /\ package' = package
      \/ inner' = inner - 1 /\ (inner' = 0 => package' = Nil) /\ (inner' # 0 => package' = package)
  BY DEF Process_Package, PackageUse, PackageIf, PackageEnd, PackageOther
<1>5. inner \in Nat /\ inner > 0 /\ inner <= pos - 1
  BY <1>1 DEF TypeInv, PassType
<1>6. PassType'
  BY <1>1, <1>3, <1>4, <1>5 DEF TypeInv, PassType
<1> QED  BY <1>2, <1>6 DEF TypeInv

LEMMA EndLogicType ==
  ASSUME TypeInv, EndLogic
  PROVE  TypeInv'
<1>1. /\ stage = "logic" /\ stage' = "done" /\ UNCHANGED <<pos, scope, current_class, package, inner>>
      /\ UNCHANGED Program /\ UNCHANGED Tables /\ lines' = lines
  BY DEF EndLogic, Program, Body
<1>2. ProgramType' /\ TablesType'
  BY <1>1, ProgramStays, TablesStay DEF TypeInv
<1>3. PassType'
  BY <1>1 DEF TypeInv, PassType
<1> QED  BY <1>2, <1>3 DEF TypeInv

LEMMA TypeStutter ==
  ASSUME TypeInv, UNCHANGED vars
  PROVE  TypeInv'
<1>1. ProgramType'
  BY DEF vars, TypeInv, ProgramType
<1>2. TablesType'
  BY DEF vars, TypeInv, TablesType
<1>3. PassType'
  BY DEF vars, TypeInv, PassType
<1> QED  BY <1>1, <1>2, <1>3 DEF TypeInv

LEMMA TypeKept == TypeInv /\ [Next]_vars => TypeInv'
<1> SUFFICES ASSUME TypeInv, [Next]_vars
             PROVE  TypeInv'
  OBVIOUS
<1>1. ASSUME NEW l \in Writable, Write(l) PROVE TypeInv'
  BY <1>1, WriteType
<1>2. CASE Interpret
  BY <1>2, InterpretType
<1>3. CASE Passes
  BY <1>3, LookupsType, EndLookupsType, LogicType, PackageType, EndLogicType DEF Passes
<1>4. CASE UNCHANGED vars
  BY <1>4, TypeStutter
<1> QED  BY <1>1, <1>2, <1>3, <1>4 DEF Next

(* Every variable has its type, and the scopes that the passes count stay  *)
(* within the length of the program, whatever the program is               *)
(* (Process_Lookups, Process_Logic, Process_Package).                      *)
THEOREM TypeCorrect == Spec => []TypeOK
<1>1. Init => TypeInv
  BY TypeInit
<1>2. TypeInv /\ [Next]_vars => TypeInv'
  BY TypeKept
<1>3. TypeInv => TypeOK
  BY TypeImplies
<1> QED  BY <1>1, <1>2, <1>3, PTL DEF Spec

(***************************************************************************)
(* The history of the program.                                             *)
(***************************************************************************)
Base(c) == IF c = Nil THEN 0 ELSE 1
In(D, C, n) == D[n] > Base(C[n])

(* Line l, the n-th, in a history. *)
Step(D, C, K, l, n) ==
  /\ l.op = "def" =>
       /\ D[n - 1] >= Base(C[n - 1]) /\ ("nested" \notin Allowed => ~In(D, C, n - 1))
       /\ D[n] = D[n - 1] + 1 /\ C[n] = C[n - 1] /\ K[n] = K[n - 1] + 1
       /\ l.name \in GlobalMethods \ Functions => "override" \in Allowed
  /\ l.op = "class" => /\ D[n - 1] = 0 /\ C[n - 1] = Nil
                       /\ D[n] = 1 /\ C[n] = l.name /\ K[n] = K[n - 1]
  /\ l.op = "if" => In(D, C, n - 1) /\ D[n] = D[n - 1] + 1 /\ C[n] = C[n - 1] /\ K[n] = K[n - 1]
  /\ l.op = "end" => /\ D[n - 1] > 0 /\ D[n] = D[n - 1] - 1
                     /\ C[n] = (IF D[n] = 0 THEN Nil ELSE C[n - 1]) /\ K[n] = K[n - 1]
  /\ l.op \in {"use", "text"} =>
       /\ In(D, C, n - 1) /\ D[n] = D[n - 1] /\ C[n] = C[n - 1] /\ K[n] = K[n - 1]
       /\ l.op = "use" /\ l.name \in Attributes /\ "stray" \notin Allowed => C[n - 1] # Nil

(* Line n begins the function that the history says. *)
Begins(C, K, n) ==
  /\ K[n] \in 1 .. Len(defs) /\ defs[K[n]].name = lines[n].name /\ defs[K[n]].class = C[n - 1]
  /\ defs[K[n]].arguments = Len(lines[n].args) /\ defs[K[n]].from = n

History(D, C, K) ==
  /\ D \in [Nat -> Nat] /\ C \in [Nat -> Classes \cup {Nil}] /\ K \in [Nat -> Nat]
  /\ D[0] = 0 /\ C[0] = Nil /\ K[0] = 0
  /\ \A n \in 0 .. Len(lines) : D[n] >= Base(C[n]) /\ K[n] <= Len(defs)
  /\ K[Len(lines)] = Len(defs)
  /\ \A n \in 1 .. Len(lines) : Step(D, C, K, lines[n], n) /\ (lines[n].op = "def" => Begins(C, K, n))
  /\ \A i \in 1 .. Len(defs) : /\ defs[i].from \in 1 .. Len(lines)
                               /\ lines[defs[i].from].op = "def" /\ K[defs[i].from] = i

(* Line n is in function i. *)
Inside(i, n) == defs[i].from <= n /\ (defs[i].to = 0 \/ n < defs[i].to)

(* Where the functions end, when they are not nested. *)
Ends(D, C, K) ==
  /\ \A i \in 1 .. Len(defs) : \A n \in 0 .. Len(lines) : Inside(i, n) <=> (In(D, C, n) /\ K[n] = i)
  /\ \A n \in 1 .. Len(lines) :
       In(D, C, n - 1) /\ ~In(D, C, n) => K[n] \in 1 .. Len(defs) /\ defs[K[n]].to = n
  /\ \A i \in 1 .. Len(defs) : defs[i].to <= Len(lines)

(* The blocks of the writer. *)
Written(D, C, K) ==
  LET base == Base(C[Len(lines)]) IN
  /\ D[Len(lines)] = Len(blocks)
  /\ InClass <=> C[Len(lines)] # Nil
  /\ InClass => blocks[1].name = C[Len(lines)]
  /\ Len(blocks) > base => blocks[base + 1].op = "def"
  /\ \A k \in base + 2 .. Len(blocks) : blocks[k].op = "if" \/ (blocks[k].op = "def" /\ "nested" \in Allowed)
  /\ "nested" \notin Allowed /\ Len(blocks) > base =>
       Len(defs) > 0 /\ blocks[base + 1].line = defs[Len(defs)].from /\ defs[Len(defs)].to = 0

Recorded(D, C, K) == History(D, C, K) /\ Written(D, C, K) /\ ("nested" \notin Allowed => Ends(D, C, K))

(* What the history has for one line more. *)
Adds(f, g, v, S) == g \in [Nat -> S] /\ g[Len(lines) + 1] = v /\ \A n \in 0 .. Len(lines) : g[n] = f[n]

LEMMA CanAdd ==
  ASSUME Len(lines) \in Nat, NEW S, NEW f \in [Nat -> S], NEW v \in S
  PROVE  \E g : Adds(f, g, v, S)
<1>1. PICK g : g = [f EXCEPT ![Len(lines) + 1] = v]
  OBVIOUS
<1>2. PICK m \in Nat : m = Len(lines)
  OBVIOUS
<1>3. g \in [Nat -> S] /\ g[m + 1] = v /\ \A n \in 0 .. m : g[n] = f[n]
  BY <1>1, <1>2
<1> QED  BY <1>2, <1>3 DEF Adds

(* The functions so far stay, and a def begins one. *)
Follows(l, c) ==
  /\ \A i \in 1 .. Len(defs) : Same(defs'[i], defs[i])
  /\ l.op # "def" => Len(defs') = Len(defs)
  /\ l.op = "def" => /\ Len(defs') = Len(defs) + 1
                     /\ defs'[Len(defs) + 1].name = l.name /\ defs'[Len(defs) + 1].class = c
                     /\ defs'[Len(defs) + 1].arguments = Len(l.args)
                     /\ defs'[Len(defs) + 1].from = Len(lines) + 1

HistoryType(D, C, K) == D \in [Nat -> Nat] /\ C \in [Nat -> Classes \cup {Nil}] /\ K \in [Nat -> Nat]

LEMMA HistoryGrows ==
  ASSUME ProgramType, NEW D, NEW C, NEW K, History(D, C, K), NEW l, Longer(l),
         NEW d, NEW c, NEW k, NEW D2, NEW C2, NEW K2,
         Adds(D, D2, d, Nat), Adds(C, C2, c, Classes \cup {Nil}), Adds(K, K2, k, Nat),
         Step(D2, C2, K2, l, Len(lines) + 1), d >= Base(c), k = Len(defs'), Follows(l, C[Len(lines)])
  PROVE  History(D2, C2, K2)'
<1>0. lines \in Seq(LineType) /\ defs \in Seq(DefType)
  BY DEF ProgramType
<1>1. PICK N \in Nat, M \in Nat : N = Len(lines) /\ M = Len(defs)
  BY ONLY <1>0
<1>2. /\ D2 \in [Nat -> Nat] /\ C2 \in [Nat -> Classes \cup {Nil}] /\ K2 \in [Nat -> Nat]
      /\ D2[N + 1] = d /\ C2[N + 1] = c /\ K2[N + 1] = k
      /\ \A n \in 0 .. N : D2[n] = D[n] /\ C2[n] = C[n] /\ K2[n] = K[n]
  BY <1>1 DEF Adds
<1>3. Len(lines') = N + 1 /\ lines'[N + 1] = l /\ \A n \in 1 .. N : lines'[n] = lines[n]
  BY <1>1 DEF Longer
<1>4. /\ D \in [Nat -> Nat] /\ K \in [Nat -> Nat]
      /\ D[0] = 0 /\ C[0] = Nil /\ K[0] = 0 /\ K[N] = M
      /\ \A n \in 0 .. N : D[n] >= Base(C[n]) /\ K[n] <= M
      /\ \A n \in 1 .. N : Step(D, C, K, lines[n], n) /\ (lines[n].op = "def" => Begins(C, K, n))
      /\ \A i \in 1 .. M : defs[i].from \in 1 .. N /\ lines[defs[i].from].op = "def" /\ K[defs[i].from] = i
  BY <1>1 DEF History
<1>5. M <= k /\ k \in Nat /\ (l.op = "def" => k = M + 1) /\ (l.op # "def" => k = M)
  BY <1>1 DEF Follows
<1>6. \A n \in 0 .. N + 1 : n \in 0 .. N \/ n = N + 1
  OBVIOUS
<1>7. D2[0] = 0 /\ C2[0] = Nil /\ K2[0] = 0
  <2>1. 0 \in 0 .. N
    OBVIOUS
  <2> QED  BY <1>2, <1>4, <2>1
<1>8. \A n \in 0 .. Len(lines') : D2[n] >= Base(C2[n]) /\ K2[n] <= Len(defs')
  <2>1. ASSUME NEW n \in 0 .. N
        PROVE  D2[n] >= Base(C2[n]) /\ K2[n] <= k
    <3>1. D2[n] = D[n] /\ C2[n] = C[n] /\ K2[n] = K[n] /\ D[n] >= Base(C[n]) /\ K[n] <= M
      BY <1>2, <1>4
    <3>2. K[n] \in Nat /\ M \in Nat /\ k \in Nat /\ M <= k
      BY <1>4, <1>5
    <3> QED  BY <3>1, <3>2
  <2>2. D2[N + 1] >= Base(C2[N + 1]) /\ K2[N + 1] <= k
    BY <1>2, <1>5
  <2> QED  BY <1>3, <1>6, <2>1, <2>2
<1>9. K2[Len(lines')] = Len(defs')
  BY <1>2, <1>3
<1>10. ASSUME NEW n \in 1 .. Len(lines')
       PROVE  Step(D2, C2, K2, lines'[n], n) /\ (lines'[n].op = "def" => Begins(C2, K2, n)')
  <2>1. CASE n = N + 1
    <3>1. Step(D2, C2, K2, lines'[n], n)
      BY <1>1, <1>3, <2>1
    <3>2. ASSUME l.op = "def" PROVE Begins(C2, K2, n)'
      <4>1. K2[n] = M + 1 /\ Len(defs') = M + 1
        BY <1>1, <1>2, <1>5, <2>1, <3>2
      <4>2. C2[n - 1] = C[N]
        BY <1>2, <2>1
      <4> QED  BY <1>1, <1>3, <2>1, <3>2, <4>1, <4>2 DEF Begins, Follows
    <3> QED  BY <1>3, <2>1, <3>1, <3>2
  <2>2. CASE n \in 1 .. N
    <3>1. n - 1 \in 0 .. N /\ n \in 0 .. N /\ lines'[n] = lines[n]
      BY <1>3, <2>2
    <3>2. D2[n] = D[n] /\ C2[n] = C[n] /\ K2[n] = K[n] /\ D2[n - 1] = D[n - 1] /\ C2[n - 1] = C[n - 1] /\ K2[n - 1] = K[n - 1]
      BY <1>2, <3>1
    <3>3. Step(D2, C2, K2, lines[n], n)
      <4>1. Step(D, C, K, lines[n], n)
        BY <1>4, <2>2
      <4> QED  BY <3>2, <4>1 DEF Step, In
    <3>4. ASSUME lines[n].op = "def" PROVE Begins(C2, K2, n)'
      <4>1. Begins(C, K, n)
        BY <1>4, <2>2, <3>4
      <4>2. PICK i : i = K[n]
        OBVIOUS
      <4>3. /\ i \in 1 .. M /\ defs[i].name = lines[n].name /\ defs[i].class = C[n - 1]
            /\ defs[i].arguments = Len(lines[n].args) /\ defs[i].from = n
        BY <1>1, <4>1, <4>2 DEF Begins
      <4>4. i \in 1 .. Len(defs') /\ Same(defs'[i], defs[i])
        BY <1>1, <1>5, <4>3 DEF Follows
      <4> QED  BY <3>1, <3>2, <4>2, <4>3, <4>4 DEF Begins, Same
    <3> QED  BY <3>1, <3>3, <3>4
  <2> QED  BY <1>3, <2>1, <2>2
<1>11. ASSUME NEW i \in 1 .. Len(defs')
       PROVE  defs'[i].from \in 1 .. Len(lines') /\ lines'[defs'[i].from].op = "def" /\ K2[defs'[i].from] = i
  <2>1. CASE i \in 1 .. M
    <3>1. PICK n : n = defs[i].from
      OBVIOUS
    <3>2. n \in 1 .. N /\ lines[n].op = "def" /\ K[n] = i /\ defs'[i].from = n
      BY <1>1, <1>4, <2>1, <3>1 DEF Follows, Same
    <3>3. n \in 0 .. N /\ n \in 1 .. N + 1
      BY <3>2
    <3> QED  BY <1>2, <1>3, <3>2, <3>3
  <2>2. CASE i \notin 1 .. M
    <3>1. l.op = "def" /\ i = M + 1 /\ i = k
      BY <1>5, <2>2
    <3>2. defs'[i].from = N + 1
      BY <1>1, <3>1 DEF Follows
    <3>3. N + 1 \in 1 .. N + 1 /\ K2[N + 1] = i
      BY <1>2, <3>1
    <3> QED  BY <1>3, <3>1, <3>2, <3>3
  <2> QED  BY <2>1, <2>2
<1> QED  BY <1>2, <1>7, <1>8, <1>9, <1>10, <1>11 DEF History

(* What the blocks say of the end of the program so far. *)
LEMMA WriterKnows ==
  ASSUME ProgramType, NEW D, NEW C, NEW K, History(D, C, K), Written(D, C, K)
  PROVE  /\ D[Len(lines)] = Len(blocks) /\ C[Len(lines)] \in Classes \cup {Nil} /\ K[Len(lines)] = Len(defs)
         /\ D[Len(lines)] >= Base(C[Len(lines)])
         /\ In(D, C, Len(lines)) <=> InDef
         /\ InClass <=> C[Len(lines)] # Nil
         /\ \A name : ClassOf(name) = C[Len(lines)]
<1>0. PICK c : c = C[Len(lines)]
  OBVIOUS
<1>1. PICK N \in Nat, L \in Nat : N = Len(lines) /\ L = Len(blocks) /\ c = C[N]
  BY <1>0 DEF ProgramType
<1>2. N \in 0 .. N
  BY <1>1
<1>3. D[N] = L /\ c \in Classes \cup {Nil} /\ L >= Base(c) /\ K[N] = Len(defs)
  BY <1>1, <1>2 DEF History, Written
<1>4. InClass <=> c # Nil
  BY <1>1 DEF Written
<1>5. InClass => blocks[1].name = c
  BY <1>1 DEF Written
<1>6. \A name : ClassOf(name) = c
  BY <1>4, <1>5 DEF ClassOf
<1>7. DOMAIN blocks = 1 .. L
  BY <1>1 DEF ProgramType
<1>8. L > Base(c) => InDef
  <2>1. Base(c) \in Nat
    BY DEF Base
  <2>2. L > Base(c) => Base(c) + 1 \in 1 .. L
    BY <1>1, <2>1
  <2>3. L > Base(c) => blocks[Base(c) + 1].op = "def"
    BY <1>1 DEF Written
  <2> QED  BY <1>7, <2>2, <2>3 DEF InDef
<1>9. InDef => L > Base(c)
  <2>1. ASSUME InDef, L <= Base(c)
        PROVE  FALSE
    <3>1. PICK i \in 1 .. L : blocks[i].op = "def"
      BY <1>7, <2>1 DEF InDef
    <3>2. i = 1 /\ Base(c) = 1
      BY <1>1, <2>1, <3>1 DEF Base
    <3>3. InClass
      BY <1>4, <3>2 DEF Base
    <3> QED  BY <3>1, <3>2, <3>3 DEF InClass
  <2>2. Base(c) \in Nat
    BY DEF Base
  <2> QED  BY <1>1, <2>1, <2>2
<1> QED  BY <1>1, <1>3, <1>4, <1>6, <1>8, <1>9 DEF In

(* The history with line l, and what is true of the lines before it. *)
Adding(l, k, D, C, K, D2, C2, K2) ==
  /\ Longer(l)
  /\ \E d : Adds(D, D2, d, Nat)
  /\ \E c : Adds(C, C2, c, Classes \cup {Nil})
  /\ Adds(K, K2, k, Nat)

SoFar(k, D, C, K, D2, C2, K2, N, M) ==
  /\ N = Len(lines) /\ M = Len(defs) /\ Len(lines') = N + 1 /\ K2[N + 1] = k
  /\ \A n \in 0 .. N : (In(D2, C2, n) <=> In(D, C, n)) /\ K2[n] = K[n] /\ K[n] <= M /\ K[n] \in Nat
  /\ \A i \in 1 .. M : /\ defs[i].from \in 1 .. N /\ defs[i].to \in 0 .. N
                       /\ \A n \in 0 .. N : Inside(i, n) <=> (In(D, C, n) /\ K[n] = i)
                       /\ Inside(i, N + 1) <=> Inside(i, N)
  /\ \A n \in 1 .. N : In(D, C, n - 1) /\ ~In(D, C, n) => K[n] \in 1 .. M /\ defs[K[n]].to = n

LEMMA EndsSoFar ==
  ASSUME ProgramType, NEW D, NEW C, NEW K, History(D, C, K), Ends(D, C, K),
         NEW l, NEW k, NEW D2, NEW C2, NEW K2, Adding(l, k, D, C, K, D2, C2, K2)
  PROVE  \E N \in Nat, M \in Nat : SoFar(k, D, C, K, D2, C2, K2, N, M)
<1>1. PICK N \in Nat, M \in Nat : N = Len(lines) /\ M = Len(defs)
  BY DEF ProgramType
<1>2. /\ K2[N + 1] = k
      /\ \A n \in 0 .. N : D2[n] = D[n] /\ C2[n] = C[n] /\ K2[n] = K[n]
  BY <1>1 DEF Adding, Adds
<1>3. Len(lines') = N + 1
  BY <1>1 DEF Adding, Longer
<1>4. \A n \in 0 .. N : K[n] <= M /\ K[n] \in Nat
  BY <1>1 DEF History
<1>5. \A n \in 0 .. N : (In(D2, C2, n) <=> In(D, C, n))
  BY <1>2 DEF In
<1>6. ASSUME NEW i \in 1 .. M
      PROVE  /\ defs[i].from \in 1 .. N /\ defs[i].to \in 0 .. N
             /\ \A n \in 0 .. N : Inside(i, n) <=> (In(D, C, n) /\ K[n] = i)
             /\ Inside(i, N + 1) <=> Inside(i, N)
  <2>1. PICK f, t : f = defs[i].from /\ t = defs[i].to
    OBVIOUS
  <2>2. f \in 1 .. N
    BY <1>1, <2>1 DEF History
  <2>3. t \in Nat
    <3>1. defs[i] \in DefType
      BY <1>1 DEF ProgramType
    <3> QED  BY <2>1, <3>1 DEF DefType
  <2>4. t <= N
    BY <1>1, <2>1 DEF Ends
  <2>5. \A n \in 0 .. N : Inside(i, n) <=> (In(D, C, n) /\ K[n] = i)
    BY <1>1 DEF Ends
  <2>6. \A n : Inside(i, n) <=> (f <= n /\ (t = 0 \/ n < t))
    BY <2>1 DEF Inside
  <2>7. Inside(i, N + 1) <=> Inside(i, N)
    BY <1>1, <2>2, <2>3, <2>4, <2>6
  <2> QED  BY <1>1, <2>1, <2>2, <2>3, <2>4, <2>5, <2>7
<1>7. \A n \in 1 .. N : In(D, C, n - 1) /\ ~In(D, C, n) => K[n] \in 1 .. M /\ defs[K[n]].to = n
  BY <1>1 DEF Ends
<1> QED  BY <1>1, <1>2, <1>3, <1>4, <1>5, <1>6, <1>7 DEF SoFar

LEMMA EndsStay ==
  ASSUME ProgramType, NEW D, NEW C, NEW K, History(D, C, K), Ends(D, C, K),
         NEW l, NEW k, NEW D2, NEW C2, NEW K2, Adding(l, k, D, C, K, D2, C2, K2),
         defs' = defs, k = K[Len(lines)], In(D2, C2, Len(lines) + 1) <=> In(D, C, Len(lines))
  PROVE  Ends(D2, C2, K2)'
<1>0. PICK N \in Nat, M \in Nat : SoFar(k, D, C, K, D2, C2, K2, N, M)
  BY EndsSoFar
<1>1. /\ N = Len(lines) /\ M = Len(defs) /\ Len(lines') = N + 1 /\ K2[N + 1] = k
      /\ \A n \in 0 .. N : (In(D2, C2, n) <=> In(D, C, n)) /\ K2[n] = K[n] /\ K[n] <= M /\ K[n] \in Nat
      /\ \A i \in 1 .. M : /\ defs[i].from \in 1 .. N /\ defs[i].to \in 0 .. N
                           /\ \A n \in 0 .. N : Inside(i, n) <=> (In(D, C, n) /\ K[n] = i)
                           /\ Inside(i, N + 1) <=> Inside(i, N)
      /\ \A n \in 1 .. N : In(D, C, n - 1) /\ ~In(D, C, n) => K[n] \in 1 .. M /\ defs[K[n]].to = n
  BY <1>0 DEF SoFar
<1>2. \A i, n : Inside(i, n)' <=> Inside(i, n)
  BY DEF Inside
<1>3. In(D2, C2, N + 1) <=> In(D, C, N)
  BY <1>1
<1>4. N \in 0 .. N
  OBVIOUS
<1>5. ASSUME NEW i \in 1 .. M, NEW n \in 0 .. N + 1
      PROVE  Inside(i, n) <=> (In(D2, C2, n) /\ K2[n] = i)
  <2>1. CASE n \in 0 .. N
    BY <1>1, <2>1
  <2>2. CASE n = N + 1
    BY <1>1, <1>3, <1>4, <2>2
  <2> QED  BY <2>1, <2>2
<1>6. ASSUME NEW n \in 1 .. N + 1, In(D2, C2, n - 1), ~In(D2, C2, n)
      PROVE  K2[n] \in 1 .. M /\ defs[K2[n]].to = n
  <2>1. n # N + 1
    BY <1>1, <1>3, <1>4, <1>6
  <2>2. n \in 1 .. N /\ n \in 0 .. N /\ n - 1 \in 0 .. N
    BY <2>1
  <2> QED  BY <1>1, <1>6, <2>2
<1>7. \A i \in 1 .. M : defs[i].to <= N + 1
  BY <1>1
<1> QED  BY <1>1, <1>2, <1>5, <1>6, <1>7 DEF Ends

LEMMA EndsBegin ==
  ASSUME ProgramType, NEW D, NEW C, NEW K, History(D, C, K), Ends(D, C, K),
         NEW l, NEW k, NEW D2, NEW C2, NEW K2, Adding(l, k, D, C, K, D2, C2, K2),
         Begun(l), k = Len(defs) + 1, ~In(D, C, Len(lines)), In(D2, C2, Len(lines) + 1)
  PROVE  Ends(D2, C2, K2)'
<1>0. PICK N \in Nat, M \in Nat : SoFar(k, D, C, K, D2, C2, K2, N, M)
  BY EndsSoFar
<1>1. /\ N = Len(lines) /\ M = Len(defs) /\ Len(lines') = N + 1 /\ K2[N + 1] = k
      /\ \A n \in 0 .. N : (In(D2, C2, n) <=> In(D, C, n)) /\ K2[n] = K[n] /\ K[n] <= M /\ K[n] \in Nat
      /\ \A i \in 1 .. M : /\ defs[i].from \in 1 .. N /\ defs[i].to \in 0 .. N
                           /\ \A n \in 0 .. N : Inside(i, n) <=> (In(D, C, n) /\ K[n] = i)
                           /\ Inside(i, N + 1) <=> Inside(i, N)
      /\ \A n \in 1 .. N : In(D, C, n - 1) /\ ~In(D, C, n) => K[n] \in 1 .. M /\ defs[K[n]].to = n
  BY <1>0 DEF SoFar
<1>2. /\ Len(defs') = M + 1 /\ defs'[M + 1].from = N + 1 /\ defs'[M + 1].to = 0
      /\ \A i \in 1 .. M : defs'[i] = defs[i]
  BY <1>1 DEF Begun
<1>3. N \in 0 .. N /\ ~In(D, C, N) /\ In(D2, C2, N + 1) /\ K2[N + 1] = M + 1
  BY <1>1
<1>4. \A i \in 1 .. M : \A n : Inside(i, n)' <=> Inside(i, n)
  BY <1>2 DEF Inside
<1>5. ASSUME NEW i \in 1 .. M + 1, NEW n \in 0 .. N + 1
      PROVE  Inside(i, n)' <=> (In(D2, C2, n) /\ K2[n] = i)
  <2>1. CASE i \in 1 .. M /\ n \in 0 .. N
    BY <1>1, <1>4, <2>1
  <2>2. CASE i \in 1 .. M /\ n = N + 1
    <3>1. ~Inside(i, N + 1)
      BY <1>1, <1>3, <2>2
    <3>2. K2[N + 1] # i
      BY <1>3, <2>2
    <3> QED  BY <1>4, <2>2, <3>1, <3>2
  <2>3. CASE i = M + 1 /\ n \in 0 .. N
    <3>1. K2[n] # M + 1
      BY <1>1, <2>3
    <3>2. ~Inside(i, n)'
      BY <1>2, <2>3 DEF Inside
    <3> QED  BY <2>3, <3>1, <3>2
  <2>4. CASE i = M + 1 /\ n = N + 1
    <3>1. Inside(i, n)'
      BY <1>2, <2>4 DEF Inside
    <3> QED  BY <1>3, <2>4, <3>1
  <2> QED  BY <2>1, <2>2, <2>3, <2>4
<1>6. ASSUME NEW n \in 1 .. N + 1, In(D2, C2, n - 1), ~In(D2, C2, n)
      PROVE  K2[n] \in 1 .. M + 1 /\ defs'[K2[n]].to = n
  <2>1. n # N + 1
    BY <1>3, <1>6
  <2>2. n \in 1 .. N /\ n \in 0 .. N /\ n - 1 \in 0 .. N
    BY <2>1
  <2>3. K2[n] \in 1 .. M /\ defs[K2[n]].to = n
    BY <1>1, <1>6, <2>2
  <2> QED  BY <1>2, <2>3
<1>7. ASSUME NEW i \in 1 .. M + 1
      PROVE  defs'[i].to <= N + 1
  <2>1. CASE i \in 1 .. M
    BY <1>1, <1>2, <2>1
  <2>2. CASE i = M + 1
    BY <1>2, <2>2
  <2> QED  BY <2>1, <2>2
<1> QED  BY <1>1, <1>2, <1>5, <1>6, <1>7 DEF Ends

LEMMA EndsEnd ==
  ASSUME ProgramType, NEW D, NEW C, NEW K, History(D, C, K), Ends(D, C, K),
         NEW l, NEW k, NEW D2, NEW C2, NEW K2, Adding(l, k, D, C, K, D2, C2, K2),
         NEW j, Ended(l, j), j = Len(defs), j # 0, defs[j].to = 0, k = j,
         In(D, C, Len(lines)), K[Len(lines)] = j, ~In(D2, C2, Len(lines) + 1)
  PROVE  Ends(D2, C2, K2)'
<1>0. PICK N \in Nat, M \in Nat : SoFar(k, D, C, K, D2, C2, K2, N, M)
  BY EndsSoFar
<1>1. /\ N = Len(lines) /\ M = Len(defs) /\ Len(lines') = N + 1 /\ K2[N + 1] = k
      /\ \A n \in 0 .. N : (In(D2, C2, n) <=> In(D, C, n)) /\ K2[n] = K[n] /\ K[n] <= M /\ K[n] \in Nat
      /\ \A i \in 1 .. M : /\ defs[i].from \in 1 .. N /\ defs[i].to \in 0 .. N
                           /\ \A n \in 0 .. N : Inside(i, n) <=> (In(D, C, n) /\ K[n] = i)
                           /\ Inside(i, N + 1) <=> Inside(i, N)
      /\ \A n \in 1 .. N : In(D, C, n - 1) /\ ~In(D, C, n) => K[n] \in 1 .. M /\ defs[K[n]].to = n
  BY <1>0 DEF SoFar
<1>2. /\ Len(defs') = M /\ j = M /\ j \in 1 .. M /\ defs'[j].from = defs[j].from /\ defs'[j].to = N + 1 /\ defs[j].to = 0
      /\ \A i \in 1 .. M : i # j => defs'[i] = defs[i]
  <2>1. j = M /\ j \in 1 .. M
    BY <1>1
  <2> QED  BY <1>1, <2>1 DEF Ended, Same
<1>3. N \in 0 .. N /\ In(D, C, N) /\ K[N] = j /\ ~In(D2, C2, N + 1) /\ K2[N + 1] = j
  BY <1>1
<1>4. \A i \in 1 .. M : i # j => \A n : Inside(i, n)' <=> Inside(i, n)
  BY <1>2 DEF Inside
<1>5. ASSUME NEW i \in 1 .. M, NEW n \in 0 .. N + 1
      PROVE  Inside(i, n)' <=> (In(D2, C2, n) /\ K2[n] = i)
  <2>1. CASE i # j /\ n \in 0 .. N
    BY <1>1, <1>4, <2>1
  <2>2. CASE i # j /\ n = N + 1
    <3>1. ~Inside(i, N + 1)
      BY <1>1, <1>3, <2>2
    <3> QED  BY <1>3, <1>4, <2>2, <3>1
  <2>3. CASE i = j /\ n \in 0 .. N
    <3>1. Inside(j, n) <=> defs[j].from <= n
      BY <1>2 DEF Inside
    <3>2. Inside(j, n)' <=> defs[j].from <= n
      BY <1>2, <2>3 DEF Inside
    <3> QED  BY <1>1, <2>3, <3>1, <3>2
  <2>4. CASE i = j /\ n = N + 1
    <3>1. ~Inside(i, n)'
      BY <1>2, <2>4 DEF Inside
    <3> QED  BY <1>3, <2>4, <3>1
  <2> QED  BY <2>1, <2>2, <2>3, <2>4
<1>6. ASSUME NEW n \in 1 .. N + 1, In(D2, C2, n - 1), ~In(D2, C2, n)
      PROVE  K2[n] \in 1 .. M /\ defs'[K2[n]].to = n
  <2>1. CASE n = N + 1
    BY <1>2, <1>3, <2>1
  <2>2. CASE n # N + 1
    <3>1. n \in 1 .. N /\ n \in 0 .. N /\ n - 1 \in 0 .. N
      BY <2>2
    <3>2. K2[n] = K[n] /\ K[n] \in 1 .. M /\ defs[K[n]].to = n
      BY <1>1, <1>6, <3>1
    <3>3. K[n] # j
      BY <1>2, <3>1, <3>2
    <3> QED  BY <1>2, <3>2, <3>3
  <2> QED  BY <2>1, <2>2
<1>7. ASSUME NEW i \in 1 .. M
      PROVE  defs'[i].to <= N + 1
  <2>1. CASE i # j
    BY <1>1, <1>2, <2>1
  <2>2. CASE i = j
    BY <1>2, <2>2
  <2> QED  BY <2>1, <2>2
<1> QED  BY <1>1, <1>2, <1>5, <1>6, <1>7 DEF Ends

(* A line that is written has a history. *)
Grown(d, c, k, D, C, K, D2, C2, K2) ==
  Adds(D, D2, d, Nat) /\ Adds(C, C2, c, Classes \cup {Nil}) /\ Adds(K, K2, k, Nat)

LEMMA GrownAt ==
  ASSUME Len(lines) \in Nat, NEW d, NEW c, NEW k, NEW D, NEW C, NEW K, NEW D2, NEW C2, NEW K2,
         Grown(d, c, k, D, C, K, D2, C2, K2)
  PROVE  /\ D2[Len(lines) + 1] = d /\ C2[Len(lines) + 1] = c /\ K2[Len(lines) + 1] = k
         /\ D2[Len(lines)] = D[Len(lines)] /\ C2[Len(lines)] = C[Len(lines)] /\ K2[Len(lines)] = K[Len(lines)]
         /\ (Len(lines) + 1) - 1 = Len(lines)
<1>1. Len(lines) \in 0 .. Len(lines) /\ (Len(lines) + 1) - 1 = Len(lines)
  OBVIOUS
<1> QED  BY <1>1 DEF Grown, Adds

LEMMA CanGrow ==
  ASSUME ProgramType, NEW D, NEW C, NEW K, History(D, C, K), NEW d \in Nat, NEW c \in Classes \cup {Nil}, NEW k \in Nat
  PROVE  \E D2, C2, K2 : Grown(d, c, k, D, C, K, D2, C2, K2)
<1>1. Len(lines) \in Nat
  BY DEF ProgramType
<1>2. D \in [Nat -> Nat] /\ C \in [Nat -> Classes \cup {Nil}] /\ K \in [Nat -> Nat]
  BY DEF History
<1>3. PICK D2 : Adds(D, D2, d, Nat)
  BY <1>1, <1>2, CanAdd
<1>4. PICK C2 : Adds(C, C2, c, Classes \cup {Nil})
  BY <1>1, <1>2, CanAdd
<1>5. PICK K2 : Adds(K, K2, k, Nat)
  BY <1>1, <1>2, CanAdd
<1> QED  BY <1>3, <1>4, <1>5 DEF Grown

LEMMA WriteFollows ==
  ASSUME TypeInv, NEW D, NEW C, NEW K, History(D, C, K), Written(D, C, K), NEW l \in Writable, Write(l)
  PROVE  /\ Follows(l, C[Len(lines)]) /\ Longer(l) /\ BlocksAre(l) /\ LineOK(l) /\ Permitted(l)
         /\ l.op \in {"use", "text", "def", "class", "if", "end"}
         /\ ProgramType /\ Len(lines) \in Nat /\ Len(blocks) \in Nat /\ Len(defs) \in Nat
         /\ (l.op = "def") => Begun(l)
         /\ (l.op # "def" /\ ~(l.op = "end" /\ Last(blocks).op = "def")) => defs' = defs
         /\ (l.op = "end" /\ Last(blocks).op = "def") => \E i : Ended(l, i)
<1>1. ProgramType
  BY DEF TypeInv
<1>2. l \in LineType /\ LineOK(l) /\ Permitted(l)
  BY WritableIs
<1>3. Longer(l) /\ BlocksAre(l)
  BY <1>1, <1>2, LongerIs, BlocksWritten DEF Write
<1>4. \A name : ClassOf(name) = C[Len(lines)]
  BY <1>1, WriterKnows
<1>5. \/ Begun(l) \/ \E i : Ended(l, i)
      \/ /\ l.op # "def" /\ ~(l.op = "end" /\ Last(blocks).op = "def") /\ defs' = defs
  BY <1>1, DefsWritten
<1>6. CASE Begun(l)
  <2>1. l.op = "def" /\ Follows(l, C[Len(lines)])
    BY <1>4, <1>6 DEF Begun, Follows, Same
  <2> QED  BY <1>1, <1>2, <1>3, <1>6, <2>1 DEF LineType, ProgramType
<1>7. CASE \E i : Ended(l, i)
  <2>1. l.op = "end" /\ Last(blocks).op = "def" /\ Follows(l, C[Len(lines)])
    BY <1>7 DEF Ended, Follows, Same
  <2> QED  BY <1>1, <1>2, <1>3, <1>7, <2>1 DEF LineType, ProgramType
<1>8. CASE l.op # "def" /\ ~(l.op = "end" /\ Last(blocks).op = "def") /\ defs' = defs
  <2>1. Follows(l, C[Len(lines)])
    BY <1>8 DEF Follows, Same
  <2> QED  BY <1>1, <1>2, <1>3, <1>8, <2>1 DEF LineType, ProgramType
<1> QED  BY <1>5, <1>6, <1>7, <1>8

LEMMA RecordedGrows ==
  ASSUME TypeInv, NEW D, NEW C, NEW K, Recorded(D, C, K), NEW l \in Writable, Write(l),
         NEW d, NEW c, NEW D2, NEW C2, NEW K2, Grown(d, c, Len(defs'), D, C, K, D2, C2, K2),
         Step(D2, C2, K2, l, Len(lines) + 1), d >= Base(c), Written(D2, C2, K2)',
         "nested" \notin Allowed => Ends(D2, C2, K2)'
  PROVE  Recorded(D2, C2, K2)'
<1>1. History(D, C, K) /\ Written(D, C, K)
  BY DEF Recorded
<1>2. Follows(l, C[Len(lines)]) /\ Longer(l) /\ ProgramType
  BY <1>1, WriteFollows
<1>3. PICK k : k = Len(defs')
  OBVIOUS
<1>4. Adds(D, D2, d, Nat) /\ Adds(C, C2, c, Classes \cup {Nil}) /\ Adds(K, K2, k, Nat)
  BY <1>3 DEF Grown
<1>5. History(D2, C2, K2)'
  BY <1>1, <1>2, <1>3, <1>4, HistoryGrows
<1> QED  BY <1>5 DEF Recorded

(* What is known when line l is written, with N lines and M functions      *)
(* before it, in class c, L blocks being open.                             *)
Writing(l, D, C, K, N, M, L, c) ==
  /\ ProgramType /\ History(D, C, K) /\ Written(D, C, K) /\ ("nested" \notin Allowed => Ends(D, C, K))
  /\ N = Len(lines) /\ M = Len(defs) /\ L = Len(blocks) /\ c = C[N]
  /\ Longer(l) /\ BlocksAre(l) /\ LineOK(l) /\ Permitted(l)
  /\ D[N] = L /\ K[N] = M /\ L >= Base(c) /\ (InDef <=> L > Base(c)) /\ (InClass <=> c # Nil)
  /\ c \in Classes \cup {Nil}

LEMMA WritingIs ==
  ASSUME TypeInv, NEW D, NEW C, NEW K, Recorded(D, C, K), NEW l \in Writable, Write(l)
  PROVE  \E N \in Nat, M \in Nat, L \in Nat : \E c : Writing(l, D, C, K, N, M, L, c)
<1>1. History(D, C, K) /\ Written(D, C, K) /\ ("nested" \notin Allowed => Ends(D, C, K))
  BY DEF Recorded
<1>2. ProgramType /\ Longer(l) /\ BlocksAre(l) /\ LineOK(l) /\ Permitted(l)
      /\ Len(lines) \in Nat /\ Len(blocks) \in Nat /\ Len(defs) \in Nat
  BY <1>1, WriteFollows
<1>3. /\ D[Len(lines)] = Len(blocks) /\ C[Len(lines)] \in Classes \cup {Nil} /\ K[Len(lines)] = Len(defs)
      /\ D[Len(lines)] >= Base(C[Len(lines)])
      /\ In(D, C, Len(lines)) <=> InDef
      /\ InClass <=> C[Len(lines)] # Nil
  BY <1>1, <1>2, WriterKnows
<1>4. PICK N \in Nat, M \in Nat, L \in Nat : N = Len(lines) /\ M = Len(defs) /\ L = Len(blocks)
  BY <1>2
<1>5. Writing(l, D, C, K, N, M, L, C[N])
  BY <1>1, <1>2, <1>3, <1>4 DEF Writing, In
<1> QED  BY <1>5

LEMMA WriteUse ==
  ASSUME TypeInv, NEW D, NEW C, NEW K, Recorded(D, C, K), NEW l \in Writable, Write(l), l.op \in {"use", "text"}
  PROVE  \E D2, C2, K2 : Recorded(D2, C2, K2)'
<1>0. PICK N \in Nat, M \in Nat, L \in Nat : \E c : Writing(l, D, C, K, N, M, L, c)
  BY WritingIs
<1>1. PICK c : Writing(l, D, C, K, N, M, L, c)
  BY <1>0
<1>2. /\ ProgramType /\ History(D, C, K) /\ Written(D, C, K) /\ ("nested" \notin Allowed => Ends(D, C, K))
      /\ N = Len(lines) /\ M = Len(defs) /\ L = Len(blocks) /\ c = C[N]
      /\ Longer(l) /\ BlocksAre(l) /\ LineOK(l) /\ Permitted(l)
      /\ D[N] = L /\ K[N] = M /\ L >= Base(c) /\ (InDef <=> L > Base(c)) /\ (InClass <=> c # Nil)
      /\ c \in Classes \cup {Nil}
  BY <1>1 DEF Writing
<1>3. blocks' = blocks /\ defs' = defs
  <2>1. blocks' = blocks
    BY <1>2 DEF BlocksAre
  <2>2. defs' = defs
    BY <1>2, WriteFollows
  <2> QED  BY <2>1, <2>2
<1>4. PICK D2, C2, K2 : Grown(L, c, M, D, C, K, D2, C2, K2)
  BY <1>2, CanGrow
<1>5. /\ D2[N + 1] = L /\ C2[N + 1] = c /\ K2[N + 1] = M
      /\ D2[N] = L /\ C2[N] = c /\ K2[N] = M /\ (N + 1) - 1 = N
  BY <1>2, <1>4, GrownAt
<1>6. Step(D2, C2, K2, l, N + 1)
  BY <1>2, <1>5 DEF Step, In, Permitted
<1>7. Len(lines') = N + 1
  BY <1>2 DEF Longer
<1>8. Written(D2, C2, K2)'
  <2>1. InClass' <=> InClass
    BY <1>3 DEF InClass
  <2> QED  BY <1>2, <1>3, <1>5, <1>7, <2>1 DEF Written
<1>9. ASSUME "nested" \notin Allowed PROVE Ends(D2, C2, K2)'
  <2>1. Adding(l, M, D, C, K, D2, C2, K2)
    BY <1>2, <1>4 DEF Adding, Grown
  <2>2. In(D2, C2, Len(lines) + 1) <=> In(D, C, Len(lines))
    BY <1>2, <1>5 DEF In
  <2> QED  BY <1>2, <1>3, <1>9, <2>1, <2>2, EndsStay
<1>10. Recorded(D2, C2, K2)'
  BY <1>2, <1>3, <1>4, <1>6, <1>8, <1>9, RecordedGrows
<1> QED  BY <1>10

LEMMA WriteIf ==
  ASSUME TypeInv, NEW D, NEW C, NEW K, Recorded(D, C, K), NEW l \in Writable, Write(l), l.op = "if"
  PROVE  \E D2, C2, K2 : Recorded(D2, C2, K2)'
<1>0. PICK N \in Nat, M \in Nat, L \in Nat : \E c : Writing(l, D, C, K, N, M, L, c)
  BY WritingIs
<1>1. PICK c : Writing(l, D, C, K, N, M, L, c)
  BY <1>0
<1>2. /\ ProgramType /\ History(D, C, K) /\ Written(D, C, K) /\ ("nested" \notin Allowed => Ends(D, C, K))
      /\ N = Len(lines) /\ M = Len(defs) /\ L = Len(blocks) /\ c = C[N]
      /\ Longer(l) /\ BlocksAre(l) /\ LineOK(l) /\ Permitted(l)
      /\ D[N] = L /\ K[N] = M /\ L >= Base(c) /\ (InDef <=> L > Base(c)) /\ (InClass <=> c # Nil)
      /\ c \in Classes \cup {Nil}
  BY <1>1 DEF Writing
<1>3. /\ Len(blocks') = L + 1 /\ blocks'[L + 1].op = "if" /\ \A k \in 1 .. L : blocks'[k] = blocks[k]
      /\ blocks # <<>> /\ blocks' # <<>> /\ L > Base(c)
  <2>1. Len(blocks') = L + 1 /\ blocks'[L + 1] = Block(l) /\ \A k \in 1 .. L : blocks'[k] = blocks[k]
    BY <1>2 DEF BlocksAre, Opens
  <2>2. InDef
    BY <1>2 DEF Permitted
  <2>3. blocks # <<>>
    BY <2>2 DEF InDef
  <2>4. blocks' # <<>>
    BY <2>1
  <2> QED  BY <1>2, <2>1, <2>2, <2>3, <2>4 DEF Block
<1>4. defs' = defs
  BY <1>2, WriteFollows
<1>5. PICK D2, C2, K2 : Grown(L + 1, c, M, D, C, K, D2, C2, K2)
  <2>1. L + 1 \in Nat
    OBVIOUS
  <2> QED  BY <1>2, <2>1, CanGrow
<1>6. /\ D2[N + 1] = L + 1 /\ C2[N + 1] = c /\ K2[N + 1] = M
      /\ D2[N] = L /\ C2[N] = c /\ K2[N] = M /\ (N + 1) - 1 = N
  BY <1>2, <1>5, GrownAt
<1>7. PICK b \in 0 .. 1 : b = Base(c)
  BY DEF Base
<1>8. Step(D2, C2, K2, l, N + 1)
  BY <1>2, <1>3, <1>6 DEF Step, In
<1>9. Len(lines') = N + 1
  BY <1>2 DEF Longer
<1>10. Written(D2, C2, K2)'
  <2>1. 1 \in 1 .. L
    BY <1>3, <1>7
  <2>2. InClass' <=> InClass
    BY <1>3, <2>1 DEF InClass
  <2>3. /\ InClass => blocks[1].name = c
        /\ blocks[b + 1].op = "def"
        /\ \A k \in b + 2 .. L : blocks[k].op = "if" \/ (blocks[k].op = "def" /\ "nested" \in Allowed)
        /\ "nested" \notin Allowed => M > 0 /\ blocks[b + 1].line = defs[M].from /\ defs[M].to = 0
    BY <1>2, <1>3, <1>7 DEF Written
  <2>4. b + 1 \in 1 .. L
    BY <1>3, <1>7
  <2>5. \A k \in b + 2 .. L + 1 : (k \in b + 2 .. L /\ k \in 1 .. L) \/ k = L + 1
    BY <1>7
  <2>6. \A k \in b + 2 .. L + 1 : blocks'[k].op = "if" \/ (blocks'[k].op = "def" /\ "nested" \in Allowed)
    BY <1>3, <2>3, <2>5
  <2> QED  BY <1>2, <1>3, <1>4, <1>6, <1>7, <1>9, <2>1, <2>2, <2>3, <2>4, <2>6 DEF Written
<1>11. ASSUME "nested" \notin Allowed PROVE Ends(D2, C2, K2)'
  <2>1. Adding(l, M, D, C, K, D2, C2, K2)
    BY <1>2, <1>5 DEF Adding, Grown
  <2>2. In(D2, C2, Len(lines) + 1) <=> In(D, C, Len(lines))
    BY <1>2, <1>3, <1>6, <1>7 DEF In
  <2> QED  BY <1>2, <1>4, <1>11, <2>1, <2>2, EndsStay
<1>12. L + 1 >= Base(c)
  BY <1>2, <1>7
<1>13. Recorded(D2, C2, K2)'
  BY <1>2, <1>4, <1>5, <1>8, <1>10, <1>11, <1>12, RecordedGrows
<1> QED  BY <1>13

LEMMA WriteClass ==
  ASSUME TypeInv, NEW D, NEW C, NEW K, Recorded(D, C, K), NEW l \in Writable, Write(l), l.op = "class"
  PROVE  \E D2, C2, K2 : Recorded(D2, C2, K2)'
<1>0. PICK N \in Nat, M \in Nat, L \in Nat : \E c : Writing(l, D, C, K, N, M, L, c)
  BY WritingIs
<1>1. PICK c : Writing(l, D, C, K, N, M, L, c)
  BY <1>0
<1>2. /\ ProgramType /\ History(D, C, K) /\ Written(D, C, K) /\ ("nested" \notin Allowed => Ends(D, C, K))
      /\ N = Len(lines) /\ M = Len(defs) /\ L = Len(blocks) /\ c = C[N]
      /\ Longer(l) /\ BlocksAre(l) /\ LineOK(l) /\ Permitted(l)
      /\ D[N] = L /\ K[N] = M /\ L >= Base(c) /\ (InDef <=> L > Base(c)) /\ (InClass <=> c # Nil)
      /\ c \in Classes \cup {Nil}
  BY <1>1 DEF Writing
<1>3. /\ L = 0 /\ c = Nil /\ Base(c) = 0 /\ l.name \in Classes /\ Base(l.name) = 1
  <2>1. l.name \in Classes /\ ~InDef /\ ~InClass
    BY <1>2 DEF LineOK, Permitted
  <2> QED  BY <1>2, <2>1, InterpreterAssumption DEF Base
<1>4. Len(blocks') = 1 /\ blocks'[1].op = "class" /\ blocks'[1].name = l.name /\ blocks' # <<>>
  <2>1. Len(blocks') = L + 1 /\ blocks'[L + 1] = Block(l)
    BY <1>2 DEF BlocksAre, Opens
  <2>2. Len(blocks') = 1 /\ blocks'[1] = Block(l)
    BY <1>3, <2>1
  <2>3. blocks' # <<>>
    BY <2>2
  <2> QED  BY <2>2, <2>3 DEF Block
<1>5. defs' = defs
  BY <1>2, WriteFollows
<1>6. PICK D2, C2, K2 : Grown(1, l.name, M, D, C, K, D2, C2, K2)
  <2>1. 1 \in Nat /\ l.name \in Classes \cup {Nil}
    BY <1>3
  <2> QED  BY <1>2, <2>1, CanGrow
<1>7. /\ D2[N + 1] = 1 /\ C2[N + 1] = l.name /\ K2[N + 1] = M
      /\ D2[N] = L /\ C2[N] = c /\ K2[N] = M /\ (N + 1) - 1 = N
  BY <1>2, <1>6, GrownAt
<1>8. Step(D2, C2, K2, l, N + 1)
  BY <1>3, <1>7 DEF Step
<1>9. Len(lines') = N + 1
  BY <1>2 DEF Longer
<1>10. Written(D2, C2, K2)'
  <2>1. InClass' /\ l.name # Nil
    BY <1>3, <1>4, InterpreterAssumption DEF InClass
  <2>2. Base(C2[Len(lines')]) = 1 /\ C2[Len(lines')] = l.name /\ D2[Len(lines')] = 1
    BY <1>3, <1>7, <1>9
  <2>3. \A k \in 3 .. 1 : FALSE
    OBVIOUS
  <2> QED  BY <1>4, <2>1, <2>2, <2>3 DEF Written
<1>11. ASSUME "nested" \notin Allowed PROVE Ends(D2, C2, K2)'
  <2>1. Adding(l, M, D, C, K, D2, C2, K2)
    BY <1>2, <1>6 DEF Adding, Grown
  <2>2. In(D2, C2, Len(lines) + 1) <=> In(D, C, Len(lines))
    BY <1>2, <1>3, <1>7 DEF In
  <2> QED  BY <1>2, <1>5, <1>11, <2>1, <2>2, EndsStay
<1>12. 1 >= Base(l.name)
  BY <1>3
<1>13. Recorded(D2, C2, K2)'
  BY <1>2, <1>5, <1>6, <1>8, <1>10, <1>11, <1>12, RecordedGrows
<1> QED  BY <1>13

LEMMA WriteDef ==
  ASSUME TypeInv, NEW D, NEW C, NEW K, Recorded(D, C, K), NEW l \in Writable, Write(l), l.op = "def"
  PROVE  \E D2, C2, K2 : Recorded(D2, C2, K2)'
<1>0. PICK N \in Nat, M \in Nat, L \in Nat : \E c : Writing(l, D, C, K, N, M, L, c)
  BY WritingIs
<1>1. PICK c : Writing(l, D, C, K, N, M, L, c)
  BY <1>0
<1>2. /\ ProgramType /\ History(D, C, K) /\ Written(D, C, K) /\ ("nested" \notin Allowed => Ends(D, C, K))
      /\ N = Len(lines) /\ M = Len(defs) /\ L = Len(blocks) /\ c = C[N]
      /\ Longer(l) /\ BlocksAre(l) /\ LineOK(l) /\ Permitted(l)
      /\ D[N] = L /\ K[N] = M /\ L >= Base(c) /\ (InDef <=> L > Base(c)) /\ (InClass <=> c # Nil)
      /\ c \in Classes \cup {Nil}
  BY <1>1 DEF Writing
<1>3. PICK b \in 0 .. 1 : b = Base(c)
  BY DEF Base
<1>4. L > b => "nested" \in Allowed
  BY <1>2, <1>3 DEF Permitted
<1>5. Begun(l) /\ Len(defs') = M + 1
  <2>1. Begun(l)
    BY <1>2, WriteFollows
  <2> QED  BY <1>2, <2>1 DEF Begun
<1>6. /\ Len(blocks') = L + 1 /\ \A k \in 1 .. L : blocks'[k] = blocks[k]
      /\ blocks'[L + 1].op = "def" /\ blocks'[L + 1].line = N + 1 /\ blocks' # <<>>
  <2>1. Len(blocks') = L + 1 /\ blocks'[L + 1] = Block(l) /\ \A k \in 1 .. L : blocks'[k] = blocks[k]
    BY <1>2 DEF BlocksAre, Opens
  <2>2. blocks' # <<>>
    BY <2>1
  <2> QED  BY <1>2, <2>1, <2>2 DEF Block
<1>7. PICK D2, C2, K2 : Grown(L + 1, c, M + 1, D, C, K, D2, C2, K2)
  <2>1. L + 1 \in Nat /\ M + 1 \in Nat
    OBVIOUS
  <2> QED  BY <1>2, <2>1, CanGrow
<1>8. /\ D2[N + 1] = L + 1 /\ C2[N + 1] = c /\ K2[N + 1] = M + 1
      /\ D2[N] = L /\ C2[N] = c /\ K2[N] = M /\ (N + 1) - 1 = N
  BY <1>2, <1>7, GrownAt
<1>9. Step(D2, C2, K2, l, N + 1)
  BY <1>2, <1>3, <1>4, <1>8 DEF Step, In, Permitted
<1>10. Len(lines') = N + 1
  BY <1>2 DEF Longer
<1>11. Written(D2, C2, K2)'
  <2>1. InClass' <=> InClass
    <3>1. CASE L = 0
      <4>1. blocks \in Seq(BlockType) /\ Len(blocks) = 0
        BY <1>2, <3>1 DEF ProgramType
      <4>2. blocks = <<>>
        BY <4>1, EmptySeq
      <4>3. blocks'[1].op = "def"
        BY <1>6, <3>1
      <4> QED  BY <4>2, <4>3 DEF InClass
    <3>2. CASE L # 0
      <4>1. 1 \in 1 .. L /\ blocks # <<>>
        BY <1>2, <3>2
      <4> QED  BY <1>6, <4>1 DEF InClass
    <3> QED  BY <3>1, <3>2
  <2>2. InClass => blocks'[1].name = c
    <3>1. InClass => 1 \in 1 .. L
      BY <1>2, EmptySeq DEF InClass, ProgramType
    <3> QED  BY <1>2, <1>6, <3>1 DEF Written
  <2>3. blocks'[b + 1].op = "def" /\ (L = b => blocks'[b + 1].line = N + 1)
    <3>1. L = b \/ b + 1 \in 1 .. L
      BY <1>2, <1>3
    <3>2. L > b => blocks[b + 1].op = "def"
      BY <1>2, <1>3 DEF Written
    <3> QED  BY <1>3, <1>6, <3>1, <3>2
  <2>4. ASSUME NEW k \in b + 2 .. L + 1
        PROVE  blocks'[k].op = "if" \/ (blocks'[k].op = "def" /\ "nested" \in Allowed)
    <3>1. CASE k = L + 1
      BY <1>4, <1>6, <3>1
    <3>2. CASE k # L + 1
      <4>1. k \in b + 2 .. L /\ k \in 1 .. L
        BY <3>2
      <4>2. \A i \in b + 2 .. L : blocks[i].op = "if" \/ (blocks[i].op = "def" /\ "nested" \in Allowed)
        BY <1>2, <1>3 DEF Written
      <4> QED  BY <1>6, <4>1, <4>2
    <3> QED  BY <3>1, <3>2
  <2>5. defs'[M + 1].from = N + 1 /\ defs'[M + 1].to = 0
    BY <1>2, <1>5 DEF Begun
  <2>6. "nested" \notin Allowed => L = b
    BY <1>2, <1>3, <1>4
  <2>7. Base(C2[Len(lines')]) = b /\ C2[Len(lines')] = c /\ D2[Len(lines')] = L + 1 /\ M + 1 > 0
    BY <1>3, <1>8, <1>10
  <2> QED  BY <1>2, <1>5, <1>6, <2>1, <2>2, <2>3, <2>4, <2>5, <2>6, <2>7 DEF Written
<1>12. ASSUME "nested" \notin Allowed PROVE Ends(D2, C2, K2)'
  <2>1. Adding(l, M + 1, D, C, K, D2, C2, K2)
    BY <1>2, <1>7 DEF Adding, Grown
  <2>2. In(D2, C2, Len(lines) + 1) /\ ~In(D, C, Len(lines))
    BY <1>2, <1>3, <1>4, <1>8, <1>12 DEF In
  <2>3. M + 1 = Len(defs) + 1
    BY <1>2
  <2> QED  BY <1>2, <1>5, <1>12, <2>1, <2>2, <2>3, EndsBegin
<1>13. L + 1 >= Base(c)
  BY <1>2, <1>3
<1>14. Recorded(D2, C2, K2)'
  BY <1>2, <1>5, <1>7, <1>9, <1>11, <1>12, <1>13, RecordedGrows
<1> QED  BY <1>14

LEMMA WriteEnd ==
  ASSUME TypeInv, NEW D, NEW C, NEW K, Recorded(D, C, K), NEW l \in Writable, Write(l), l.op = "end"
  PROVE  \E D2, C2, K2 : Recorded(D2, C2, K2)'
<1>0. PICK N \in Nat, M \in Nat, L \in Nat : \E c : Writing(l, D, C, K, N, M, L, c)
  BY WritingIs
<1>1. PICK c : Writing(l, D, C, K, N, M, L, c)
  BY <1>0
<1>2. /\ ProgramType /\ History(D, C, K) /\ Written(D, C, K) /\ ("nested" \notin Allowed => Ends(D, C, K))
      /\ N = Len(lines) /\ M = Len(defs) /\ L = Len(blocks) /\ c = C[N]
      /\ Longer(l) /\ BlocksAre(l) /\ LineOK(l) /\ Permitted(l)
      /\ D[N] = L /\ K[N] = M /\ L >= Base(c) /\ (InDef <=> L > Base(c)) /\ (InClass <=> c # Nil)
      /\ c \in Classes \cup {Nil}
  BY <1>1 DEF Writing
<1>3. PICK b \in 0 .. 1 : b = Base(c) /\ (b = 1 <=> c # Nil)
  BY DEF Base
<1>4. /\ L > 0 /\ blocks # <<>> /\ Last(blocks) = blocks[L] /\ Len(blocks') = L - 1
      /\ \A k \in 1 .. L - 1 : blocks'[k] = blocks[k]
  <2>1. InDef \/ InClass
    BY <1>2 DEF Permitted
  <2>2. blocks # <<>>
    BY <2>1 DEF InDef, InClass
  <2>3. blocks \in Seq(BlockType)
    BY <1>2 DEF ProgramType
  <2>4. Len(blocks) \in Nat \ {0} /\ Last(blocks) = blocks[Len(blocks)]
    BY <2>2, <2>3, FrontOf
  <2>5. Len(blocks') = L - 1 /\ \A k \in 1 .. L - 1 : blocks'[k] = blocks[k]
    BY <1>2 DEF BlocksAre
  <2> QED  BY <1>2, <2>2, <2>4, <2>5
<1>5. /\ L > b => blocks[b + 1].op = "def"
      /\ \A k \in b + 2 .. L : blocks[k].op = "if" \/ (blocks[k].op = "def" /\ "nested" \in Allowed)
      /\ "nested" \notin Allowed /\ L > b => M > 0 /\ blocks[b + 1].line = defs[M].from /\ defs[M].to = 0
      /\ InClass => blocks[1].name = c
  BY <1>2, <1>3 DEF Written
<1>6. b = 1 => blocks[1].op = "class"
  BY <1>2, <1>3 DEF InClass
<1>7. PICK m \in Nat : m = L - 1
  BY <1>4
<1>8. PICK c2 \in Classes \cup {Nil} : c2 = (IF m = 0 THEN Nil ELSE c)
  BY <1>2
<1>9. /\ m >= Base(c2) /\ Base(c2) = (IF m = 0 THEN 0 ELSE b)
  BY <1>3, <1>8 DEF Base
<1>10. PICK M2 : M2 = Len(defs') /\ M2 = M
  <2>1. Follows(l, C[Len(lines)])
    BY <1>2, WriteFollows
  <2> QED  BY <1>2, <2>1 DEF Follows
<1>11. PICK D2, C2, K2 : Grown(m, c2, M, D, C, K, D2, C2, K2)
  BY <1>2, CanGrow
<1>12. /\ D2[N + 1] = m /\ C2[N + 1] = c2 /\ K2[N + 1] = M
       /\ D2[N] = L /\ C2[N] = c /\ K2[N] = M /\ (N + 1) - 1 = N
  BY <1>2, <1>11, GrownAt
<1>13. Step(D2, C2, K2, l, N + 1)
  BY <1>4, <1>7, <1>8, <1>12 DEF Step
<1>14. Len(lines') = N + 1
  BY <1>2 DEF Longer
<1>15. In(D, C, N) <=> L > b
  BY <1>2, <1>3 DEF In
<1>16. In(D2, C2, N + 1) <=> L > b + 1
  BY <1>3, <1>7, <1>9, <1>12 DEF In
<1>17. "nested" \notin Allowed /\ L > b => (Last(blocks).op = "def" <=> L = b + 1)
  <2>1. ASSUME "nested" \notin Allowed, L > b, L # b + 1
        PROVE  Last(blocks).op = "if"
    <3>1. L \in b + 2 .. L
      BY <2>1
    <3> QED  BY <1>4, <1>5, <2>1, <3>1
  <2>2. L > b /\ L = b + 1 => Last(blocks).op = "def"
    BY <1>4, <1>5
  <2> QED  BY <2>1, <2>2
<1>18. L <= b => Last(blocks).op = "class" /\ L = 1 /\ b = 1
  BY <1>4, <1>6
<1>19. Written(D2, C2, K2)'
  <2>1. C2[Len(lines')] = c2 /\ D2[Len(lines')] = m /\ Len(blocks') = m
    BY <1>4, <1>7, <1>12, <1>14
  <2>2. CASE m = 0
    <3>1. blocks' = <<>>
      <4>1. blocks' \in Seq(BlockType)
        BY <1>2, BlocksWritten
      <4> QED  BY <2>1, <2>2, <4>1, EmptySeq
    <3>2. ~InClass' /\ c2 = Nil
      BY <1>8, <2>2, <3>1 DEF InClass
    <3>3. Base(c2) = 0 /\ \A k \in 0 + 2 .. 0 : FALSE
      BY <1>9, <2>2
    <3> QED  BY <2>1, <2>2, <3>2, <3>3 DEF Written
  <2>3. CASE m # 0
    <3>1. 1 \in 1 .. L - 1 /\ blocks' # <<>>
      BY <1>7, <2>1, <2>3
    <3>2. blocks'[1] = blocks[1] /\ (InClass' <=> InClass)
      BY <1>4, <3>1 DEF InClass
    <3>3. Base(c2) = b /\ c2 = c
      BY <1>8, <1>9, <2>3
    <3>4. m > b => b + 1 \in 1 .. L - 1 /\ L > b
      BY <1>7
    <3>5. m > b => blocks'[b + 1] = blocks[b + 1] /\ blocks'[b + 1].op = "def"
      BY <1>4, <1>5, <3>4
    <3>6. \A k \in b + 2 .. m : k \in b + 2 .. L /\ k \in 1 .. L - 1
      BY <1>7
    <3>7. \A k \in b + 2 .. m : blocks'[k].op = "if" \/ (blocks'[k].op = "def" /\ "nested" \in Allowed)
      BY <1>4, <1>5, <3>6
    <3>8. ASSUME "nested" \notin Allowed, m > b
          PROVE  M > 0 /\ blocks'[b + 1].line = defs[M].from /\ defs[M].to = 0 /\ defs' = defs
      <4>1. Last(blocks).op # "def"
        BY <1>7, <1>17, <3>8
      <4>2. defs' = defs
        BY <1>2, <4>1, WriteFollows
      <4> QED  BY <1>5, <3>4, <3>5, <3>8, <4>2
    <3> QED  BY <1>2, <1>5, <1>10, <2>1, <3>2, <3>3, <3>5, <3>7, <3>8 DEF Written
  <2> QED  BY <2>2, <2>3
<1>20. ASSUME "nested" \notin Allowed PROVE Ends(D2, C2, K2)'
  <2>1. Adding(l, M, D, C, K, D2, C2, K2)
    BY <1>2, <1>11 DEF Adding, Grown
  <2>2. CASE Last(blocks).op = "def"
    <3>1. L = b + 1 /\ L > b
      BY <1>17, <1>18, <1>20, <2>2
    <3>2. PICK i : Ended(l, i)
      BY <1>2, <2>2, WriteFollows
    <3>3. M > 0 /\ Last(blocks).line = defs[M].from /\ defs[M].to = 0
      BY <1>4, <1>5, <1>20, <3>1
    <3>4. i = M
      <4>1. DOMAIN defs = 1 .. M /\ M \in 1 .. M
        BY <1>2, <3>3 DEF ProgramType
      <4>2. i = CHOOSE j \in 1 .. M : defs[j].from = defs[M].from
        BY <3>2, <3>3, <4>1 DEF Ended, Ending
      <4>3. i \in 1 .. M /\ defs[i].from = defs[M].from
        BY <4>1, <4>2
      <4>4. \A j \in 1 .. M : K[defs[j].from] = j
        BY <1>2 DEF History
      <4> QED  BY <4>1, <4>3, <4>4
    <3>5. In(D, C, Len(lines)) /\ K[Len(lines)] = M /\ ~In(D2, C2, Len(lines) + 1)
      BY <1>2, <1>15, <1>16, <3>1
    <3> QED  BY <1>2, <1>20, <2>1, <3>2, <3>3, <3>4, <3>5, EndsEnd
  <2>3. CASE Last(blocks).op # "def"
    <3>1. defs' = defs
      BY <1>2, <2>3, WriteFollows
    <3>2. In(D2, C2, N + 1) <=> In(D, C, N)
      BY <1>5, <1>15, <1>16, <1>17, <1>20, <2>3
    <3> QED  BY <1>2, <1>20, <2>1, <3>1, <3>2, EndsStay
  <2> QED  BY <2>2, <2>3
<1>21. Grown(m, c2, Len(defs'), D, C, K, D2, C2, K2)
  BY <1>10, <1>11
<1>22. Recorded(D2, C2, K2)'
  BY <1>2, <1>9, <1>13, <1>19, <1>20, <1>21, RecordedGrows
<1> QED  BY <1>22

LEMMA WriteRecorded ==
  ASSUME TypeInv, NEW D, NEW C, NEW K, Recorded(D, C, K), NEW l \in Writable, Write(l)
  PROVE  \E D2, C2, K2 : Recorded(D2, C2, K2)'
<1>1. l.op \in {"use", "text", "def", "class", "if", "end"}
  BY WritableIs DEF LineType
<1>2. CASE l.op \in {"use", "text"}
  BY <1>2, WriteUse
<1>3. CASE l.op = "if"
  BY <1>3, WriteIf
<1>4. CASE l.op = "class"
  BY <1>4, WriteClass
<1>5. CASE l.op = "def"
  BY <1>5, WriteDef
<1>6. CASE l.op = "end"
  BY <1>6, WriteEnd
<1> QED  BY <1>1, <1>2, <1>3, <1>4, <1>5, <1>6

LEMMA RecordedInit == Init => \E D, C, K : Recorded(D, C, K)
<1> SUFFICES ASSUME Init
             PROVE  \E D, C, K : Recorded(D, C, K)
  OBVIOUS
<1>1. Len(lines) = 0 /\ Len(defs) = 0 /\ Len(blocks) = 0 /\ blocks = <<>>
  BY EmptyTables DEF Init
<1>2. PICK D, C : D = [n \in Nat |-> 0] /\ C = [n \in Nat |-> Nil]
  OBVIOUS
<1>3. D \in [Nat -> Nat] /\ C \in [Nat -> Classes \cup {Nil}] /\ D[0] = 0 /\ C[0] = Nil
  BY <1>2
<1>4. ~In(D, C, 0) /\ Base(C[0]) = 0
  BY <1>3 DEF In, Base
<1>5. (\A n \in 0 .. 0 : n = 0) /\ (\A n \in 1 .. 0 : FALSE) /\ (\A n \in 0 + 2 .. 0 : FALSE)
  OBVIOUS
<1>6. History(D, C, D)
  BY <1>1, <1>3, <1>4, <1>5 DEF History
<1>7. Written(D, C, D)
  BY <1>1, <1>3, <1>4, <1>5 DEF Written, InClass
<1>8. Ends(D, C, D)
  BY <1>1, <1>5 DEF Ends
<1> QED  BY <1>6, <1>7, <1>8 DEF Recorded

LEMMA RecordedStays ==
  ASSUME NEW D, NEW C, NEW K, Recorded(D, C, K), UNCHANGED Program
  PROVE  Recorded(D, C, K)'
<1>1. UNCHANGED <<lines, blocks, defs>>
  BY DEF Program
<1>2. History(D, C, K)'
  BY <1>1 DEF Recorded, History, Begins
<1>3. Written(D, C, K)'
  BY <1>1 DEF Recorded, Written, InClass
<1>4. ASSUME "nested" \notin Allowed PROVE Ends(D, C, K)'
  <2>1. \A i, n : Inside(i, n)' <=> Inside(i, n)
    BY <1>1 DEF Inside
  <2>2. Ends(D, C, K)
    BY <1>4 DEF Recorded
  <2> QED  BY <1>1, <2>1, <2>2 DEF Ends
<1> QED  BY <1>2, <1>3, <1>4 DEF Recorded

(***************************************************************************)
(* What the first pass has collected when it is at line p, if it has       *)
(* reported no error.                                                      *)
(***************************************************************************)
Begun_before(p) == {i \in 1 .. Len(defs) : defs[i].from < p}

Distinct(p) ==
  \A i, j \in Begun_before(p) : i # j => defs[i].name # defs[j].name \/ defs[i].class # defs[j].class

PackagesAre(p) ==
  /\ \A i \in Begun_before(p) : defs[i].class = Nil =>
       defs[i].name \in DOMAIN packages /\ packages[defs[i].name] = Entry("function", defs[i].arguments)
  /\ \A n \in 1 .. p - 1 : lines[n].op = "class" =>
       lines[n].name \in DOMAIN packages /\ packages[lines[n].name] = Entry("class", 0)
  /\ \A x \in DOMAIN packages : \/ \E i \in Begun_before(p) : defs[i].class = Nil /\ defs[i].name = x
                                \/ \E n \in 1 .. p - 1 : lines[n].op = "class" /\ lines[n].name = x

MethodsAre(p) ==
  /\ \A i \in Begun_before(p) : defs[i].class # Nil => defs[i].name \in DOMAIN lookup[defs[i].class]
  /\ \A c \in Classes : \A x \in DOMAIN lookup[c] :
       lookup[c][x].type = "function" /\ \E i \in Begun_before(p) : defs[i].class = c /\ defs[i].name = x

(* The global methods hide those of the class. *)
MethodsHidden ==
  \A c \in Classes : \A x :
    (x \in DOMAIN lookup[c] /\ lookup[c][x].type # "external")
      <=> (x \notin GlobalMethods /\ \E i \in 1 .. Len(defs) : defs[i].class = c /\ defs[i].name = x)

OneSlot(s) == \A i, j \in 1 .. Len(s) : s[i] = s[j] => i = j

AttributesAre(C, p) ==
  /\ \A n \in 1 .. p - 1 : lines[n].op = "use" /\ ~lines[n].dot /\ lines[n].name \in Attributes /\ C[n] # Nil =>
       lines[n].name \in ToSet(attributes[C[n]])
  /\ \A c \in Classes : OneSlot(attributes[c])

Collected(D, C) ==
  errors = {} =>
    /\ stage = "lookups" => /\ scope = D[pos - 1] /\ current_class = C[pos - 1]
                            /\ Distinct(pos) /\ PackagesAre(pos) /\ MethodsAre(pos) /\ AttributesAre(C, pos)
    /\ stage \in {"logic", "done"} => LET p == Len(lines) + 1 IN
                            Distinct(p) /\ PackagesAre(p) /\ MethodsHidden /\ AttributesAre(C, p)

(* The functions that have begun when a pass goes on to the next line.     *)
LEMMA BegunNext ==
  ASSUME TypeInv, NEW D, NEW C, NEW K, History(D, C, K), pos <= Len(lines)
  PROVE  /\ At.op # "def" => Begun_before(pos + 1) = Begun_before(pos)
         /\ At.op = "def" => /\ Begun_before(pos + 1) = Begun_before(pos) \cup {K[pos]}
                             /\ K[pos] \in 1 .. Len(defs) /\ K[pos] \notin Begun_before(pos)
                             /\ defs[K[pos]].name = At.name /\ defs[K[pos]].class = C[pos - 1]
                             /\ defs[K[pos]].arguments = Len(At.args) /\ defs[K[pos]].from = pos
<1>1. pos \in 1 .. Len(lines) /\ Len(lines) \in Nat
  BY AtIs
<1>2. PICK p \in Nat : p = pos
  BY <1>1
<1>3. \A i \in 1 .. Len(defs) : defs[i].from \in Nat
  <2>1. \A i \in 1 .. Len(defs) : defs[i] \in DefType
    BY DEF TypeInv, ProgramType
  <2> QED  BY <2>1 DEF DefType
<1>4. \A i \in 1 .. Len(defs) : defs[i].from = p => At.op = "def" /\ K[p] = i
  BY <1>2 DEF History, At
<1>5. \A i \in 1 .. Len(defs) : defs[i].from < p + 1 <=> defs[i].from < p \/ defs[i].from = p
  BY <1>3
<1>6. ASSUME At.op # "def" PROVE Begun_before(pos + 1) = Begun_before(pos)
  BY <1>2, <1>4, <1>5, <1>6 DEF Begun_before
<1>7. ASSUME At.op = "def"
      PROVE  /\ Begun_before(pos + 1) = Begun_before(pos) \cup {K[pos]}
             /\ K[pos] \in 1 .. Len(defs) /\ K[pos] \notin Begun_before(pos)
             /\ defs[K[pos]].name = At.name /\ defs[K[pos]].class = C[pos - 1]
             /\ defs[K[pos]].arguments = Len(At.args) /\ defs[K[pos]].from = pos
  <2>1. Begins(C, K, p)
    BY <1>1, <1>2, <1>7 DEF History, At
  <2>2. /\ K[p] \in 1 .. Len(defs) /\ defs[K[p]].name = At.name /\ defs[K[p]].class = C[p - 1]
        /\ defs[K[p]].arguments = Len(At.args) /\ defs[K[p]].from = p
    BY <1>2, <2>1 DEF Begins, At
  <2>3. K[p] \notin Begun_before(p)
    BY <2>2 DEF Begun_before
  <2>4. Begun_before(p + 1) = Begun_before(p) \cup {K[p]}
    BY <1>4, <1>5, <2>2 DEF Begun_before
  <2> QED  BY <1>2, <2>2, <2>3, <2>4
<1> QED  BY <1>6, <1>7

(* A step of a history. *)
LEMMA StepAt ==
  ASSUME TypeInv, NEW D, NEW C, NEW K, History(D, C, K), pos <= Len(lines)
  PROVE  /\ Step(D, C, K, At, pos) /\ D[pos - 1] \in Nat /\ D[pos] \in Nat /\ K[pos - 1] \in Nat
         /\ C[pos - 1] \in Classes \cup {Nil} /\ D[pos - 1] >= Base(C[pos - 1]) /\ D[pos] >= Base(C[pos])
<1>1. pos \in 1 .. Len(lines) /\ pos - 1 \in 0 .. Len(lines) /\ pos \in 0 .. Len(lines) /\ Len(lines) \in Nat
  BY AtIs
<1>2. pos \in Nat /\ pos - 1 \in Nat
  BY <1>1
<1> QED  BY <1>1, <1>2 DEF History, At

(* A pass goes on, and a table stays as it is.                             *)
LEMMA CollectedStays ==
  ASSUME TypeInv, NEW D, NEW C, NEW K, History(D, C, K), pos <= Len(lines), UNCHANGED Program,
         NEW p, p = pos
  PROVE  /\ At.op # "def" /\ Distinct(p) => Distinct(p + 1)'
         /\ At.op \notin {"def", "class"} /\ packages' = packages /\ PackagesAre(p) => PackagesAre(p + 1)'
         /\ At.op # "def" /\ lookup' = lookup /\ MethodsAre(p) => MethodsAre(p + 1)'
         /\ At.op # "use" /\ attributes' = attributes /\ AttributesAre(C, p) => AttributesAre(C, p + 1)'
<1>1. lines' = lines /\ defs' = defs
  BY DEF Program
<1>2. pos \in 1 .. Len(lines) /\ Len(lines) \in Nat
  BY AtIs
<1>3. p \in Nat /\ p = pos /\ p > 0
  BY <1>2
<1>4. \A n : n \in 1 .. (p + 1) - 1 <=> n \in 1 .. p - 1 \/ n = p
  BY <1>3
<1>5. \A q : Begun_before(q)' = Begun_before(q)
  BY <1>1 DEF Begun_before
<1>6. At.op # "def" => Begun_before(p + 1) = Begun_before(p)
  BY <1>3, BegunNext
<1>7. lines[p] = At
  BY <1>3 DEF At
<1>8. At.op # "def" /\ Distinct(p) => Distinct(p + 1)'
  BY <1>1, <1>5, <1>6 DEF Distinct
<1>9. ASSUME At.op \notin {"def", "class"}, packages' = packages, PackagesAre(p)
      PROVE  PackagesAre(p + 1)'
  BY <1>1, <1>4, <1>5, <1>6, <1>7, <1>9 DEF PackagesAre
<1>10. ASSUME At.op # "def", lookup' = lookup, MethodsAre(p)
       PROVE  MethodsAre(p + 1)'
  BY <1>1, <1>5, <1>6, <1>10 DEF MethodsAre
<1>11. ASSUME At.op # "use", attributes' = attributes, AttributesAre(C, p)
       PROVE  AttributesAre(C, p + 1)'
  BY <1>1, <1>4, <1>7, <1>11 DEF AttributesAre
<1> QED  BY <1>8, <1>9, <1>10, <1>11

(* The tables at a def that is the first of its name. *)
LEMMA DefCollected ==
  ASSUME TypeInv, NEW D, NEW C, NEW K, History(D, C, K), Collected(D, C), Process_Lookups, LookupDef, errors' = {},
         NEW p, p = pos
  PROVE  /\ scope' = D[p] /\ current_class' = C[p] /\ Distinct(p + 1)' /\ PackagesAre(p + 1)'
         /\ MethodsAre(p + 1)' /\ AttributesAre(C, p + 1)'
<1>1. /\ stage = "lookups" /\ pos <= Len(lines) /\ UNCHANGED Program /\ lines' = lines /\ defs' = defs /\ At.op = "def"
  BY DEF Process_Lookups, LookupDef, Program
<1>2. p \in Nat /\ p = pos /\ p > 0
  BY <1>1, AtIs
<1>3. errors = {} /\ ~Misplaced /\ ~Duplicate
  BY DEF LookupDef
<1>4. /\ scope = D[p - 1] /\ current_class = C[p - 1]
      /\ Distinct(p) /\ PackagesAre(p) /\ MethodsAre(p) /\ AttributesAre(C, p)
  BY <1>1, <1>2, <1>3 DEF Collected
<1>5. PICK i0, B : i0 = K[p] /\ B = Begun_before(p)
  OBVIOUS
<1>6. /\ Begun_before(p + 1) = B \cup {i0}
      /\ i0 \in 1 .. Len(defs) /\ i0 \notin B
      /\ defs[i0].name = At.name /\ defs[i0].class = C[p - 1]
      /\ defs[i0].arguments = Len(At.args) /\ defs[i0].from = p
  BY <1>1, <1>2, <1>5, BegunNext
<1>7. Begun_before(p + 1)' = B \cup {i0}
  BY <1>1, <1>6 DEF Begun_before
<1>8. Step(D, C, K, At, p)
  BY <1>1, <1>2, StepAt
<1>9. scope' = D[p] /\ current_class' = C[p]
  BY <1>1, <1>3, <1>4, <1>8 DEF LookupDef, Step
<1>10. PICK e \in EntryType : e = Entry("function", Len(At.args)) /\ e.type = "function"
  BY <1>1, AtIs, EntryIs
<1>11. PICK c \in Classes \cup {Nil} : c = current_class
  BY DEF TypeInv, PassType
<1>12. /\ c = Nil => At.name \notin DOMAIN packages /\ packages' = With(packages, At.name, e) /\ lookup' = lookup
       /\ c # Nil => /\ At.name \notin DOMAIN lookup[c] /\ packages' = packages
                     /\ lookup' = [lookup EXCEPT ![c] = With(lookup[c], At.name, e)]
  BY <1>3, <1>10, <1>11 DEF LookupDef, Duplicate
<1>13. Distinct(p + 1)'
  <2>1. ASSUME NEW i \in B
        PROVE  defs[i].name # At.name \/ defs[i].class # c
    <3>1. c = Nil /\ defs[i].class = Nil => defs[i].name \in DOMAIN packages
      BY <1>4, <1>5 DEF PackagesAre
    <3>2. c # Nil /\ defs[i].class = c => defs[i].name \in DOMAIN lookup[c]
      BY <1>4, <1>5 DEF MethodsAre
    <3> QED  BY <1>12, <3>1, <3>2
  <2>2. \A i, j \in B : i # j => defs[i].name # defs[j].name \/ defs[i].class # defs[j].class
    BY <1>4, <1>5 DEF Distinct
  <2>3. \A i, j \in B \cup {i0} : i # j => defs[i].name # defs[j].name \/ defs[i].class # defs[j].class
    BY <1>4, <1>6, <1>11, <2>1, <2>2
  <2> QED  BY <1>1, <1>7, <2>3 DEF Distinct
<1>14. PICK t : t = packages
  OBVIOUS
<1>15. t \in [DOMAIN t -> EntryType]
  BY <1>14 DEF TypeInv, TablesType
<1>16. /\ \A i \in B : defs[i].class = Nil => defs[i].name \in DOMAIN t /\ t[defs[i].name] = Entry("function", defs[i].arguments)
       /\ \A n \in 1 .. p - 1 : lines[n].op = "class" => lines[n].name \in DOMAIN t /\ t[lines[n].name] = Entry("class", 0)
       /\ \A x \in DOMAIN t : \/ \E i \in B : defs[i].class = Nil /\ defs[i].name = x
                              \/ \E n \in 1 .. p - 1 : lines[n].op = "class" /\ lines[n].name = x
  BY <1>4, <1>5, <1>14 DEF PackagesAre
<1>17. \A n : n \in 1 .. (p + 1) - 1 <=> n \in 1 .. p - 1 \/ n = p
  BY <1>2
<1>18. lines[p].op # "class"
  BY <1>1, <1>2 DEF At
<1>19. PackagesAre(p + 1)'
  <2>1. PICK t2 : t2 = packages'
    OBVIOUS
  <2>2. CASE c = Nil
    <3>1. WithOf(t, At.name, e, t2)
      BY <1>12, <1>14, <1>15, <2>1, <2>2, WithIs
    <3>2. /\ DOMAIN t2 = DOMAIN t \cup {At.name} /\ t2[At.name] = e /\ At.name \notin DOMAIN t
          /\ \A n \in DOMAIN t : t2[n] = t[n]
      BY <1>12, <1>14, <2>2, <3>1 DEF WithOf
    <3>3. \A i \in B \cup {i0} : defs[i].class = Nil => defs[i].name \in DOMAIN t2 /\ t2[defs[i].name] = Entry("function", defs[i].arguments)
      BY <1>6, <1>10, <1>16, <3>2
    <3>4. \A n \in 1 .. (p + 1) - 1 : lines[n].op = "class" => lines[n].name \in DOMAIN t2 /\ t2[lines[n].name] = Entry("class", 0)
      BY <1>16, <1>17, <1>18, <3>2
    <3>5. \A x \in DOMAIN t2 : \/ \E i \in B \cup {i0} : defs[i].class = Nil /\ defs[i].name = x
                               \/ \E n \in 1 .. (p + 1) - 1 : lines[n].op = "class" /\ lines[n].name = x
      BY <1>4, <1>6, <1>11, <1>16, <1>17, <2>2, <3>2
    <3> QED  BY <1>1, <1>7, <2>1, <3>3, <3>4, <3>5 DEF PackagesAre
  <2>3. CASE c # Nil
    <3>1. t2 = t /\ defs[i0].class # Nil
      BY <1>4, <1>6, <1>11, <1>12, <1>14, <2>1, <2>3
    <3>2. \A n \in 1 .. (p + 1) - 1 : lines[n].op = "class" => n \in 1 .. p - 1
      BY <1>17, <1>18
    <3> QED  BY <1>1, <1>7, <1>16, <1>17, <2>1, <3>1, <3>2 DEF PackagesAre
  <2> QED  BY <2>2, <2>3
<1>20. /\ \A i \in B : defs[i].class # Nil => defs[i].name \in DOMAIN lookup[defs[i].class]
       /\ \A d \in Classes : \A x \in DOMAIN lookup[d] :
            lookup[d][x].type = "function" /\ \E i \in B : defs[i].class = d /\ defs[i].name = x
  BY <1>4, <1>5 DEF MethodsAre
<1>21. MethodsAre(p + 1)'
  <2>1. CASE c = Nil
    <3>1. defs[i0].class = Nil /\ lookup' = lookup
      BY <1>4, <1>6, <1>11, <1>12, <2>1
    <3> QED  BY <1>1, <1>7, <1>20, <3>1 DEF MethodsAre
  <2>2. CASE c # Nil
    <3>1. PICK u, v : u = lookup[c] /\ v = With(u, At.name, e)
      OBVIOUS
    <3>2. c \in Classes /\ u \in [DOMAIN u -> EntryType] /\ lookup = [d \in Classes |-> lookup[d]]
      BY <1>11, <2>2, <3>1 DEF TypeInv, TablesType
    <3>3. WithOf(u, At.name, e, v)
      BY <3>1, <3>2, WithIs
    <3>4. /\ DOMAIN v = DOMAIN u \cup {At.name} /\ v[At.name] = e /\ \A n \in DOMAIN u : n # At.name => v[n] = u[n]
      BY <3>3 DEF WithOf
    <3>5. \A d \in Classes : lookup'[d] = IF d = c THEN v ELSE lookup[d]
      BY <1>12, <2>2, <3>1, <3>2
    <3>6. \A i \in B \cup {i0} : defs[i].class # Nil => defs[i].class \in Classes
      <4>1. \A i \in 1 .. Len(defs) : defs[i] \in DefType
        BY DEF TypeInv, ProgramType
      <4>2. B \subseteq 1 .. Len(defs)
        BY <1>5 DEF Begun_before
      <4> QED  BY <1>6, <4>1, <4>2 DEF DefType
    <3>7. ASSUME NEW i \in B \cup {i0}, defs[i].class # Nil
          PROVE  defs[i].name \in DOMAIN lookup'[defs[i].class]
      <4>1. CASE i = i0
        BY <1>4, <1>6, <1>11, <3>2, <3>4, <3>5, <4>1
      <4>2. CASE i \in B
        BY <1>20, <3>1, <3>4, <3>5, <3>6, <3>7, <4>2
      <4> QED  BY <4>1, <4>2
    <3>8. ASSUME NEW d \in Classes, NEW x \in DOMAIN lookup'[d]
          PROVE  lookup'[d][x].type = "function" /\ \E i \in B \cup {i0} : defs[i].class = d /\ defs[i].name = x
      <4>1. CASE d # c
        BY <1>20, <3>5, <3>8, <4>1
      <4>2. CASE d = c /\ x = At.name
        BY <1>4, <1>6, <1>10, <1>11, <3>4, <3>5, <4>2
      <4>3. CASE d = c /\ x # At.name
        <5>1. x \in DOMAIN u /\ lookup'[d][x] = u[x]
          BY <3>4, <3>5, <4>3
        <5> QED  BY <1>20, <3>1, <4>3, <5>1
      <4> QED  BY <4>1, <4>2, <4>3
    <3> QED  BY <1>1, <1>7, <3>7, <3>8 DEF MethodsAre
  <2> QED  BY <2>1, <2>2
<1>22. AttributesAre(C, p + 1)'
  <2>1. attributes' = attributes /\ At.op # "use"
    BY <1>1 DEF LookupDef
  <2> QED  BY <1>1, <1>2, <1>4, <2>1, CollectedStays
<1> QED  BY <1>9, <1>13, <1>19, <1>21, <1>22

LEMMA ClassCollected ==
  ASSUME TypeInv, NEW D, NEW C, NEW K, History(D, C, K), Collected(D, C), Process_Lookups, LookupClass, errors' = {},
         NEW p, p = pos
  PROVE  /\ scope' = D[p] /\ current_class' = C[p] /\ Distinct(p + 1)' /\ PackagesAre(p + 1)'
         /\ MethodsAre(p + 1)' /\ AttributesAre(C, p + 1)'
<1>1. /\ stage = "lookups" /\ pos <= Len(lines) /\ UNCHANGED Program /\ lines' = lines /\ defs' = defs /\ At.op = "class"
      /\ lookup' = lookup /\ attributes' = attributes
  BY DEF Process_Lookups, LookupClass, Program
<1>2. p \in Nat /\ p > 0
  BY <1>1, AtIs
<1>3. PICK e \in EntryType : e = Entry("class", 0)
  BY EntryIs
<1>4. /\ errors = {} /\ At.name \notin DOMAIN packages /\ scope = 0
      /\ scope' = scope + 1 /\ current_class' = At.name /\ packages' = With(packages, At.name, e)
  BY <1>3 DEF LookupClass
<1>5. Distinct(p) /\ PackagesAre(p) /\ MethodsAre(p) /\ AttributesAre(C, p)
  BY <1>1, <1>4 DEF Collected
<1>6. Distinct(p + 1)' /\ MethodsAre(p + 1)' /\ AttributesAre(C, p + 1)'
  BY <1>1, <1>5, CollectedStays
<1>7. Step(D, C, K, At, p)
  BY <1>1, StepAt
<1>8. scope' = D[p] /\ current_class' = C[p]
  BY <1>1, <1>4, <1>7 DEF Step
<1>9. PackagesAre(p + 1)'
  <2>1. PICK t, t2, B : t = packages /\ t2 = packages' /\ B = Begun_before(p)
    OBVIOUS
  <2>2. t \in [DOMAIN t -> EntryType]
    BY <2>1 DEF TypeInv, TablesType
  <2>3. WithOf(t, At.name, e, t2)
    BY <1>4, <2>1, <2>2, WithIs
  <2>4. /\ DOMAIN t2 = DOMAIN t \cup {At.name} /\ t2[At.name] = e /\ At.name \notin DOMAIN t
        /\ \A n \in DOMAIN t : t2[n] = t[n]
    BY <1>4, <2>1, <2>3 DEF WithOf
  <2>5. /\ \A i \in B : defs[i].class = Nil => defs[i].name \in DOMAIN t /\ t[defs[i].name] = Entry("function", defs[i].arguments)
        /\ \A n \in 1 .. p - 1 : lines[n].op = "class" => lines[n].name \in DOMAIN t /\ t[lines[n].name] = Entry("class", 0)
        /\ \A x \in DOMAIN t : \/ \E i \in B : defs[i].class = Nil /\ defs[i].name = x
                               \/ \E n \in 1 .. p - 1 : lines[n].op = "class" /\ lines[n].name = x
    BY <1>5, <2>1 DEF PackagesAre
  <2>6. \A n : n \in 1 .. (p + 1) - 1 <=> n \in 1 .. p - 1 \/ n = p
    BY <1>2
  <2>7. Begun_before(p + 1)' = B
    BY <1>1, <2>1, BegunNext DEF Begun_before
  <2>8. lines[p] = At
    BY DEF At
  <2>9. \A i \in B : defs[i].class = Nil => defs[i].name \in DOMAIN t2 /\ t2[defs[i].name] = Entry("function", defs[i].arguments)
    BY <2>4, <2>5
  <2>10. \A n \in 1 .. (p + 1) - 1 : lines[n].op = "class" => lines[n].name \in DOMAIN t2 /\ t2[lines[n].name] = Entry("class", 0)
    BY <1>3, <2>4, <2>5, <2>6, <2>8
  <2>11. \A x \in DOMAIN t2 : \/ \E i \in B : defs[i].class = Nil /\ defs[i].name = x
                              \/ \E n \in 1 .. (p + 1) - 1 : lines[n].op = "class" /\ lines[n].name = x
    BY <1>1, <2>4, <2>5, <2>6, <2>8
  <2> QED  BY <1>1, <2>1, <2>7, <2>9, <2>10, <2>11 DEF PackagesAre
<1> QED  BY <1>6, <1>8, <1>9

LEMMA AppendOneSlot ==
  ASSUME NEW S, NEW s \in Seq(S), OneSlot(s), NEW x \in S, x \notin ToSet(s)
  PROVE  OneSlot(Append(s, x)) /\ ToSet(Append(s, x)) = ToSet(s) \cup {x}
<1>0. PICK t : t = Append(s, x)
  OBVIOUS
<1>1. PICK n \in Nat : n = Len(s) /\ t = Append(s, x)
  BY <1>0
<1>2. /\ t \in Seq(S) /\ Len(t) = n + 1 /\ t[n + 1] = x /\ \A i \in 1 .. n : t[i] = s[i]
      /\ DOMAIN s = 1 .. n /\ DOMAIN t = 1 .. n + 1
  BY <1>1
<1>3. \A i \in 1 .. n + 1 : i \in 1 .. n \/ i = n + 1
  OBVIOUS
<1>4. \A i \in 1 .. n : s[i] # x
  BY <1>2 DEF ToSet
<1>5. OneSlot(t)
  BY <1>1, <1>2, <1>3, <1>4 DEF OneSlot
<1>6. ToSet(t) = ToSet(s) \cup {x}
  BY <1>2, <1>3 DEF ToSet
<1> QED  BY <1>1, <1>5, <1>6

LEMMA UseCollected ==
  ASSUME TypeInv, NEW D, NEW C, NEW K, History(D, C, K), Collected(D, C), Process_Lookups, LookupUse, errors' = {},
         NEW p, p = pos
  PROVE  /\ scope' = D[p] /\ current_class' = C[p] /\ Distinct(p + 1)' /\ PackagesAre(p + 1)'
         /\ MethodsAre(p + 1)' /\ AttributesAre(C, p + 1)'
<1>1. /\ stage = "lookups" /\ pos <= Len(lines) /\ UNCHANGED Program /\ lines' = lines /\ At.op \in {"use", "text"}
      /\ lookup' = lookup /\ packages' = packages /\ errors = {} /\ scope' = scope /\ current_class' = current_class
  BY DEF Process_Lookups, LookupUse, Program
<1>2. p \in Nat /\ p > 0
  BY <1>1, AtIs
<1>3. /\ scope = D[p - 1] /\ current_class = C[p - 1]
      /\ Distinct(p) /\ PackagesAre(p) /\ MethodsAre(p) /\ AttributesAre(C, p)
  BY <1>1 DEF Collected
<1>4. Distinct(p + 1)' /\ PackagesAre(p + 1)' /\ MethodsAre(p + 1)'
  BY <1>1, <1>3, CollectedStays
<1>5. Step(D, C, K, At, p)
  BY <1>1, StepAt
<1>6. scope' = D[p] /\ current_class' = C[p]
  BY <1>1, <1>3, <1>5 DEF Step
<1>7. PICK c \in Classes \cup {Nil} : c = current_class
  BY DEF TypeInv, PassType
<1>8. attributes \in [Classes -> Seq(Attributes)]
  BY DEF TypeInv, TablesType
<1>9. /\ \A n \in 1 .. p - 1 : lines[n].op = "use" /\ ~lines[n].dot /\ lines[n].name \in Attributes /\ C[n] # Nil =>
           lines[n].name \in ToSet(attributes[C[n]])
      /\ \A d \in Classes : OneSlot(attributes[d])
  BY <1>3 DEF AttributesAre
<1>10. \A n : n \in 1 .. (p + 1) - 1 <=> n \in 1 .. p - 1 \/ n = p
  BY <1>2
<1>11. lines[p] = At
  BY DEF At
<1>12. \A n \in 1 .. p : C[n] # Nil => C[n] \in Classes
  <2>1. C \in [Nat -> Classes \cup {Nil}]
    BY DEF History
  <2> QED  BY <1>2, <2>1
<1>13. CASE c # Nil /\ At.name \in Attributes \ ToSet(attributes[c]) /\ ~At.dot
  <2>1. PICK s, t : s = attributes[c] /\ t = Append(s, At.name)
    OBVIOUS
  <2>2. c \in Classes /\ s \in Seq(Attributes) /\ OneSlot(s)
    BY <1>7, <1>8, <1>9, <1>13, <2>1
  <2>3. OneSlot(t) /\ ToSet(t) = ToSet(s) \cup {At.name}
    BY <1>13, <2>1, <2>2, AppendOneSlot
  <2>4. attributes' = [attributes EXCEPT ![c] = t]
    BY <1>7, <1>13, <2>1 DEF LookupUse
  <2>5. \A d \in Classes : attributes'[d] = IF d = c THEN t ELSE attributes[d]
    BY <1>8, <2>4
  <2>6. \A d \in Classes : OneSlot(attributes'[d]) /\ ToSet(attributes[d]) \subseteq ToSet(attributes'[d])
    BY <1>9, <2>1, <2>3, <2>5
  <2>7. At.name \in ToSet(attributes'[c])
    BY <2>2, <2>3, <2>5
  <2>8. ASSUME NEW n \in 1 .. (p + 1) - 1, lines[n].op = "use", ~lines[n].dot, lines[n].name \in Attributes, C[n] # Nil
        PROVE  lines[n].name \in ToSet(attributes'[C[n]])
    <3>1. CASE n = p
      <4>1. C[p] = c /\ lines[n].name = At.name
        BY <1>1, <1>6, <1>7, <1>11, <3>1
      <4> QED  BY <2>7, <3>1, <4>1
    <3>2. CASE n \in 1 .. p - 1
      <4>1. n \in 1 .. p
        BY <1>2, <3>2
      <4>2. C[n] \in Classes
        BY <1>12, <2>8, <4>1
      <4> QED  BY <1>9, <2>6, <2>8, <3>2, <4>2
    <3> QED  BY <1>10, <3>1, <3>2
  <2> QED  BY <1>1, <1>4, <1>6, <2>6, <2>8 DEF AttributesAre
<1>14. CASE ~(c # Nil /\ At.name \in Attributes \ ToSet(attributes[c]) /\ ~At.dot)
  <2>1. attributes' = attributes
    BY <1>7, <1>14 DEF LookupUse
  <2>2. \A n \in 1 .. (p + 1) - 1 : lines[n].op = "use" /\ ~lines[n].dot /\ lines[n].name \in Attributes /\ C[n] # Nil =>
           lines[n].name \in ToSet(attributes[C[n]])
    BY <1>1, <1>6, <1>7, <1>9, <1>10, <1>11, <1>14
  <2> QED  BY <1>1, <1>4, <1>6, <1>9, <2>1, <2>2 DEF AttributesAre
<1> QED  BY <1>13, <1>14

LEMMA ReadsIs ==
  ASSUME TypeInv, "text" \notin Allowed, pos <= Len(lines)
  PROVE  (Reads("end") <=> At.op = "end") /\ (Reads("if") <=> At.op = "if") /\ ~Reads("dot")
<1>1. LineOK(At) /\ At \in LineType
  BY AtIs
<1>2. At.op = "text" => At.name = "plain"
  BY <1>1 DEF LineOK
<1>3. At.op # "dot"
  BY <1>1 DEF LineType
<1> QED  BY <1>2, <1>3 DEF Reads

LEMMA EndIfCollected ==
  ASSUME TypeInv, "text" \notin Allowed, NEW D, NEW C, NEW K, History(D, C, K), Collected(D, C), Process_Lookups,
         LookupEnd \/ LookupIf, errors' = {}, NEW p, p = pos
  PROVE  /\ scope' = D[p] /\ current_class' = C[p] /\ Distinct(p + 1)' /\ PackagesAre(p + 1)'
         /\ MethodsAre(p + 1)' /\ AttributesAre(C, p + 1)'
<1>1. /\ stage = "lookups" /\ pos <= Len(lines) /\ UNCHANGED Program /\ lines' = lines
      /\ lookup' = lookup /\ packages' = packages /\ errors = {} /\ attributes' = attributes
  BY DEF Process_Lookups, LookupEnd, LookupIf, Program, Tables
<1>2. /\ scope = D[p - 1] /\ current_class = C[p - 1]
      /\ Distinct(p) /\ PackagesAre(p) /\ MethodsAre(p) /\ AttributesAre(C, p)
  BY <1>1 DEF Collected
<1>3. At.op \in {"end", "if"}
  BY <1>1, ReadsIs DEF LookupEnd, LookupIf
<1>4. Distinct(p + 1)' /\ PackagesAre(p + 1)' /\ MethodsAre(p + 1)' /\ AttributesAre(C, p + 1)'
  BY <1>1, <1>2, <1>3, CollectedStays
<1>5. Step(D, C, K, At, p)
  BY <1>1, StepAt
<1>6. scope' = D[p] /\ current_class' = C[p]
  <2>1. CASE LookupEnd
    <3>1. At.op = "end"
      BY <1>1, <2>1, ReadsIs DEF LookupEnd
    <3> QED  BY <1>2, <1>5, <2>1, <3>1 DEF Step, LookupEnd
  <2>2. CASE LookupIf
    <3>1. At.op = "if"
      BY <1>1, <2>2, ReadsIs DEF LookupIf
    <3> QED  BY <1>2, <1>5, <2>2, <3>1 DEF Step, LookupIf
  <2> QED  BY <2>1, <2>2
<1> QED  BY <1>4, <1>6

LEMMA LookupsCollected ==
  ASSUME TypeInv, "text" \notin Allowed, NEW D, NEW C, NEW K, History(D, C, K), Collected(D, C), Process_Lookups
  PROVE  Collected(D, C)'
<1>1. stage' = "lookups" /\ pos <= Len(lines)
  BY DEF Process_Lookups
<1>2. PICK p : p = pos
  OBVIOUS
<1>3. pos' = p + 1 /\ pos' - 1 = p
  <2>1. p \in Nat
    BY <1>1, <1>2, AtIs
  <2> QED  BY <1>2, <2>1 DEF Process_Lookups
<1>4. ASSUME errors' = {}
      PROVE  /\ scope' = D[p] /\ current_class' = C[p] /\ Distinct(p + 1)' /\ PackagesAre(p + 1)'
             /\ MethodsAre(p + 1)' /\ AttributesAre(C, p + 1)'
  <2>1. CASE LookupDef
    BY <1>2, <1>4, <2>1, DefCollected
  <2>2. CASE LookupClass
    BY <1>2, <1>4, <2>2, ClassCollected
  <2>3. CASE LookupEnd \/ LookupIf
    BY <1>2, <1>4, <2>3, EndIfCollected
  <2>4. CASE LookupUse
    BY <1>2, <1>4, <2>4, UseCollected
  <2> QED  BY <2>1, <2>2, <2>3, <2>4 DEF Process_Lookups
<1>5. PICK q : q = p + 1
  OBVIOUS
<1>6. ASSUME errors' = {}
      PROVE  Distinct(pos)' /\ PackagesAre(pos)' /\ MethodsAre(pos)' /\ AttributesAre(C, pos)'
  BY <1>3, <1>4, <1>6 DEF Distinct, PackagesAre, MethodsAre, AttributesAre, Begun_before
<1> QED  BY <1>1, <1>3, <1>4, <1>6 DEF Collected

LEMMA TablesKeptCollected ==
  ASSUME NEW D, NEW C, Collected(D, C), stage \in {"logic", "done"}, stage' \in {"logic", "done"},
         UNCHANGED Program, UNCHANGED Tables
  PROVE  Collected(D, C)'
<1>1. lines' = lines /\ defs' = defs /\ packages' = packages /\ lookup' = lookup /\ attributes' = attributes /\ errors' = errors
  BY DEF Program, Tables
<1>2. \A p : Begun_before(p)' = Begun_before(p)
  BY <1>1 DEF Begun_before
<1>3. \A p : Distinct(p)' <=> Distinct(p)
  BY <1>1, <1>2 DEF Distinct
<1>4. \A p : PackagesAre(p)' <=> PackagesAre(p)
  BY <1>1, <1>2 DEF PackagesAre
<1>5. \A p : AttributesAre(C, p)' <=> AttributesAre(C, p)
  BY <1>1 DEF AttributesAre
<1>6. MethodsHidden' <=> MethodsHidden
  BY <1>1 DEF MethodsHidden
<1> QED  BY <1>1, <1>3, <1>4, <1>5, <1>6 DEF Collected

LEMMA EndLookupsCollected ==
  ASSUME TypeInv, NEW D, NEW C, NEW K, History(D, C, K), Collected(D, C), EndLookups
  PROVE  Collected(D, C)'
<1> SUFFICES ASSUME errors' = {}
             PROVE  Collected(D, C)'
  BY DEF Collected
<1>1. /\ stage = "lookups" /\ stage' = "logic" /\ lines' = lines /\ defs' = defs /\ packages' = packages
      /\ attributes' = attributes /\ errors = {} /\ lookup' = [c \in Classes |-> Add_Global_Methods(lookup[c])]
  BY DEF EndLookups, Program
<1>2. PICK p : p = Len(lines) + 1
  OBVIOUS
<1>3. pos = p
  BY <1>2 DEF EndLookups, TypeInv, ProgramType, PassType
<1>4. Distinct(p) /\ PackagesAre(p) /\ MethodsAre(p) /\ AttributesAre(C, p)
  BY <1>1, <1>3 DEF Collected
<1>5. Begun_before(p) = 1 .. Len(defs) /\ Begun_before(p)' = Begun_before(p)
  <2>1. \A i \in 1 .. Len(defs) : defs[i].from \in 1 .. Len(lines) /\ Len(lines) \in Nat
    BY DEF History, TypeInv, ProgramType
  <2> QED  BY <1>1, <1>2, <2>1 DEF Begun_before
<1>6. Distinct(p)' /\ PackagesAre(p)' /\ AttributesAre(C, p)'
  BY <1>1, <1>4, <1>5 DEF Distinct, PackagesAre, AttributesAre
<1>7. MethodsHidden'
  <2>1. PICK ext : ext = Entry("external", 1) /\ ext.type = "external"
    BY EntryIs
  <2>2. ASSUME NEW c \in Classes, NEW x
        PROVE  (x \in DOMAIN lookup'[c] /\ lookup'[c][x].type # "external")
                 <=> (x \notin GlobalMethods /\ \E i \in 1 .. Len(defs) : defs[i].class = c /\ defs[i].name = x)
    <3>1. PICK t : t = lookup[c]
      OBVIOUS
    <3>2. lookup'[c] = [n \in DOMAIN t \cup GlobalMethods |-> IF n \in GlobalMethods THEN ext ELSE t[n]]
      BY <1>1, <2>1, <3>1 DEF Add_Global_Methods
    <3>3. \A y \in DOMAIN t : t[y].type = "function" /\ \E i \in 1 .. Len(defs) : defs[i].class = c /\ defs[i].name = y
      BY <1>4, <1>5, <3>1 DEF MethodsAre
    <3>4. \A i \in 1 .. Len(defs) : defs[i].class = c => defs[i].name \in DOMAIN t
      <4>1. c # Nil
        BY InterpreterAssumption
      <4> QED  BY <1>4, <1>5, <3>1, <4>1 DEF MethodsAre
    <3>5. CASE x \in GlobalMethods
      BY <2>1, <3>2, <3>5
    <3>6. CASE x \notin GlobalMethods
      <4>1. x \in DOMAIN lookup'[c] <=> x \in DOMAIN t
        BY <3>2, <3>6
      <4>2. x \in DOMAIN t => lookup'[c][x].type = "function"
        BY <3>2, <3>3, <3>6
      <4> QED  BY <3>3, <3>4, <3>6, <4>1, <4>2
    <3> QED  BY <3>5, <3>6
  <2> QED  BY <1>1, <2>2 DEF MethodsHidden
<1> QED  BY <1>1, <1>2, <1>6, <1>7 DEF Collected

(***************************************************************************)
(* Where the second pass is, in a program without texts that are keywords  *)
(* and without nested functions.                                           *)
(***************************************************************************)
Compiled(m) == compiled \in Seq(DefType) /\ Len(compiled) = m /\ \A i \in 1 .. m : compiled[i] = defs[i]

Followed(D, C, K) ==
  /\ stage \in {"write", "lookups"} => compiled = <<>> /\ dot_op = FALSE
  /\ stage = "logic" =>
       /\ current_class = C[pos - 1] /\ dot_op = FALSE
       /\ ~In(D, C, pos - 1) => package = Nil /\ Compiled(K[pos - 1])
       /\ In(D, C, pos - 1) =>
            /\ K[pos - 1] \in 1 .. Len(defs) /\ Compiled(K[pos - 1] - 1)
            /\ package = [defs[K[pos - 1]] EXCEPT !.to = 0] /\ package.class = C[pos - 1]
            /\ inner = D[pos - 1] - Base(C[pos - 1])
  /\ stage = "done" => Compiled(Len(defs))

(* The initial values, which are there until the program is read. *)
Fresh ==
  /\ pos = 1 /\ scope = 0 /\ current_class = Nil /\ packages = <<>> /\ errors = {}
  /\ lookup = [c \in Classes |-> <<>>] /\ attributes = [c \in Classes |-> <<>>]
  /\ package = Nil /\ inner = 0 /\ local_map = <<>> /\ dot_op = FALSE
  /\ compiled = <<>> /\ resolved = [i \in 1 .. MaxLines |-> Found("none", 0)]

LEMMA InterpretCollected ==
  ASSUME TypeInv, Fresh, NEW D, NEW C, NEW K, History(D, C, K), Interpret
  PROVE  Collected(D, C)' /\ Followed(D, C, K)'
<1>1. /\ stage' = "lookups" /\ pos' = 1 /\ scope' = 0 /\ current_class' = Nil /\ packages' = <<>> /\ compiled' = <<>>
      /\ lookup' = [c \in Classes |-> <<>>] /\ attributes' = [c \in Classes |-> <<>>] /\ dot_op' = FALSE
      /\ lines' = lines /\ defs' = defs
  BY DEF Interpret, Fresh, Program, Tables, Body
<1>2. D[0] = 0 /\ C[0] = Nil
  BY DEF History
<1>3. Begun_before(1)' = {}
  <2>1. \A i \in 1 .. Len(defs) : defs[i].from \in 1 .. Len(lines) /\ Len(lines) \in Nat
    BY DEF History, TypeInv, ProgramType
  <2> QED  BY <1>1, <2>1 DEF Begun_before
<1>4. \A n \in 1 .. 1 - 1 : FALSE
  OBVIOUS
<1>5. Distinct(1)' /\ PackagesAre(1)'
  BY <1>1, <1>3, <1>4, EmptyTables DEF Distinct, PackagesAre
<1>6. MethodsAre(1)'
  BY <1>1, <1>3, EmptyTables DEF MethodsAre
<1>7. AttributesAre(C, 1)'
  BY <1>1, <1>4, EmptyTables DEF AttributesAre, OneSlot
<1>8. Distinct(pos)' /\ PackagesAre(pos)' /\ MethodsAre(pos)' /\ AttributesAre(C, pos)'
  BY <1>1, <1>5, <1>6, <1>7 DEF Distinct, PackagesAre, MethodsAre, AttributesAre, Begun_before
<1>9. Collected(D, C)'
  BY <1>1, <1>2, <1>8 DEF Collected
<1> QED  BY <1>1, <1>9 DEF Followed

LEMMA LookupsFollowed ==
  ASSUME NEW D, NEW C, NEW K, Followed(D, C, K), Process_Lookups
  PROVE  Followed(D, C, K)'
BY DEF Process_Lookups, Followed, Body

LEMMA CompiledStays ==
  ASSUME NEW m, Compiled(m), compiled' = compiled, defs' = defs
  PROVE  Compiled(m)'
BY DEF Compiled

LEMMA EndLookupsFollowed ==
  ASSUME TypeInv, NEW D, NEW C, NEW K, History(D, C, K), Followed(D, C, K), EndLookups
  PROVE  Followed(D, C, K)'
<1>1. /\ stage = "lookups" /\ stage' = "logic" /\ pos' = 1 /\ current_class' = Nil /\ defs' = defs
      /\ package' = package /\ inner' = inner /\ compiled' = compiled /\ dot_op' = dot_op
  BY DEF EndLookups, Program, Body
<1>2. package = Nil /\ compiled = <<>> /\ dot_op = FALSE
  BY <1>1 DEF TypeInv, PassType, Followed
<1>3. D[0] = 0 /\ C[0] = Nil /\ K[0] = 0 /\ ~In(D, C, 0)
  BY DEF History, In, Base
<1>4. Compiled(0)'
  BY <1>1, <1>2, EmptyTables DEF Compiled
<1>5. pos' - 1 = 0
  BY <1>1
<1>6. Compiled(K[0])'
  BY <1>3, <1>4
<1> QED  BY <1>1, <1>2, <1>3, <1>5, <1>6 DEF Followed, Compiled

(* The functions of the program are records.                               *)
LEMMA DefIs ==
  ASSUME TypeInv, NEW i \in 1 .. Len(defs)
  PROVE  /\ defs[i] \in DefType /\ defs[i].name \in Names /\ defs[i].class \in Classes \cup {Nil}
         /\ defs[i].arguments \in Nat /\ defs[i].from \in Nat /\ defs[i].to \in Nat
         /\ [defs[i] EXCEPT !.to = 0] = [name |-> defs[i].name, class |-> defs[i].class,
                                         arguments |-> defs[i].arguments, from |-> defs[i].from, to |-> 0]
         /\ [[defs[i] EXCEPT !.to = 0] EXCEPT !.to = defs[i].to] = defs[i]
<1>1. PICK d \in DefType : d = defs[i]
  BY DEF TypeInv, ProgramType
<1>2. d.name \in Names /\ d.class \in Classes \cup {Nil} /\ d.arguments \in Nat /\ d.from \in Nat /\ d.to \in Nat
  BY DEF DefType
<1>3. d = [name |-> d.name, class |-> d.class, arguments |-> d.arguments, from |-> d.from, to |-> d.to]
  BY DEF DefType
<1>4. PICK e : e = [d EXCEPT !.to = 0]
  OBVIOUS
<1>5. e = [name |-> d.name, class |-> d.class, arguments |-> d.arguments, from |-> d.from, to |-> 0]
  BY <1>3, <1>4
<1>6. [e EXCEPT !.to = d.to] = [name |-> d.name, class |-> d.class, arguments |-> d.arguments, from |-> d.from, to |-> d.to]
  BY <1>5
<1>7. [e EXCEPT !.to = d.to] = d
  BY <1>3, <1>6
<1> QED  BY <1>1, <1>2, <1>4, <1>5, <1>7

(* The second pass is in a function when the history says so.              *)
LEMMA OutsideIs ==
  ASSUME TypeInv, NEW D, NEW C, NEW K, Followed(D, C, K), stage = "logic"
  PROVE  package = Nil <=> ~In(D, C, pos - 1)
<1>1. ASSUME In(D, C, pos - 1)
      PROVE  package # Nil
  <2>1. PICK i : i = K[pos - 1]
    OBVIOUS
  <2>2. i \in 1 .. Len(defs) /\ package = [defs[i] EXCEPT !.to = 0]
    BY <1>1, <2>1 DEF Followed
  <2>3. package \in DefType
    BY <2>2, DefIs DEF DefType
  <2>4. DefType = [name : Names, class : Classes \cup {Nil}, arguments : Nat, from : Nat, to : Nat]
    BY DEF DefType
  <2> QED  BY <2>3, <2>4, InterpreterAssumption
<1> QED  BY <1>1 DEF Followed

LEMMA LogicFollowed ==
  ASSUME TypeInv, "text" \notin Allowed, "nested" \notin Allowed, NEW D, NEW C, NEW K, History(D, C, K),
         Followed(D, C, K), Process_Logic
  PROVE  Followed(D, C, K)'
<1>1. /\ stage = "logic" /\ stage' = "logic" /\ package = Nil /\ pos <= Len(lines) /\ defs' = defs
  BY DEF Process_Logic, Program
<1>2. PICK p \in Nat : p = pos /\ pos' = p + 1 /\ p > 0
  BY <1>1, AtIs DEF Process_Logic
<1>3. pos' - 1 = p
  BY <1>2
<1>4. /\ Step(D, C, K, At, p) /\ D[p - 1] \in Nat /\ D[p] \in Nat /\ K[p - 1] \in Nat
      /\ C[p - 1] \in Classes \cup {Nil} /\ D[p - 1] >= Base(C[p - 1]) /\ D[p] >= Base(C[p])
  BY <1>1, <1>2, StepAt
<1>5. ~In(D, C, p - 1)
  BY <1>1, <1>2, OutsideIs
<1>6. current_class = C[p - 1] /\ dot_op = FALSE /\ Compiled(K[p - 1])
  BY <1>1, <1>2, <1>5 DEF Followed
<1>7. D[p - 1] = Base(C[p - 1])
  BY <1>4, <1>5 DEF In, Base
<1>8. CASE LogicDef
  <2>1. /\ package' = [name |-> At.name, class |-> C[p - 1], arguments |-> Len(At.args), from |-> p, to |-> 0]
        /\ inner' = 1 /\ dot_op' = FALSE /\ current_class' = C[p - 1] /\ compiled' = compiled /\ At.op = "def"
    BY <1>2, <1>6, <1>8 DEF LogicDef
  <2>2. D[p] = D[p - 1] + 1 /\ C[p] = C[p - 1] /\ K[p] = K[p - 1] + 1
    BY <1>4, <2>1 DEF Step
  <2>3. In(D, C, p) /\ inner' = D[p] - Base(C[p])
    BY <1>4, <1>7, <2>1, <2>2 DEF In, Base
  <2>4. PICK i : i = K[p]
    OBVIOUS
  <2>5. /\ i \in 1 .. Len(defs) /\ defs[i].name = At.name /\ defs[i].class = C[p - 1]
        /\ defs[i].arguments = Len(At.args) /\ defs[i].from = p
    BY <1>1, <1>2, <2>1, <2>4, BegunNext
  <2>6. package' = [defs[i] EXCEPT !.to = 0] /\ package'.class = C[p]
    BY <2>1, <2>2, <2>5, DefIs
  <2>7. K[p] - 1 = K[p - 1]
    BY <1>4, <2>2
  <2>8. Compiled(K[p] - 1)'
    BY <1>1, <1>6, <2>1, <2>7, CompiledStays
  <2> QED  BY <1>1, <1>3, <2>1, <2>2, <2>3, <2>4, <2>5, <2>6, <2>8 DEF Followed
<1>9. CASE LogicClass
  <2>1. current_class' = At.name /\ UNCHANGED <<package, dot_op, compiled>> /\ At.op = "class"
    BY <1>9 DEF LogicClass, Body
  <2>2. D[p] = 1 /\ C[p] = At.name /\ K[p] = K[p - 1]
    BY <1>4, <2>1 DEF Step
  <2>3. At.name \in Classes /\ At.name # Nil
    BY <1>1, <2>1, AtIs, InterpreterAssumption DEF LineOK
  <2>4. ~In(D, C, p)
    BY <2>2, <2>3 DEF In, Base
  <2>5. Compiled(K[p])'
    BY <1>1, <1>6, <2>1, <2>2, CompiledStays
  <2> QED  BY <1>1, <1>3, <1>6, <2>1, <2>2, <2>4, <2>5 DEF Followed
<1>10. CASE LogicOther
  <2>1. At.op = "end"
    <3>1. At.op \in {"use", "text", "if", "end"}
      BY <1>1, <1>10, AtIs DEF LogicOther, LineType
    <3> QED  BY <1>4, <1>5, <3>1 DEF Step
  <2>2. current_class' = Nil /\ UNCHANGED <<package, dot_op, compiled>>
    BY <1>10, <2>1 DEF LogicOther, Body, Reads
  <2>3. D[p - 1] > 0 /\ D[p] = D[p - 1] - 1 /\ C[p] = (IF D[p] = 0 THEN Nil ELSE C[p - 1]) /\ K[p] = K[p - 1]
    BY <1>4, <2>1 DEF Step
  <2>4. D[p] = 0 /\ C[p] = Nil
    BY <1>4, <1>7, <2>3 DEF Base
  <2>5. ~In(D, C, p)
    BY <2>4 DEF In, Base
  <2>6. Compiled(K[p])'
    BY <1>1, <1>6, <2>2, <2>3, CompiledStays
  <2> QED  BY <1>1, <1>3, <1>6, <2>2, <2>4, <2>5, <2>6 DEF Followed
<1> QED  BY <1>8, <1>9, <1>10 DEF Process_Logic

LEMMA PackageFollowed ==
  ASSUME TypeInv, "text" \notin Allowed, "nested" \notin Allowed, NEW D, NEW C, NEW K, History(D, C, K), Ends(D, C, K),
         Followed(D, C, K), Process_Package
  PROVE  Followed(D, C, K)'
<1>1. /\ stage = "logic" /\ stage' = "logic" /\ package # Nil /\ pos <= Len(lines) /\ defs' = defs
      /\ current_class' = current_class
  BY DEF Process_Package, Program
<1>2. PICK p \in Nat : p = pos /\ pos' = p + 1 /\ p > 0
  BY <1>1, AtIs DEF Process_Package
<1>3. pos' - 1 = p
  BY <1>2
<1>4. /\ Step(D, C, K, At, p) /\ D[p - 1] \in Nat /\ D[p] \in Nat /\ K[p - 1] \in Nat
      /\ C[p - 1] \in Classes \cup {Nil} /\ D[p - 1] >= Base(C[p - 1]) /\ D[p] >= Base(C[p])
  BY <1>1, <1>2, StepAt
<1>5. PICK i : i = K[p - 1]
  OBVIOUS
<1>6. /\ In(D, C, p - 1) /\ i \in 1 .. Len(defs) /\ Compiled(i - 1)
      /\ package = [defs[i] EXCEPT !.to = 0] /\ package.class = C[p - 1]
      /\ inner = D[p - 1] - Base(C[p - 1]) /\ current_class = C[p - 1] /\ dot_op = FALSE
  BY <1>1, <1>2, <1>5 DEF Followed
<1>7. PICK b \in 0 .. 1 : b = Base(C[p - 1]) /\ D[p - 1] > b /\ (b = 0 <=> C[p - 1] = Nil)
  BY <1>6 DEF In, Base
<1>8. CASE At.op \in {"use", "text", "if"}
  <2>1. package' = package /\ compiled' = compiled /\ dot_op' = FALSE /\ inner' = (IF At.op = "if" THEN inner + 1 ELSE inner)
    <3>1. ~Reads("dot")
      BY <1>1, ReadsIs
    <3> QED  BY <1>8, <3>1 DEF Process_Package, PackageUse, PackageIf, PackageEnd, PackageOther
  <2>2. C[p] = C[p - 1] /\ K[p] = i /\ D[p] = (IF At.op = "if" THEN D[p - 1] + 1 ELSE D[p - 1])
    BY <1>4, <1>5, <1>8 DEF Step
  <2>3. In(D, C, p) /\ inner' = D[p] - Base(C[p])
    BY <1>4, <1>6, <1>7, <2>1, <2>2 DEF In
  <2>4. Compiled(i - 1)'
    BY <1>1, <1>6, <2>1, CompiledStays
  <2> QED  BY <1>1, <1>3, <1>6, <2>1, <2>2, <2>3, <2>4 DEF Followed
<1>9. CASE At.op = "end"
  <2>1. D[p] = D[p - 1] - 1 /\ C[p] = (IF D[p] = 0 THEN Nil ELSE C[p - 1]) /\ K[p] = i
    BY <1>4, <1>5, <1>9 DEF Step
  <2>2. C[p] = C[p - 1]
    BY <1>4, <1>7, <2>1
  <2>3. inner' = D[p] - b
    BY <1>4, <1>6, <1>7, <1>9, <2>1 DEF Process_Package, PackageUse, PackageIf, PackageEnd, PackageOther
  <2>4. In(D, C, p) <=> inner' # 0
    BY <1>4, <1>7, <2>1, <2>2, <2>3 DEF In
  <2>5. CASE inner' # 0
    <3>1. package' = package /\ compiled' = compiled /\ dot_op' = FALSE
      BY <1>9, <2>5 DEF Process_Package, PackageUse, PackageIf, PackageEnd, PackageOther
    <3>2. Compiled(i - 1)'
      BY <1>1, <1>6, <3>1, CompiledStays
    <3> QED  BY <1>1, <1>3, <1>6, <1>7, <2>1, <2>2, <2>3, <2>4, <2>5, <3>1, <3>2 DEF Followed
  <2>6. CASE inner' = 0
    <3>1. package' = Nil /\ compiled' = Append(compiled, [package EXCEPT !.to = p]) /\ dot_op' = dot_op
      BY <1>2, <1>9, <2>6 DEF Process_Package, PackageUse, PackageIf, PackageEnd, PackageOther
    <3>2. defs[i].to = p
      <4>1. p \in 1 .. Len(lines)
        BY <1>1, <1>2, AtIs
      <4>2. In(D, C, p - 1) /\ ~In(D, C, p) => K[p] \in 1 .. Len(defs) /\ defs[K[p]].to = p
        BY <4>1 DEF Ends
      <4> QED  BY <1>6, <2>1, <2>4, <2>6, <4>2
    <3>3. PICK d : d = defs[i] /\ d \in DefType /\ d = [package EXCEPT !.to = p]
      BY <1>6, <3>2, DefIs
    <3>4. PICK m \in Nat : m = i - 1 /\ m + 1 = i
      BY <1>6
    <3>5. compiled \in Seq(DefType) /\ Len(compiled) = m /\ \A j \in 1 .. m : compiled[j] = defs[j]
      BY <1>6, <3>4 DEF Compiled
    <3>6. /\ compiled' \in Seq(DefType) /\ Len(compiled') = m + 1 /\ compiled'[m + 1] = d
          /\ \A j \in 1 .. m : compiled'[j] = compiled[j]
      BY <3>1, <3>3, <3>5
    <3>7. \A j \in 1 .. m + 1 : compiled'[j] = defs[j]
      <4>1. \A j \in 1 .. m + 1 : j \in 1 .. m \/ j = m + 1
        OBVIOUS
      <4> QED  BY <3>3, <3>4, <3>5, <3>6, <4>1
    <3>8. Compiled(i)'
      BY <1>1, <3>4, <3>6, <3>7 DEF Compiled
    <3> QED  BY <1>1, <1>3, <1>6, <2>1, <2>2, <2>4, <2>6, <3>1, <3>8 DEF Followed
  <2> QED  BY <2>5, <2>6
<1>10. At.op \notin {"def", "class"}
  <2>1. At.op # "def"
    BY <1>4, <1>6 DEF Step
  <2>2. At.op = "class" => D[p - 1] = 0
    BY <1>4 DEF Step
  <2> QED  BY <1>7, <2>1, <2>2
<1>11. At.op \in {"use", "text", "def", "class", "if", "end"}
  BY <1>1, AtIs DEF LineType
<1> QED  BY <1>8, <1>9, <1>10, <1>11

LEMMA EndLogicFollowed ==
  ASSUME TypeInv, NEW D, NEW C, NEW K, History(D, C, K), Followed(D, C, K), EndLogic
  PROVE  Followed(D, C, K)'
<1>1. /\ stage = "logic" /\ stage' = "done" /\ package = Nil /\ defs' = defs /\ compiled' = compiled
  BY DEF EndLogic, Program, Body
<1>2. PICK N \in Nat : N = Len(lines) /\ pos - 1 = N
  BY DEF EndLogic, TypeInv, ProgramType, PassType
<1>3. K[N] = Len(defs)
  BY <1>2 DEF History
<1>4. ~In(D, C, N)
  BY <1>1, <1>2, OutsideIs
<1>5. Compiled(Len(defs))
  BY <1>1, <1>2, <1>3, <1>4 DEF Followed
<1>6. Compiled(Len(defs))'
  BY <1>1, <1>5 DEF Compiled
<1> QED  BY <1>1, <1>6 DEF Followed

(***************************************************************************)
(* What names mean, in a program without any of the Habits.                *)
(***************************************************************************)
LEMMA InSet ==
  ASSUME NEW S, NEW s \in Seq(S), NEW x
  PROVE  x \in ToSet(s) <=> \E i \in 1 .. Len(s) : s[i] = x
BY DEF ToSet

LEMMA DefNames ==
  ASSUME TypeInv, "override" \notin Allowed, NEW D, NEW C, NEW K, History(D, C, K), NEW i \in 1 .. Len(defs)
  PROVE  defs[i].name \in Functions /\ defs[i].name \notin GlobalMethods \cup Attributes \cup Locals
<1>1. PICK n : n = defs[i].from /\ n \in 1 .. Len(lines) /\ lines[n].op = "def" /\ K[n] = i
  BY DEF History
<1>2. Step(D, C, K, lines[n], n) /\ Begins(C, K, n) /\ LineOK(lines[n])
  BY <1>1 DEF History, TypeInv, ProgramType
<1>3. lines[n].name \in Functions
  BY <1>1, <1>2 DEF Step, LineOK
<1>4. defs[i].name = lines[n].name
  BY <1>1, <1>2 DEF Begins
<1> QED  BY <1>3, <1>4, InterpreterAssumption

DefCalled(x, c) == \E i \in 1 .. Len(defs) : defs[i].name = x /\ defs[i].class = c
Internal(x, c)  == c # Nil /\ DefCalled(x, c)
ClassCalled(x)  == \E n \in 1 .. Len(lines) : lines[n].op = "class" /\ lines[n].name = x

(* The function around a line that uses a name. *)
LEMMA AroundIs ==
  ASSUME TypeInv, stage # "write", "nested" \notin Allowed, NEW D, NEW C, NEW K, Recorded(D, C, K),
         NEW n \in 1 .. Len(lines), lines[n].op = "use", K[n] \in 1 .. Len(defs)
  PROVE  Around(n) = defs[K[n]] /\ defs[K[n]].from < n
<1>1. PICK N \in Nat : N = Len(lines) /\ n \in 1 .. N
  BY DEF TypeInv, ProgramType
<1>2. History(D, C, K) /\ Ends(D, C, K) /\ Written(D, C, K)
  BY DEF Recorded
<1>3. D[N] = 0 /\ C[N] \in Classes \cup {Nil}
  BY <1>1, <1>2, EmptyTables DEF TypeInv, ProgramType, Written, History
<1>4. ~In(D, C, N)
  BY <1>3 DEF In, Base
<1>5. Step(D, C, K, lines[n], n) /\ D[n] \in Nat
  BY <1>1, <1>2 DEF History
<1>6. In(D, C, n)
  BY <1>5 DEF Step, In
<1>7. \A i \in 1 .. Len(defs) : /\ defs[i].from \in 1 .. N /\ defs[i].from # n /\ defs[i].to \in Nat
                                /\ K[defs[i].from] = i
  BY <1>1, <1>2, DefIs DEF History
<1>8. \A i \in 1 .. Len(defs) : Inside(i, N) <=> FALSE
  BY <1>1, <1>2, <1>4 DEF Ends
<1>9. \A i \in 1 .. Len(defs) : Inside(i, n) <=> K[n] = i
  BY <1>1, <1>2, <1>6 DEF Ends
<1>10. \A i \in 1 .. Len(defs) : (defs[i].from < n /\ n < defs[i].to) <=> K[n] = i
  BY <1>1, <1>7, <1>8, <1>9 DEF Inside
<1>11. PICK d : d = defs[K[n]]
  OBVIOUS
<1>12. d \in ToSet(defs) /\ d.from < n /\ n < d.to
  BY <1>10, <1>11, InSet DEF TypeInv, ProgramType
<1>13. ASSUME NEW e \in ToSet(defs), e.from < n, n < e.to
       PROVE  e = d
  <2>1. PICK i \in 1 .. Len(defs) : e = defs[i]
    BY InSet DEF TypeInv, ProgramType
  <2> QED  BY <1>10, <1>11, <1>13, <2>1
<1> QED  BY <1>11, <1>12, <1>13 DEF Around

LEMMA GlobalsAre ==
  ASSUME TypeInv, NEW x
  PROVE  /\ x \in {d.name : d \in Globals} <=> DefCalled(x, Nil)
         /\ \A i \in 1 .. Len(defs) : defs[i].class = Nil => defs[i] \in Globals
<1>1. \A d : d \in ToSet(defs) <=> \E i \in 1 .. Len(defs) : defs[i] = d
  BY InSet DEF TypeInv, ProgramType
<1>2. \A i \in 1 .. Len(defs) : defs[i].class = Nil => defs[i] \in Globals
  BY <1>1 DEF Globals
<1>3. \A d \in Globals : d.class = Nil /\ \E i \in 1 .. Len(defs) : defs[i] = d
  BY <1>1 DEF Globals
<1> QED  BY <1>2, <1>3 DEF DefCalled

LEMMA SiblingsAre ==
  ASSUME TypeInv, NEW n, NEW c, Around(n).class = c, NEW x
  PROVE  x \in Siblings(n) <=> Internal(x, c)
<1>1. \A d : d \in ToSet(defs) <=> \E i \in 1 .. Len(defs) : defs[i] = d
  BY InSet DEF TypeInv, ProgramType
<1>2. x \in Siblings(n) <=> \E d \in ToSet(defs) : d.class = c /\ d.class # Nil /\ d.name = x
  BY DEF Siblings
<1> QED  BY <1>1, <1>2 DEF Internal, DefCalled

LEMMA PackagesFor ==
  ASSUME TypeInv, NEW D, NEW C, NEW K, History(D, C, K), PackagesAre(Len(lines) + 1), NEW x
  PROVE  /\ x \in DOMAIN packages <=> DefCalled(x, Nil) \/ ClassCalled(x)
         /\ DefCalled(x, Nil) => /\ packages[x].type = "function"
                                 /\ \E d \in Globals : d.name = x /\ d.arguments = packages[x].arguments
         /\ ClassCalled(x) => packages[x].type = "class"
<1>1. PICK N \in Nat : N = Len(lines) /\ (N + 1) - 1 = N
  BY DEF TypeInv, ProgramType
<1>2. \A i : i \in Begun_before(N + 1) <=> i \in 1 .. Len(defs)
  <2>1. \A i \in 1 .. Len(defs) : defs[i].from \in 1 .. N
    BY <1>1 DEF History
  <2>2. \A i \in 1 .. Len(defs) : defs[i].from < N + 1
    BY <1>1, <2>1
  <2> QED  BY <1>1, <2>2 DEF Begun_before
<1>3. /\ \A i \in 1 .. Len(defs) : defs[i].class = Nil =>
           defs[i].name \in DOMAIN packages /\ packages[defs[i].name] = Entry("function", defs[i].arguments)
      /\ \A n \in 1 .. N : lines[n].op = "class" =>
           lines[n].name \in DOMAIN packages /\ packages[lines[n].name] = Entry("class", 0)
      /\ \A y \in DOMAIN packages : \/ \E i \in 1 .. Len(defs) : defs[i].class = Nil /\ defs[i].name = y
                                    \/ \E n \in 1 .. N : lines[n].op = "class" /\ lines[n].name = y
  BY <1>1, <1>2 DEF PackagesAre
<1>4. ASSUME DefCalled(x, Nil)
      PROVE  /\ x \in DOMAIN packages /\ packages[x].type = "function"
             /\ \E d \in Globals : d.name = x /\ d.arguments = packages[x].arguments
  <2>1. PICK i \in 1 .. Len(defs) : defs[i].name = x /\ defs[i].class = Nil
    BY <1>4 DEF DefCalled
  <2>2. x \in DOMAIN packages /\ packages[x] = Entry("function", defs[i].arguments) /\ defs[i] \in Globals
    BY <1>3, <2>1, GlobalsAre
  <2> QED  BY <2>1, <2>2 DEF Entry
<1>5. ASSUME ClassCalled(x)
      PROVE  x \in DOMAIN packages /\ packages[x].type = "class"
  BY <1>1, <1>3, <1>5 DEF ClassCalled, Entry
<1>6. ASSUME x \in DOMAIN packages PROVE DefCalled(x, Nil) \/ ClassCalled(x)
  BY <1>1, <1>3, <1>6 DEF DefCalled, ClassCalled
<1> QED  BY <1>4, <1>5, <1>6

LEMMA InternalFor ==
  ASSUME TypeInv, "override" \notin Allowed, NEW D, NEW C, NEW K, History(D, C, K), MethodsHidden, NEW x
  PROVE  IsInternal(x) <=> Internal(x, current_class)
<1>1. current_class # Nil => current_class \in Classes
  BY DEF TypeInv, PassType
<1>2. \A i \in 1 .. Len(defs) : defs[i].name \notin GlobalMethods
  BY DefNames
<1> QED  BY <1>1, <1>2 DEF IsInternal, Internal, DefCalled, MethodsHidden

(* A name x without a dot, outside and inside of a class c. *)
MeansSo(x, c, type) ==
  /\ x \in Attributes => type = "attribute"
  /\ x \notin Attributes /\ Internal(x, c) => type = "internal"
  /\ x \notin Attributes /\ ~Internal(x, c) /\ DefCalled(x, Nil) => type = "function"
  /\ x \notin Attributes /\ ~Internal(x, c) /\ ~DefCalled(x, Nil) /\ ClassCalled(x) => type = "class"
  /\ x \notin Attributes /\ ~Internal(x, c) /\ ~DefCalled(x, Nil) /\ ~ClassCalled(x) =>
       type = (IF x \in BuiltIns THEN "builtin" ELSE "local")

LEMMA MeantFor ==
  ASSUME TypeInv, stage # "write", Allowed = {}, NEW D, NEW C, NEW K, Recorded(D, C, K),
         NEW n \in 1 .. Len(lines), lines[n].op = "use", K[n] \in 1 .. Len(defs), defs[K[n]].class = C[n - 1]
  PROVE  /\ lines[n].dot => Meant(n) = "method"
         /\ ~lines[n].dot => MeansSo(lines[n].name, C[n - 1], Meant(n))
<1>1. PICK x, c, k : x = lines[n].name /\ c = C[n - 1] /\ k = K[n]
  OBVIOUS
<1>2. Around(n) = defs[k] /\ Around(n).class = c /\ History(D, C, K) /\ k \in 1 .. Len(defs)
  BY <1>1, AroundIs DEF Recorded
<1>3. Argument(n, x) => x \in Locals
  <2>1. PICK q : q = defs[k].from /\ q \in 1 .. Len(lines)
    BY <1>2 DEF History
  <2>2. LineOK(lines[q]) /\ lines[q] \in LineType
    BY <2>1 DEF TypeInv, ProgramType
  <2>3. lines[q].args \in Seq(Locals \cup Functions)
    BY <2>2 DEF LineType
  <2>4. lines[q].args = <<>> \/ \E y \in Locals : lines[q].args = <<y>>
    BY <2>2 DEF LineOK
  <2>5. \A i \in 1 .. Len(lines[q].args) : lines[q].args[i] \in Locals
    BY <2>4
  <2> QED  BY <1>2, <2>1, <2>3, <2>5, InSet DEF Argument
<1>4. x \in Locals => ~DefCalled(x, Nil) /\ ~Internal(x, c)
  BY <1>2, DefNames DEF DefCalled, Internal
<1>5. ClassCalled(x) <=> \E i \in DOMAIN lines : lines[i].op = "class" /\ lines[i].name = x /\ x \in Classes
  BY DEF ClassCalled, TypeInv, ProgramType, LineOK
<1>6. ClassCalled(x) \/ x \in BuiltIns => x \notin Locals
  BY <1>5, InterpreterAssumption
<1>7. (x \in Siblings(n) <=> Internal(x, c)) /\ (x \in {d.name : d \in Globals} <=> DefCalled(x, Nil))
  BY <1>2, SiblingsAre, GlobalsAre
<1>8. Meant(n) =
        IF lines[n].dot THEN "method"
        ELSE IF x \in Attributes THEN "attribute"
        ELSE IF Argument(n, x) THEN "local"
        ELSE IF Internal(x, c) THEN "internal"
        ELSE IF DefCalled(x, Nil) THEN "function"
        ELSE IF ClassCalled(x) THEN "class"
        ELSE IF x \in BuiltIns THEN "builtin"
        ELSE "local"
  BY <1>1, <1>5, <1>7 DEF Meant
<1> QED  BY <1>1, <1>3, <1>4, <1>6, <1>8 DEF MeansSo

(* What the second pass finds. *)
LEMMA FoundFor ==
  ASSUME TypeInv, Allowed = {}, NEW D, NEW C, NEW K, History(D, C, K), MethodsHidden,
         PackagesAre(Len(lines) + 1), NEW x, NEW dot \in BOOLEAN, dot => x \in Methods,
         local_map \in Seq(Names \cup {"this"})
  PROVE  LET found == Lookup_Processing(x, dot) IN
         /\ dot => found.type = "method"
         /\ ~dot => MeansSo(x, current_class, found.type)
         /\ found.type = "function" => \E d \in Globals : d.name = x /\ d.arguments = found.slot
         /\ found.type = "attribute" => x \in Attributes /\ found.slot = AttributeSlot(x)
         /\ found.type = "local" => \/ x \in ToSet(local_map) /\ found.slot = SlotOf(x)
                                    \/ x \notin ToSet(local_map) /\ found.slot = Len(local_map) + 1
<1>1. PICK found : found = Lookup_Processing(x, dot)
  OBVIOUS
<1>2. dot => x \notin Attributes
  BY InterpreterAssumption
<1>3. IsInternal(x) <=> Internal(x, current_class)
  BY InternalFor
<1>4. Internal(x, current_class) => x \notin Attributes
  BY DefNames DEF Internal, DefCalled
<1>5. CASE dot
  BY <1>1, <1>2, <1>5 DEF Lookup_Processing, Found
<1>6. CASE ~dot /\ Internal(x, current_class)
  BY <1>1, <1>3, <1>4, <1>6 DEF Lookup_Processing, Found, MeansSo
<1>7. CASE ~dot /\ ~Internal(x, current_class) /\ x \in Attributes
  BY <1>1, <1>3, <1>7 DEF Lookup_Processing, Found, MeansSo
<1>8. CASE ~dot /\ ~Internal(x, current_class) /\ x \notin Attributes /\ (DefCalled(x, Nil) \/ ClassCalled(x))
  <2>1. found.type = packages[x].type /\ found.slot = packages[x].arguments
    BY <1>1, <1>3, <1>8, PackagesFor DEF Lookup_Processing, Found
  <2> QED  BY <1>1, <1>8, <2>1, PackagesFor DEF MeansSo
<1>9. CASE ~dot /\ ~Internal(x, current_class) /\ x \notin Attributes /\ ~DefCalled(x, Nil) /\ ~ClassCalled(x)
  <2>1. x \notin DOMAIN packages
    BY <1>9, PackagesFor
  <2> QED  BY <1>1, <1>3, <1>9, <2>1 DEF Lookup_Processing, Found, MeansSo
<1> QED  BY <1>5, <1>6, <1>7, <1>8, <1>9

(***************************************************************************)
(* What the second pass has found for the lines before line p.             *)
(***************************************************************************)
HasSlot(s, i, x) == i \in 1 .. Len(s) /\ s[i] = x

NameFound(C, K, n) ==
  lines[n].op = "use" =>
    /\ K[n] \in 1 .. Len(defs) /\ defs[K[n]].class = C[n - 1]
    /\ resolved[n].type = Meant(n)
    /\ resolved[n].type = "function" => \E d \in Globals : d.name = lines[n].name /\ d.arguments = resolved[n].slot
    /\ resolved[n].type = "attribute" =>
         C[n - 1] \in Classes /\ HasSlot(attributes[C[n - 1]], resolved[n].slot, lines[n].name)

Local(n) == lines[n].op = "use" /\ resolved[n].type = "local"

SlotsTell(m, n) == resolved[m].slot = resolved[n].slot <=> lines[m].name = lines[n].name

LinesNamed(C, K, p) ==
  /\ \A n \in 1 .. p - 1 : NameFound(C, K, n)
  /\ \A m, n \in 1 .. p - 1 : Local(m) /\ Local(n) /\ K[m] = K[n] => SlotsTell(m, n)

(* The locals of function k. *)
MapNamed(K, p, k) ==
  OneSlot(local_map) /\ \A n \in 1 .. p - 1 : Local(n) /\ K[n] = k => HasSlot(local_map, resolved[n].slot, lines[n].name)

Named(D, C, K) ==
  /\ local_map \in Seq(Names \cup {"this"}) /\ DOMAIN resolved = 1 .. MaxLines
  /\ stage = "done" => pos = Len(lines) + 1
  /\ errors = {} /\ stage \in {"logic", "done"} =>
       LinesNamed(C, K, pos) /\ (stage = "logic" /\ In(D, C, pos - 1) => MapNamed(K, pos, K[pos - 1]))

LEMMA MeantStays ==
  ASSUME lines' = lines, defs' = defs, NEW n
  PROVE  Meant(n)' = Meant(n) /\ Globals' = Globals /\ Around(n)' = Around(n)
BY DEF Meant, Globals, Around, Argument, Siblings

LEMMA NameStays ==
  ASSUME lines' = lines, defs' = defs, attributes' = attributes, NEW C, NEW K, NEW n, resolved'[n] = resolved[n]
  PROVE  /\ NameFound(C, K, n) => NameFound(C, K, n)'
         /\ Local(n)' <=> Local(n)
<1>1. Meant(n)' = Meant(n) /\ Globals' = Globals
  BY MeantStays
<1> QED  BY <1>1 DEF NameFound, Local, HasSlot

(* A line that uses no name. *)
LEMMA SkipNamed ==
  ASSUME lines' = lines, defs' = defs, attributes' = attributes, resolved' = resolved, NEW C, NEW K,
         NEW p \in Nat \ {0}, lines[p].op # "use"
  PROVE  /\ LinesNamed(C, K, p) => LinesNamed(C, K, p + 1)'
         /\ \A k : local_map' = local_map /\ MapNamed(K, p, k) => MapNamed(K, p + 1, k)'
<1>1. \A n : n \in 1 .. (p + 1) - 1 => n \in 1 .. p - 1 \/ n = p
  OBVIOUS
<1>2. ~Local(p) /\ NameFound(C, K, p)
  BY DEF Local, NameFound
<1>3. \A n : (NameFound(C, K, n) => NameFound(C, K, n)') /\ (Local(n)' <=> Local(n))
  BY NameStays
<1>4. \A m, n : SlotsTell(m, n)' <=> SlotsTell(m, n)
  BY DEF SlotsTell
<1>5. LinesNamed(C, K, p) => LinesNamed(C, K, p + 1)'
  BY <1>1, <1>2, <1>3, <1>4 DEF LinesNamed
<1>6. ASSUME NEW k, local_map' = local_map, MapNamed(K, p, k) PROVE MapNamed(K, p + 1, k)'
  BY <1>1, <1>2, <1>3, <1>6 DEF MapNamed, OneSlot, HasSlot
<1> QED  BY <1>5, <1>6

LEMMA NewLocal ==
  ASSUME NEW S, local_map \in Seq(S), NEW x \in S, OneSlot(local_map), NEW i,
         \/ x \in ToSet(local_map) /\ i = SlotOf(x)
         \/ x \notin ToSet(local_map) /\ i = Len(local_map) + 1,
         local_map' = IF i > Len(local_map) THEN Append(local_map, x) ELSE local_map
  PROVE  /\ local_map' \in Seq(S) /\ OneSlot(local_map)' /\ HasSlot(local_map', i, x)
         /\ \A j, y : HasSlot(local_map, j, y) => HasSlot(local_map', j, y)
<1>1. PICK L \in Nat : L = Len(local_map)
  OBVIOUS
<1>2. CASE x \in ToSet(local_map) /\ i = SlotOf(x)
  <2>1. \E j \in Slots : local_map[j] = x
    BY <1>1, <1>2, InSet DEF Slots
  <2>2. i \in Slots /\ local_map[i] = x
    BY <1>2, <2>1 DEF SlotOf
  <2>3. i \in 1 .. L
    BY <1>1, <2>2 DEF Slots
  <2>4. local_map' = local_map
    BY <1>1, <2>3
  <2> QED  BY <1>1, <2>2, <2>3, <2>4 DEF HasSlot, OneSlot
<1>3. CASE x \notin ToSet(local_map) /\ i = Len(local_map) + 1
  <2>1. local_map' = Append(local_map, x)
    BY <1>1, <1>3
  <2>2. /\ local_map' \in Seq(S) /\ Len(local_map') = L + 1 /\ local_map'[L + 1] = x
        /\ \A j \in 1 .. L : local_map'[j] = local_map[j]
    BY <1>1, <2>1
  <2>3. \A j \in 1 .. L : local_map[j] # x
    BY <1>1, <1>3, InSet
  <2>4. \A j \in 1 .. L + 1 : j \in 1 .. L \/ j = L + 1
    OBVIOUS
  <2>5. OneSlot(local_map)'
    BY <1>1, <2>2, <2>3, <2>4 DEF OneSlot
  <2>6. HasSlot(local_map', i, x)
    BY <1>1, <1>3, <2>2 DEF HasSlot
  <2>7. ASSUME NEW j, NEW y, HasSlot(local_map, j, y) PROVE HasSlot(local_map', j, y)
    BY <1>1, <2>2, <2>7 DEF HasSlot
  <2> QED  BY <2>2, <2>5, <2>6, <2>7
<1> QED  BY <1>2, <1>3

LEMMA MeansOnce ==
  ASSUME NEW x, NEW c, NEW a, NEW b, MeansSo(x, c, a), MeansSo(x, c, b)
  PROVE  a = b
BY DEF MeansSo

(* The second pass in a function, at line p. *)
Inner(D, C, K, p, k) ==
  /\ stage = "logic" /\ stage' = "logic" /\ p = pos /\ p \in 1 .. Len(lines) /\ pos' = p + 1 /\ p - 1 \in 0 .. Len(lines)
  /\ lines' = lines /\ defs' = defs /\ attributes' = attributes /\ errors' = errors
  /\ In(D, C, p - 1) /\ k = K[p - 1] /\ k \in 1 .. Len(defs) /\ current_class = C[p - 1] /\ dot_op = FALSE
  /\ defs[k].class = C[p - 1] /\ Step(D, C, K, lines[p], p) /\ lines[p] = At /\ At.op # "def"

LEMMA InnerIs ==
  ASSUME TypeInv, Allowed = {}, NEW D, NEW C, NEW K, History(D, C, K), Followed(D, C, K), Process_Package
  PROVE  \E p \in Nat \ {0} : \E k : Inner(D, C, K, p, k)
<1>1. /\ stage = "logic" /\ stage' = "logic" /\ package # Nil /\ pos <= Len(lines) /\ pos' = pos + 1
      /\ lines' = lines /\ defs' = defs /\ attributes' = attributes /\ errors' = errors
  BY DEF Process_Package, Program, Tables
<1>2. pos \in 1 .. Len(lines) /\ Len(lines) \in Nat /\ Step(D, C, K, At, pos)
  BY <1>1, AtIs, StepAt
<1>3. PICK p \in Nat \ {0} : p = pos /\ p - 1 \in 0 .. Len(lines)
  BY <1>2
<1>4. In(D, C, p - 1)
  BY <1>1, <1>3, OutsideIs
<1>5. PICK k : k = K[p - 1]
  OBVIOUS
<1>6. /\ k \in 1 .. Len(defs) /\ current_class = C[p - 1] /\ dot_op = FALSE
      /\ package = [defs[k] EXCEPT !.to = 0] /\ package.class = C[p - 1]
  BY <1>1, <1>3, <1>4, <1>5 DEF Followed
<1>7. defs[k].class = C[p - 1]
  <2>1. PICK d : d = defs[k]
    OBVIOUS
  <2>2. package = [name |-> d.name, class |-> d.class, arguments |-> d.arguments, from |-> d.from, to |-> 0]
    BY <1>6, <2>1, DefIs
  <2>3. package.class = d.class
    BY <2>2
  <2> QED  BY <1>6, <2>1, <2>3
<1>8. At.op # "def"
  BY <1>2, <1>3, <1>4 DEF Step
<1>9. lines[p] = At
  BY <1>3 DEF At
<1> QED  BY <1>1, <1>2, <1>3, <1>4, <1>5, <1>6, <1>7, <1>8, <1>9 DEF Inner

(* A name is found to be what it means. *)
LEMMA UseFound ==
  ASSUME TypeInv, Allowed = {}, NEW D, NEW C, NEW K, Recorded(D, C, K), Collected(D, C), Named(D, C, K), errors = {},
         NEW p \in Nat \ {0}, NEW k, Inner(D, C, K, p, k), PackageUse
  PROVE  /\ NameFound(C, K, p)' /\ DOMAIN resolved' = DOMAIN resolved
         /\ \A n \in 1 .. p - 1 : resolved'[n] = resolved[n]
         /\ local_map' \in Seq(Names \cup {"this"})
         /\ OneSlot(local_map) => /\ OneSlot(local_map)'
                                  /\ Local(p)' => HasSlot(local_map', resolved'[p].slot, lines[p].name)
                                  /\ \A j, y : HasSlot(local_map, j, y) => HasSlot(local_map', j, y)
<1>1. /\ stage = "logic" /\ p = pos /\ p \in 1 .. Len(lines) /\ current_class = C[p - 1] /\ dot_op = FALSE
      /\ lines' = lines /\ defs' = defs /\ attributes' = attributes
      /\ k = K[p - 1] /\ k \in 1 .. Len(defs) /\ defs[k].class = C[p - 1]
      /\ Step(D, C, K, lines[p], p) /\ lines[p] = At
  BY DEF Inner
<1>2. PICK x, dot, c, found : x = At.name /\ dot = At.dot /\ c = C[p - 1] /\ found = Lookup_Processing(x, dot)
  OBVIOUS
<1>3. History(D, C, K) /\ PackagesAre(Len(lines) + 1) /\ MethodsHidden /\ AttributesAre(C, Len(lines) + 1)
  BY <1>1 DEF Recorded, Collected
<1>4. local_map \in Seq(Names \cup {"this"}) /\ DOMAIN resolved = 1 .. MaxLines
  BY DEF Named
<1>5. At \in LineType /\ LineOK(At)
  BY <1>1, AtIs
<1>6. At.op = "use" /\ x \in Names /\ dot \in BOOLEAN /\ (dot => x \in Methods)
  BY <1>2, <1>5 DEF PackageUse, LineType, LineOK
<1>7. K[p] = k
  BY <1>1, <1>6 DEF Step
<1>8. /\ dot => found.type = "method"
      /\ ~dot => MeansSo(x, c, found.type)
      /\ found.type = "function" => \E d \in Globals : d.name = x /\ d.arguments = found.slot
      /\ found.type = "attribute" => x \in Attributes /\ found.slot = AttributeSlot(x)
      /\ found.type = "local" => \/ x \in ToSet(local_map) /\ found.slot = SlotOf(x)
                                 \/ x \notin ToSet(local_map) /\ found.slot = Len(local_map) + 1
  BY <1>1, <1>2, <1>3, <1>4, <1>6, FoundFor
<1>9. /\ dot => Meant(p) = "method"
      /\ ~dot => MeansSo(x, c, Meant(p))
  BY <1>1, <1>2, <1>6, <1>7, MeantFor
<1>10. found.type = Meant(p)
  BY <1>6, <1>8, <1>9, MeansOnce
<1>11. /\ resolved' = [resolved EXCEPT ![p] = found]
       /\ local_map' = IF found.type = "local" /\ found.slot > Len(local_map) THEN Append(local_map, x) ELSE local_map
  BY <1>1, <1>2, <1>6 DEF PackageUse
<1>12. MaxLines \in Nat /\ p \in 1 .. MaxLines
  BY <1>1, InterpreterAssumption DEF TypeInv, ProgramType
<1>13. resolved'[p] = found /\ DOMAIN resolved' = DOMAIN resolved /\ \A n \in 1 .. p - 1 : resolved'[n] = resolved[n]
  BY <1>4, <1>11, <1>12
<1>14. found.type = "attribute" => c \in Classes /\ HasSlot(attributes[c], found.slot, x)
  <2>1. ASSUME found.type = "attribute"
        PROVE  c \in Classes /\ HasSlot(attributes[c], found.slot, x)
    <3>1. ~dot /\ x \in Attributes
      BY <1>6, <1>8, <2>1
    <3>2. c # Nil
      BY <1>1, <1>2, <1>6, <3>1 DEF Step
    <3>3. c \in Classes
      BY <1>1, <1>2, <3>2 DEF TypeInv, PassType
    <3>4. PICK N \in Nat : N = Len(lines) /\ (N + 1) - 1 = N
      BY DEF TypeInv, ProgramType
    <3>5. x \in ToSet(attributes[c])
      <4>1. C[p] = c
        BY <1>1, <1>2, <1>6 DEF Step
      <4>2. \A n \in 1 .. N : lines[n].op = "use" /\ ~lines[n].dot /\ lines[n].name \in Attributes /\ C[n] # Nil =>
              lines[n].name \in ToSet(attributes[C[n]])
        BY <1>3, <3>4 DEF AttributesAre
      <4> QED  BY <1>1, <1>2, <1>6, <3>1, <3>2, <3>4, <4>1, <4>2
    <3>6. attributes[c] \in Seq(Attributes)
      BY <3>3 DEF TypeInv, TablesType
    <3>7. \E i \in DOMAIN attributes[c] : attributes[c][i] = x
      BY <3>5, <3>6, InSet
    <3>8. found.slot = CHOOSE i \in DOMAIN attributes[c] : attributes[c][i] = x
      BY <1>1, <1>2, <1>8, <2>1, <3>2, <3>5 DEF AttributeSlot
    <3> QED  BY <3>3, <3>6, <3>7, <3>8 DEF HasSlot
  <2> QED  BY <2>1
<1>15. NameFound(C, K, p)'
  <2>1. Meant(p)' = Meant(p) /\ Globals' = Globals
    BY <1>1, MeantStays
  <2> QED  BY <1>1, <1>2, <1>7, <1>8, <1>10, <1>13, <1>14, <2>1 DEF NameFound
<1>16. Local(p)' <=> found.type = "local"
  BY <1>1, <1>6, <1>13 DEF Local
<1>17. local_map' \in Seq(Names \cup {"this"})
  BY <1>4, <1>6, <1>11
<1>18. ASSUME OneSlot(local_map), found.type = "local"
       PROVE  /\ OneSlot(local_map)' /\ HasSlot(local_map', found.slot, x)
              /\ \A j, y : HasSlot(local_map, j, y) => HasSlot(local_map', j, y)
  <2>1. local_map' = IF found.slot > Len(local_map) THEN Append(local_map, x) ELSE local_map
    BY <1>11, <1>18
  <2> QED  BY <1>4, <1>6, <1>8, <1>18, <2>1, NewLocal
<1>19. ASSUME OneSlot(local_map), found.type # "local"
       PROVE  OneSlot(local_map)' /\ \A j, y : HasSlot(local_map, j, y) => HasSlot(local_map', j, y)
  <2>1. local_map' = local_map
    BY <1>11, <1>19
  <2> QED  BY <1>19, <2>1 DEF OneSlot
<1> QED  BY <1>1, <1>2, <1>13, <1>15, <1>16, <1>17, <1>18, <1>19

LEMMA UseNamed ==
  ASSUME TypeInv, Allowed = {}, NEW D, NEW C, NEW K, Recorded(D, C, K), Collected(D, C), Named(D, C, K), errors = {},
         NEW p \in Nat \ {0}, NEW k, Inner(D, C, K, p, k), PackageUse
  PROVE  LinesNamed(C, K, p + 1)' /\ MapNamed(K, p + 1, K[p])'
<1>1. /\ stage = "logic" /\ p = pos /\ lines' = lines /\ defs' = defs /\ attributes' = attributes
      /\ In(D, C, p - 1) /\ k = K[p - 1] /\ Step(D, C, K, lines[p], p) /\ lines[p].op = "use"
  BY DEF Inner, PackageUse
<1>2. LinesNamed(C, K, p) /\ MapNamed(K, p, k)
  BY <1>1 DEF Named
<1>3. /\ NameFound(C, K, p)' /\ \A n \in 1 .. p - 1 : resolved'[n] = resolved[n]
      /\ OneSlot(local_map)'
      /\ Local(p)' => HasSlot(local_map', resolved'[p].slot, lines[p].name)
      /\ \A j, y : HasSlot(local_map, j, y) => HasSlot(local_map', j, y)
  BY <1>2, UseFound DEF MapNamed
<1>4. K[p] = k
  BY <1>1 DEF Step
<1>5. \A n : n \in 1 .. (p + 1) - 1 <=> n \in 1 .. p - 1 \/ n = p
  OBVIOUS
<1>6. \A n \in 1 .. p - 1 : (NameFound(C, K, n) => NameFound(C, K, n)') /\ (Local(n)' <=> Local(n))
  BY <1>1, <1>3, NameStays
<1>7. \A m, n \in 1 .. p - 1 : SlotsTell(m, n)' <=> SlotsTell(m, n)
  BY <1>1, <1>3 DEF SlotsTell
<1>8. ASSUME NEW n \in 1 .. (p + 1) - 1, Local(n)', K[n] = k
      PROVE  HasSlot(local_map', resolved'[n].slot, lines[n].name)
  <2>1. CASE n = p
    BY <1>3, <1>8, <2>1
  <2>2. CASE n \in 1 .. p - 1
    <3>1. HasSlot(local_map, resolved[n].slot, lines[n].name)
      BY <1>2, <1>6, <1>8, <2>2 DEF MapNamed
    <3> QED  BY <1>3, <2>2, <3>1
  <2> QED  BY <1>5, <2>1, <2>2
<1>9. MapNamed(K, p + 1, K[p])'
  BY <1>1, <1>3, <1>4, <1>8 DEF MapNamed, HasSlot
<1>10. ASSUME NEW m \in 1 .. (p + 1) - 1, NEW n \in 1 .. (p + 1) - 1, Local(m)', Local(n)', K[m] = K[n]
       PROVE  SlotsTell(m, n)'
  <2>1. CASE K[m] = k
    <3>1. HasSlot(local_map', resolved'[m].slot, lines[m].name) /\ HasSlot(local_map', resolved'[n].slot, lines[n].name)
      BY <1>8, <1>10, <2>1
    <3> QED  BY <1>1, <1>3, <3>1 DEF HasSlot, OneSlot, SlotsTell
  <2>2. CASE K[m] # k
    <3>1. m \in 1 .. p - 1 /\ n \in 1 .. p - 1
      BY <1>4, <1>5, <1>10, <2>2
    <3>2. SlotsTell(m, n)
      BY <1>2, <1>6, <1>10, <3>1 DEF LinesNamed
    <3> QED  BY <1>7, <3>1, <3>2
  <2> QED  BY <2>1, <2>2
<1>11. \A n \in 1 .. (p + 1) - 1 : NameFound(C, K, n)'
  BY <1>2, <1>3, <1>5, <1>6 DEF LinesNamed
<1>12. LinesNamed(C, K, p + 1)'
  BY <1>10, <1>11 DEF LinesNamed
<1> QED  BY <1>9, <1>12

LEMMA PackageNamed ==
  ASSUME TypeInv, Allowed = {}, NEW D, NEW C, NEW K, Recorded(D, C, K), Collected(D, C), Followed(D, C, K),
         Named(D, C, K), Process_Package
  PROVE  Named(D, C, K)'
<1>0. PICK p \in Nat \ {0} : \E k : Inner(D, C, K, p, k)
  BY InnerIs DEF Recorded
<1>1. PICK k : Inner(D, C, K, p, k)
  BY <1>0
<1>2. /\ stage = "logic" /\ stage' = "logic" /\ p = pos /\ pos' = p + 1 /\ pos' - 1 = p
      /\ lines' = lines /\ defs' = defs /\ attributes' = attributes /\ errors' = errors
      /\ In(D, C, p - 1) /\ k = K[p - 1] /\ Step(D, C, K, lines[p], p) /\ lines[p] = At /\ At.op # "def"
  BY <1>1 DEF Inner
<1>3. local_map \in Seq(Names \cup {"this"}) /\ DOMAIN resolved = 1 .. MaxLines
  BY DEF Named
<1>4. CASE At.op # "use"
  <2>1. local_map' = local_map /\ resolved' = resolved
    BY <1>2, <1>4 DEF Process_Package, PackageUse, PackageIf, PackageEnd, PackageOther
  <2>2. At.op \in {"text", "if", "end"}
    BY <1>2, <1>4 DEF Process_Package, PackageUse, PackageIf, PackageEnd, PackageOther
  <2>3. K[p] = k
    BY <1>2, <2>2 DEF Step
  <2>4. ASSUME errors = {} PROVE LinesNamed(C, K, p + 1)' /\ MapNamed(K, p + 1, K[p])'
    <3>1. LinesNamed(C, K, p) /\ MapNamed(K, p, k)
      BY <1>2, <2>4 DEF Named
    <3> QED  BY <1>2, <1>4, <2>1, <2>3, <3>1, SkipNamed
  <2>5. ASSUME errors = {} PROVE LinesNamed(C, K, pos)' /\ MapNamed(K, pos, K[p])'
    BY <1>2, <2>4, <2>5 DEF LinesNamed, MapNamed
  <2> QED  BY <1>2, <1>3, <2>1, <2>5 DEF Named, MapNamed
<1>5. CASE At.op = "use"
  <2>1. PackageUse
    BY <1>5 DEF Process_Package, PackageUse, PackageIf, PackageEnd, PackageOther
  <2>2. ASSUME errors = {}
        PROVE  /\ LinesNamed(C, K, p + 1)' /\ MapNamed(K, p + 1, K[p])'
               /\ local_map' \in Seq(Names \cup {"this"}) /\ DOMAIN resolved' = DOMAIN resolved
    BY <1>1, <2>1, <2>2, UseNamed, UseFound
  <2>3. ASSUME errors = {} PROVE LinesNamed(C, K, pos)' /\ MapNamed(K, pos, K[p])'
    BY <1>2, <2>2, <2>3 DEF LinesNamed, MapNamed
  <2>4. local_map' \in Seq(Names \cup {"this"}) /\ DOMAIN resolved' = 1 .. MaxLines
    <3>1. At.name \in Names
      <4>1. At \in LineType /\ LineOK(At)
        BY <1>1, AtIs DEF Inner
      <4> QED  BY <1>5, <4>1 DEF LineOK
    <3>2. resolved' = [resolved EXCEPT ![pos] = Lookup_Processing(At.name, At.dot \/ dot_op)]
      BY <2>1 DEF PackageUse
    <3>3. local_map' = local_map \/ local_map' = Append(local_map, At.name)
      BY <2>1 DEF PackageUse
    <3> QED  BY <1>3, <3>1, <3>2, <3>3
  <2> QED  BY <1>2, <2>3, <2>4 DEF Named, MapNamed
<1> QED  BY <1>4, <1>5

LEMMA ParametersAre ==
  ASSUME NEW a \in Seq(Locals), a = <<>> \/ \E x \in Locals : a = <<x>>
  PROVE  Parameters(a) \in Seq(Names \cup {"this"}) /\ OneSlot(Parameters(a))
<1>1. PICK t : t = IF current_class = Nil THEN <<>> ELSE <<"this">>
  OBVIOUS
<1>2. PICK m \in {0, 1} : t \in Seq(Names \cup {"this"}) /\ Len(t) = m /\ (m = 1 => t[1] = "this")
  <2>1. CASE t = <<>>
    BY <2>1, EmptyTables
  <2>2. CASE t = <<"this">>
    BY <2>2
  <2> QED  BY <1>1, <2>1, <2>2
<1>3. Locals \subseteq Names /\ "this" \notin Locals
  BY InterpreterAssumption DEF Names
<1>4. PICK n \in {0, 1} : Len(a) = n /\ (n = 1 => a[1] \in Locals)
  <2>1. CASE a = <<>>
    BY <2>1, EmptyTables
  <2>2. CASE \E x \in Locals : a = <<x>>
    <3>1. PICK x \in Locals : a = <<x>>
      BY <2>2
    <3>2. Len(a) = 1 /\ a[1] = x
      BY <3>1
    <3> QED  BY <1>3, <3>2
  <2> QED  BY <2>1, <2>2
<1>5. a \in Seq(Names \cup {"this"})
  BY <1>3
<1>6. PICK s : s = Parameters(a) /\ s = t \o a
  BY <1>1 DEF Parameters
<1>7. /\ s \in Seq(Names \cup {"this"}) /\ Len(s) = m + n
      /\ \A i \in 1 .. m + n : s[i] = IF i <= m THEN t[i] ELSE a[i - m]
  BY <1>2, <1>4, <1>5, <1>6, ConcatProperties
<1>8. m + n = 2 => s[1] = "this" /\ s[2] \in Locals
  BY <1>2, <1>4, <1>7
<1>9. \A i \in 1 .. m + n : i = 1 \/ (i = 2 /\ m + n = 2)
  OBVIOUS
<1>10. OneSlot(s)
  BY <1>3, <1>7, <1>8, <1>9 DEF OneSlot
<1> QED  BY <1>6, <1>7, <1>10

LEMMA LogicNamed ==
  ASSUME TypeInv, Allowed = {}, NEW D, NEW C, NEW K, Recorded(D, C, K), Followed(D, C, K), Named(D, C, K),
         Process_Logic
  PROVE  Named(D, C, K)'
<1>1. /\ stage = "logic" /\ stage' = "logic" /\ package = Nil /\ pos <= Len(lines) /\ pos' = pos + 1
      /\ lines' = lines /\ defs' = defs /\ attributes' = attributes /\ errors' = errors
  BY DEF Process_Logic, Program, Tables
<1>2. pos \in 1 .. Len(lines) /\ Len(lines) \in Nat /\ At \in LineType /\ LineOK(At)
  BY <1>1, AtIs
<1>3. PICK p \in Nat \ {0} : p = pos /\ pos' - 1 = p
  BY <1>1, <1>2
<1>4. /\ Step(D, C, K, At, p) /\ C[p - 1] \in Classes \cup {Nil} /\ D[p] \in Nat
      /\ D[p - 1] \in Nat /\ D[p - 1] >= Base(C[p - 1])
  BY <1>1, <1>3, StepAt DEF Recorded
<1>5. ~In(D, C, p - 1)
  BY <1>1, <1>3, OutsideIs
<1>6. At.op # "use" /\ lines[p] = At
  BY <1>3, <1>4, <1>5 DEF Step, At
<1>7. resolved' = resolved
  BY DEF Process_Logic, LogicDef, LogicClass, LogicOther, Body
<1>8. local_map \in Seq(Names \cup {"this"}) /\ DOMAIN resolved = 1 .. MaxLines
  BY DEF Named
<1>9. ASSUME errors = {} PROVE LinesNamed(C, K, p + 1)'
  <2>1. LinesNamed(C, K, p)
    BY <1>1, <1>3, <1>9 DEF Named
  <2> QED  BY <1>1, <1>6, <1>7, <2>1, SkipNamed
<1>10. ASSUME errors = {} PROVE LinesNamed(C, K, pos)'
  BY <1>1, <1>3, <1>9, <1>10 DEF LinesNamed
<1>11. CASE At.op = "def"
  <2>1. local_map' = Parameters(At.args)
    BY <1>11 DEF Process_Logic, LogicDef, LogicClass, LogicOther
  <2>2. At.args = <<>> \/ \E x \in Locals : At.args = <<x>>
    BY <1>2 DEF LineOK
  <2>3. At.args \in Seq(Locals)
    <3>1. \A x \in Locals : <<x>> \in Seq(Locals)
      OBVIOUS
    <3> QED  BY <2>2, <3>1, EmptyTables
  <2>4. local_map' \in Seq(Names \cup {"this"}) /\ OneSlot(local_map)'
    BY <2>1, <2>2, <2>3, ParametersAre DEF OneSlot
  <2>5. ASSUME errors = {}, NEW n \in 1 .. p, Local(n)' PROVE K[n] # K[p]
    <3>1. n # p /\ n \in 1 .. p - 1 /\ n \in 1 .. Len(lines) /\ lines[n].op = "use"
      BY <1>1, <1>2, <1>3, <1>6, <2>5 DEF Local
    <3>2. LinesNamed(C, K, p)
      BY <1>1, <1>3, <2>5 DEF Named
    <3>3. K[n] \in 1 .. Len(defs)
      BY <3>1, <3>2 DEF LinesNamed, NameFound
    <3>4. defs[K[n]].from < n
      BY <1>1, <3>1, <3>3, AroundIs
    <3>5. K[p] \in 1 .. Len(defs) /\ defs[K[p]].from = p
      BY <1>1, <1>3, <1>11, BegunNext DEF Recorded
    <3> QED  BY <3>1, <3>4, <3>5
  <2>6. ASSUME errors = {} PROVE MapNamed(K, pos, K[p])'
    BY <1>1, <1>3, <2>4, <2>5, <2>6 DEF MapNamed
  <2> QED  BY <1>1, <1>3, <1>7, <1>8, <1>10, <2>4, <2>6 DEF Named, MapNamed
<1>12. CASE At.op # "def"
  <2>1. local_map' = local_map
    BY <1>12 DEF Process_Logic, LogicDef, LogicClass, LogicOther, Body
  <2>2. ~In(D, C, p)
    <3>1. At.op \in {"class", "end"}
      BY <1>2, <1>4, <1>5, <1>6, <1>12 DEF Step, LineType
    <3>2. At.op = "class" => C[p] = At.name /\ At.name \in Classes /\ D[p] = 1
      BY <1>2, <1>4 DEF Step, LineOK
    <3>3. At.op = "end" => D[p - 1] > 0 /\ D[p] = D[p - 1] - 1
      BY <1>4 DEF Step
    <3>4. D[p - 1] \in {0, 1}
      BY <1>4, <1>5 DEF In, Base
    <3>5. At.op = "end" => D[p] = 0
      BY <1>4, <3>3, <3>4
    <3> QED  BY <3>1, <3>2, <3>5, InterpreterAssumption DEF In, Base
  <2> QED  BY <1>1, <1>3, <1>7, <1>8, <1>10, <2>1, <2>2 DEF Named
<1> QED  BY <1>11, <1>12

LEMMA EndsNamed ==
  ASSUME TypeInv, NEW D, NEW C, NEW K, Recorded(D, C, K), Named(D, C, K),
         (Interpret \/ Process_Lookups) \/ (EndLookups \/ EndLogic)
  PROVE  Named(D, C, K)'
<1>1. /\ local_map \in Seq(Names \cup {"this"}) /\ DOMAIN resolved = 1 .. MaxLines
      /\ local_map' = local_map /\ resolved' = resolved /\ lines' = lines
  BY DEF Named, Interpret, Process_Lookups, EndLookups, EndLogic, Body, Program
<1>2. CASE Interpret \/ Process_Lookups
  BY <1>1, <1>2 DEF Interpret, Process_Lookups, Named
<1>3. CASE EndLookups
  <2>1. stage' = "logic" /\ pos' = 1
    BY <1>3 DEF EndLookups
  <2>2. \A n \in 1 .. 1 - 1 : FALSE
    OBVIOUS
  <2>3. LinesNamed(C, K, pos)'
    BY <2>1, <2>2 DEF LinesNamed
  <2>4. D[0] = 0 /\ C[0] = Nil
    BY DEF Recorded, History
  <2>5. ~In(D, C, pos' - 1)
    BY <2>1, <2>4 DEF In, Base
  <2> QED  BY <1>1, <2>1, <2>3, <2>5 DEF Named
<1>4. CASE EndLogic
  <2>1. /\ stage = "logic" /\ stage' = "done" /\ pos' = pos /\ pos > Len(lines) /\ defs' = defs
        /\ attributes' = attributes /\ errors' = errors
    BY <1>4 DEF EndLogic, Program, Tables
  <2>2. pos' = Len(lines') + 1
    BY <1>1, <2>1 DEF TypeInv, PassType, ProgramType
  <2>3. \A n : (NameFound(C, K, n) => NameFound(C, K, n)') /\ (Local(n)' <=> Local(n))
    BY <1>1, <2>1, NameStays
  <2>4. LinesNamed(C, K, pos) => LinesNamed(C, K, pos)'
    BY <1>1, <2>1, <2>3 DEF LinesNamed, SlotsTell
  <2> QED  BY <1>1, <2>1, <2>2, <2>4 DEF Named
<1> QED  BY <1>2, <1>3, <1>4

(***************************************************************************)
(* The invariant, and the steps.                                           *)
(***************************************************************************)
Reading(D, C, K) ==
  /\ Recorded(D, C, K)
  /\ "text" \notin Allowed => Collected(D, C)
  /\ "text" \notin Allowed /\ "nested" \notin Allowed => Followed(D, C, K)
  /\ Allowed = {} => Named(D, C, K)

PassInv == TypeInv /\ (stage = "write" => Fresh) /\ \E D, C, K : Reading(D, C, K)

LEMMA WritingReads ==
  ASSUME Fresh, stage = "write", NEW D, NEW C, NEW K, Recorded(D, C, K)
  PROVE  Reading(D, C, K)
<1>1. Collected(D, C) /\ Followed(D, C, K)
  BY DEF Fresh, Collected, Followed
<1>2. Named(D, C, K)
  BY EmptyTables DEF Fresh, Named
<1> QED  BY <1>1, <1>2 DEF Reading

LEMMA PassInit == Init => PassInv
<1> SUFFICES ASSUME Init
             PROVE  PassInv
  OBVIOUS
<1>1. TypeInv /\ \E D, C, K : Recorded(D, C, K)
  BY TypeInit, RecordedInit
<1>2. Fresh /\ stage = "write"
  BY DEF Init, Fresh
<1>3. PICK D, C, K : Reading(D, C, K)
  BY <1>1, <1>2, WritingReads
<1> QED  BY <1>1, <1>2, <1>3 DEF PassInv

LEMMA WriteReads ==
  ASSUME PassInv, NEW l \in Writable, Write(l)
  PROVE  Fresh' /\ stage' = "write" /\ \E D, C, K : Reading(D, C, K)'
<1>1. stage = "write" /\ Fresh /\ TypeInv
  BY DEF Write, PassInv
<1>2. PICK D, C, K : Recorded(D, C, K)
  BY DEF PassInv, Reading
<1>3. PICK D2, C2, K2 : Recorded(D2, C2, K2)'
  BY <1>1, <1>2, WriteRecorded
<1>4. /\ stage' = stage /\ pos' = pos /\ scope' = scope /\ current_class' = current_class
      /\ packages' = packages /\ lookup' = lookup /\ attributes' = attributes /\ errors' = errors
      /\ package' = package /\ inner' = inner /\ local_map' = local_map /\ dot_op' = dot_op
      /\ compiled' = compiled /\ resolved' = resolved
  BY DEF Write, Tables, Body
<1>5. Fresh'
  BY <1>1, <1>4 DEF Fresh
<1>6. Collected(D2, C2)' /\ Followed(D2, C2, K2)'
  BY <1>1, <1>4, <1>5 DEF Fresh, Collected, Followed
<1>7. Named(D2, C2, K2)'
  <2>1. local_map' \in Seq(Names \cup {"this"}) /\ DOMAIN resolved' = 1 .. MaxLines
    BY <1>5, EmptyTables DEF Fresh
  <2> QED  BY <1>1, <1>4, <2>1 DEF Named
<1>8. Reading(D2, C2, K2)'
  BY <1>3, <1>6, <1>7 DEF Reading
<1> QED  BY <1>1, <1>4, <1>5, <1>8

LEMMA PassReads ==
  ASSUME PassInv, NEW D, NEW C, NEW K, Reading(D, C, K), Interpret \/ Passes
  PROVE  Reading(D, C, K)' /\ stage' # "write"
<1>1. TypeInv /\ Recorded(D, C, K) /\ History(D, C, K) /\ ("nested" \notin Allowed => Ends(D, C, K))
  BY DEF PassInv, Reading, Recorded
<1>2. UNCHANGED Program
  BY DEF Passes, Interpret, Process_Lookups, EndLookups, Process_Logic, Process_Package, EndLogic
<1>3. Recorded(D, C, K)'
  BY <1>1, <1>2, RecordedStays
<1>4. stage' # "write"
  BY DEF Passes, Interpret, Process_Lookups, EndLookups, Process_Logic, Process_Package, EndLogic
<1>5. ASSUME "text" \notin Allowed PROVE Collected(D, C)'
  <2>1. Collected(D, C)
    BY <1>5 DEF Reading
  <2>2. CASE Interpret
    <3>1. Fresh
      BY <2>2 DEF Interpret, PassInv
    <3> QED  BY <1>1, <2>2, <3>1, InterpretCollected
  <2>3. CASE Process_Lookups
    BY <1>1, <1>5, <2>1, <2>3, LookupsCollected
  <2>4. CASE EndLookups
    BY <1>1, <2>1, <2>4, EndLookupsCollected
  <2>5. CASE Process_Logic \/ Process_Package \/ EndLogic
    <3>1. stage \in {"logic", "done"} /\ stage' \in {"logic", "done"} /\ UNCHANGED Tables
      BY <2>5 DEF Process_Logic, Process_Package, EndLogic
    <3> QED  BY <1>2, <2>1, <3>1, TablesKeptCollected
  <2> QED  BY <2>2, <2>3, <2>4, <2>5 DEF Passes
<1>6. ASSUME "text" \notin Allowed, "nested" \notin Allowed PROVE Followed(D, C, K)'
  <2>1. Followed(D, C, K) /\ Ends(D, C, K)
    BY <1>1, <1>6 DEF Reading
  <2>2. CASE Interpret
    <3>1. Fresh
      BY <2>2 DEF Interpret, PassInv
    <3> QED  BY <1>1, <2>2, <3>1, InterpretCollected
  <2>3. CASE Process_Lookups
    BY <2>1, <2>3, LookupsFollowed
  <2>4. CASE EndLookups
    BY <1>1, <2>1, <2>4, EndLookupsFollowed
  <2>5. CASE Process_Logic
    BY <1>1, <1>6, <2>1, <2>5, LogicFollowed
  <2>6. CASE Process_Package
    BY <1>1, <1>6, <2>1, <2>6, PackageFollowed
  <2>7. CASE EndLogic
    BY <1>1, <2>1, <2>7, EndLogicFollowed
  <2> QED  BY <2>2, <2>3, <2>4, <2>5, <2>6, <2>7 DEF Passes
<1>7. ASSUME Allowed = {} PROVE Named(D, C, K)'
  <2>1. Collected(D, C) /\ Followed(D, C, K) /\ Named(D, C, K)
    BY <1>7 DEF Reading
  <2>2. CASE (Interpret \/ Process_Lookups) \/ (EndLookups \/ EndLogic)
    BY <1>1, <2>1, <2>2, EndsNamed
  <2>3. CASE Process_Logic
    BY <1>1, <1>7, <2>1, <2>3, LogicNamed
  <2>4. CASE Process_Package
    BY <1>1, <1>7, <2>1, <2>4, PackageNamed
  <2> QED  BY <2>2, <2>3, <2>4 DEF Passes
<1> QED  BY <1>3, <1>4, <1>5, <1>6, <1>7 DEF Reading

LEMMA ReadingStays ==
  ASSUME NEW D, NEW C, NEW K, Reading(D, C, K), UNCHANGED vars
  PROVE  Reading(D, C, K)'
<1>1. UNCHANGED Program /\ UNCHANGED <<lines, defs>>
  BY DEF vars, Program
<1>2. Recorded(D, C, K)'
  BY <1>1, RecordedStays DEF Reading
<1>4. ASSUME Collected(D, C) PROVE Collected(D, C)'
  BY <1>4 DEF vars, Collected, Distinct, PackagesAre, MethodsAre, MethodsHidden, AttributesAre, OneSlot, Begun_before
<1>5. ASSUME Followed(D, C, K) PROVE Followed(D, C, K)'
  BY <1>5 DEF vars, Followed, Compiled, In
<1>6. ASSUME Named(D, C, K) PROVE Named(D, C, K)'
  <2>1. UNCHANGED <<lines, defs, attributes, resolved, local_map, stage, pos, errors>>
    BY DEF vars
  <2>2. \A n : (NameFound(C, K, n) => NameFound(C, K, n)') /\ (Local(n)' <=> Local(n))
    BY <2>1, NameStays
  <2>3. LinesNamed(C, K, pos) => LinesNamed(C, K, pos)'
    BY <2>1, <2>2 DEF LinesNamed, SlotsTell
  <2>4. MapNamed(K, pos, K[pos - 1]) => MapNamed(K, pos, K[pos - 1])'
    BY <2>1, <2>2 DEF MapNamed, OneSlot, HasSlot
  <2> QED  BY <1>6, <2>1, <2>3, <2>4 DEF Named
<1> QED  BY <1>2, <1>4, <1>5, <1>6 DEF Reading

LEMMA PassKept == PassInv /\ [Next]_vars => PassInv'
<1> SUFFICES ASSUME PassInv, [Next]_vars
             PROVE  PassInv'
  OBVIOUS
<1>1. TypeInv'
  BY TypeKept DEF PassInv
<1>2. PICK D, C, K : Reading(D, C, K)
  BY DEF PassInv
<1>3. ASSUME NEW l \in Writable, Write(l) PROVE PassInv'
  BY <1>1, <1>3, WriteReads DEF PassInv
<1>4. CASE Interpret \/ Passes
  BY <1>1, <1>2, <1>4, PassReads DEF PassInv
<1>5. CASE UNCHANGED vars
  <2>1. Reading(D, C, K)'
    BY <1>2, <1>5, ReadingStays
  <2>2. stage' = "write" => Fresh'
    BY <1>5 DEF vars, PassInv, Fresh
  <2> QED  BY <1>1, <2>1, <2>2 DEF PassInv
<1> QED  BY <1>3, <1>4, <1>5 DEF Next

(***************************************************************************)
(* What follows for the program.                                           *)
(***************************************************************************)
LEMMA DistinctAll ==
  ASSUME TypeInv, NEW D, NEW C, NEW K, History(D, C, K), Distinct(Len(lines) + 1),
         NEW i \in 1 .. Len(defs), NEW j \in 1 .. Len(defs), i # j,
         defs[i].name = defs[j].name, defs[i].class = defs[j].class
  PROVE  FALSE
<1>1. PICK N \in Nat : N = Len(lines)
  BY DEF TypeInv, ProgramType
<1>2. defs[i].from \in 1 .. N /\ defs[j].from \in 1 .. N
  BY <1>1 DEF History
<1>3. i \in Begun_before(N + 1) /\ j \in Begun_before(N + 1)
  BY <1>2 DEF Begun_before
<1> QED  BY <1>1, <1>3 DEF Distinct

LEMMA ReadingReports ==
  ASSUME PassInv, "text" \notin Allowed
  PROVE  DuplicatesReported
<1>1. SUFFICES ASSUME stage = "done", errors = {}, NEW i \in DOMAIN defs, NEW j \in DOMAIN defs, i # j,
                      defs[i].name = defs[j].name, defs[i].class = defs[j].class
               PROVE  FALSE
  BY DEF DuplicatesReported
<1>2. PICK D, C, K : Reading(D, C, K)
  BY DEF PassInv
<1>3. History(D, C, K) /\ Collected(D, C) /\ TypeInv
  BY <1>2 DEF Reading, Recorded, PassInv
<1>4. Distinct(Len(lines) + 1)
  BY <1>1, <1>3 DEF Collected
<1>5. i \in 1 .. Len(defs) /\ j \in 1 .. Len(defs)
  BY <1>3 DEF TypeInv, ProgramType
<1> QED  BY <1>1, <1>3, <1>4, <1>5, DistinctAll

LEMMA ReadingAgrees ==
  ASSUME PassInv, "text" \notin Allowed, "nested" \notin Allowed
  PROVE  PassesAgree
<1>1. SUFFICES ASSUME stage = "done"
               PROVE  compiled = defs
  BY DEF PassesAgree, Accepted
<1>2. PICK D, C, K : Reading(D, C, K)
  BY DEF PassInv
<1>3. Compiled(Len(defs))
  BY <1>1, <1>2 DEF Reading, Followed
<1>4. defs \in Seq(DefType)
  BY DEF PassInv, TypeInv, ProgramType
<1>5. compiled \in Seq(DefType) /\ Len(compiled) = Len(defs) /\ \A i \in 1 .. Len(compiled) : compiled[i] = defs[i]
  BY <1>3 DEF Compiled
<1> QED  BY <1>4, <1>5, SeqEqual

LEMMA ReadingResolves ==
  ASSUME PassInv, Allowed = {}
  PROVE  NamesResolved
<1>1. SUFFICES ASSUME stage = "done", errors = {}
               PROVE  NamesResolved
  BY DEF NamesResolved, Accepted
<1>2. PICK D, C, K : Reading(D, C, K)
  BY DEF PassInv
<1>3. TypeInv /\ Recorded(D, C, K) /\ History(D, C, K) /\ Collected(D, C) /\ Named(D, C, K)
  BY <1>2 DEF Reading, Recorded, PassInv
<1>4. PICK N \in Nat : N = Len(lines) /\ pos - 1 = N /\ DOMAIN lines = 1 .. N
  BY <1>1, <1>3 DEF Named, TypeInv, ProgramType
<1>5. LinesNamed(C, K, pos)
  BY <1>1, <1>3 DEF Named
<1>6. \A n \in UseLines : n \in 1 .. N /\ NameFound(C, K, n) /\ lines[n].op = "use"
  BY <1>4, <1>5 DEF LinesNamed, UseLines
<1>7. \A n \in UseLines : K[n] \in 1 .. Len(defs) /\ Around(n) = defs[K[n]] /\ Around(n).class = C[n - 1]
  <2>1. ASSUME NEW n \in UseLines
        PROVE  K[n] \in 1 .. Len(defs) /\ Around(n) = defs[K[n]] /\ Around(n).class = C[n - 1]
    <3>1. n \in 1 .. Len(lines) /\ lines[n].op = "use"
      BY <1>4, <1>6
    <3>2. K[n] \in 1 .. Len(defs) /\ defs[K[n]].class = C[n - 1]
      BY <1>6 DEF NameFound
    <3>3. Around(n) = defs[K[n]]
      BY <1>1, <1>3, <3>1, <3>2, AroundIs
    <3> QED  BY <3>2, <3>3
  <2> QED  BY <2>1
<1>8. ASSUME NEW i \in UseLines, NEW j \in UseLines, resolved[i].type = "attribute", resolved[j].type = "attribute",
             Around(i).class = Around(j).class
      PROVE  resolved[i].slot = resolved[j].slot <=> lines[i].name = lines[j].name
  <2>1. PICK c \in Classes : c = C[i - 1] /\ c = C[j - 1]
    BY <1>6, <1>7, <1>8 DEF NameFound
  <2>2. HasSlot(attributes[c], resolved[i].slot, lines[i].name) /\ HasSlot(attributes[c], resolved[j].slot, lines[j].name)
    BY <1>6, <1>8, <2>1 DEF NameFound
  <2>3. OneSlot(attributes[c])
    BY <1>1, <1>3 DEF Collected, AttributesAre
  <2> QED  BY <2>2, <2>3 DEF HasSlot, OneSlot
<1>9. ASSUME NEW i \in UseLines, NEW j \in UseLines, resolved[i].type = "local", resolved[j].type = "local",
             Around(i) = Around(j)
      PROVE  resolved[i].slot = resolved[j].slot <=> lines[i].name = lines[j].name
  <2>1. K[i] = K[j]
    <3>1. PICK a \in 1 .. Len(defs), b \in 1 .. Len(defs) : a = K[i] /\ b = K[j]
      BY <1>7
    <3>2. defs[a].from = defs[b].from
      BY <1>7, <1>9, <3>1
    <3>3. K[defs[a].from] = a /\ K[defs[b].from] = b
      BY <1>3 DEF History
    <3> QED  BY <3>1, <3>2, <3>3
  <2>2. SlotsTell(i, j)
    <3>1. Local(i) /\ Local(j) /\ i \in 1 .. pos - 1 /\ j \in 1 .. pos - 1
      BY <1>4, <1>6, <1>9 DEF Local
    <3> QED  BY <1>5, <2>1, <3>1 DEF LinesNamed
  <2> QED  BY <2>2 DEF SlotsTell
<1>10. \A i \in UseLines :
         /\ resolved[i].type = Meant(i)
         /\ resolved[i].type = "function" =>
              \E d \in Globals : d.name = lines[i].name /\ d.arguments = resolved[i].slot
  BY <1>6 DEF NameFound
<1> QED  BY <1>8, <1>9, <1>10 DEF NamesResolved

(* A function that is defined twice in its class, or twice outside of      *)
(* classes, is reported in every program whose texts are not keywords,     *)
(* however many functions and blocks it nests (Process_Lookups).           *)
THEOREM DuplicatesAlwaysReported ==
  ASSUME "text" \notin Allowed
  PROVE  Spec => []DuplicatesReported
<1>1. Init => PassInv
  BY PassInit
<1>2. PassInv /\ [Next]_vars => PassInv'
  BY PassKept
<1>3. PassInv => DuplicatesReported
  BY ReadingReports
<1> QED  BY <1>1, <1>2, <1>3, PTL DEF Spec

(* The second pass compiles the functions of the program as a reader sees  *)
(* them, each once, in its class, with its arguments and its whole body:   *)
(* the scopes that Process_Logic and Process_Package count agree with the  *)
(* blocks of every program without keyword texts and nested functions.     *)
THEOREM PassesAlwaysAgree ==
  ASSUME "text" \notin Allowed, "nested" \notin Allowed
  PROVE  Spec => []PassesAgree
<1>1. Init => PassInv
  BY PassInit
<1>2. PassInv /\ [Next]_vars => PassInv'
  BY PassKept
<1>3. PassInv => PassesAgree
  BY ReadingAgrees
<1> QED  BY <1>1, <1>2, <1>3, PTL DEF Spec

(* In a program without any of the Habits that the first pass accepts, the *)
(* second finds every name to be what it means: a function with its own    *)
(* number of arguments, a local or an attribute in a slot of its own, that *)
(* every later use of the same name finds again (Lookup_Processing,        *)
(* Process_Lookups, Add_Global_Methods).                                   *)
THEOREM NamesAlwaysResolved ==
  ASSUME Allowed = {}
  PROVE  Spec => []NamesResolved
<1>1. Init => PassInv
  BY PassInit
<1>2. PassInv /\ [Next]_vars => PassInv'
  BY PassKept
<1>3. PassInv => NamesResolved
  BY ReadingResolves
<1> QED  BY <1>1, <1>2, <1>3, PTL DEF Spec
=============================================================================
