--------------------------------- MODULE Jumps ---------------------------------
(***************************************************************************)
(* Jumps and labels of the x86 machine (Machines/x86_Machine.cpp).  A jump *)
(* to a label that is made already is encoded at once, short or far.  A    *)
(* jump to a label that is not leaves room for either form, and Make_Label *)
(* patches the code of every jump that waits for it.                       *)
(*                                                                         *)
(* A cell of the program is a byte with what it stands for; a 32-bit       *)
(* displacement is one cell and three cells of rest.                       *)
(***************************************************************************)
EXTENDS Integers, Sequences

CONSTANTS
  Reach,     (* ADDER_S, the bound of a displacement of one byte            *)
  Sizes,     (* the sizes of instructions that are no jumps                 *)
  MaxCode,   (* bound on the size of the program                            *)
  MaxLabels, (* bound on the number of labels                               *)
  Allowed    (* the Habits of the code that uses the machine                *)

(* What the compiler does not do: make the label of a short jump out of    *)
(* its reach; put a short jump behind anything but a comparison, whose     *)
(* last byte belongs to an address and is no NOP; jump back on a condition.*)
Habits == {"far", "nop", "back"}

ASSUME JumpsAssumption ==
  /\ Reach \in Nat /\ Reach >= 4 /\ MaxCode \in Nat /\ MaxLabels \in Nat
  /\ Sizes \subseteq Nat \ {0} /\ Allowed \subseteq Habits

VARIABLES
  p,      (* where the next instruction goes                                *)
  mem,    (* the cells of the program                                       *)
  cls,    (* the addresses of the labels, 0 until they are made             *)
  cjs,    (* the jumps forward: label, adr, loc, and as history if they are *)
          (* conditional                                                    *)
  back,   (* history: the jumps back                                        *)
  other   (* history: the other instructions                                *)

vars == <<p, mem, cls, cjs, back, other>>

Addresses == 1 .. MaxCode
Labels    == DOMAIN cls
-----------------------------------------------------------------------------
(* Cells.                                                                  *)
Nop     == <<"NOP", 0>>
Prefix  == <<"0F", 0>>
Rest    == <<"rest", 0>>
Unused  == <<"unused", 0>>
Byte(d) == <<"byte", d>>
Word(d) == <<"word", d>>
Op(a)   == <<"op", a>>           (* a byte of the instruction at a          *)

Short(cond) == IF cond THEN <<"Jcc", 0>> ELSE <<"CODE_JMP", 0>>
Far(cond)   == IF cond THEN <<"Jcc + 10", 0>> ELSE <<"CODE_FAR_JMP", 0>>

IsLong(j) == j.loc = j.adr + 1

First(j) == j.adr - 1
Last(j)  == IF IsLong(j) THEN j.loc + 3 ELSE j.loc

(* The program with the cells of patch written over it.                    *)
Written(patch) == [a \in Addresses |-> IF a \in DOMAIN patch THEN patch[a] ELSE mem[a]]
-----------------------------------------------------------------------------
(* What Make_Label writes for jump j when its label is at address l.       *)
Distance(j, l) == l - j.adr - 1

(* Faulty: the boundary is off by one on the wrong side.                   *)
Near_off(j, l) == Distance(j, l) < Reach + 2

Near(j, l) == Distance(j, l) < Reach

(* Faulty: every jump is taken to have room for the far form.              *)
HasNop_all(j) == TRUE

HasNop(j) == mem[j.loc - 2] = Nop

(* The cells from j.loc on, or those of a far jump, its opcode included.   *)
Patch(j, l) ==
  IF Near(j, l)
  THEN IF HasNop(j)
       THEN [a \in j.loc .. j.loc + 3 |-> IF a = j.loc THEN Byte(Distance(j, l) - 1) ELSE Nop]
       ELSE [a \in {j.loc} |-> Byte(Distance(j, l))]
  ELSE [a \in (IF j.cond THEN j.loc - 2 ELSE j.loc - 1) .. j.loc + 3 |->
          IF a = j.loc - 2 THEN Prefix
          ELSE IF a = j.loc - 1 THEN Far(j.cond)
          ELSE IF a = j.loc THEN Word(Distance(j, l) - 4) ELSE Rest]

Waiting(label) == {j \in cjs : j.lab = label}

Make_Label(label) ==
  /\ cls[label] = 0
  /\ "far" \in Allowed \/ \A j \in Waiting(label) : IsLong(j) \/ Near(j, p)
  /\ cls' = [cls EXCEPT ![label] = p]
  /\ mem' = [a \in Addresses |->
               IF \E j \in Waiting(label) : a \in DOMAIN Patch(j, p)
               THEN Patch(CHOOSE j \in Waiting(label) : a \in DOMAIN Patch(j, p), p)[a]
               ELSE mem[a]]
  /\ UNCHANGED <<p, cjs, back, other>>

Reserve_Label ==
  /\ Len(cls) < MaxLabels
  /\ cls' = Append(cls, 0)
  /\ UNCHANGED <<p, mem, cjs, back, other>>

(* Label_Management, when the label is made: the opcode is at p.           *)
JumpBack(label, cond) ==
  LET offset == p + 1 - cls[label]
      near == offset + 1 < Reach
  IN /\ cls[label] # 0
     /\ cond => "back" \in Allowed
     /\ p + (IF near THEN 2 ELSE 5) <= MaxCode + 1
     /\ mem' = Written(IF near THEN [a \in p .. p + 1 |-> IF a = p THEN Short(cond) ELSE Byte(-(offset + 1))]
                       ELSE [a \in p .. p + 4 |-> IF a = p THEN Far(FALSE)
                                               ELSE IF a = p + 1 THEN Word(-(offset + 4)) ELSE Rest])
     /\ p' = p + (IF near THEN 2 ELSE 5)
     /\ back' = back \cup {[at |-> p, size |-> IF near THEN 2 ELSE 5, lab |-> label, cond |-> cond]}
     /\ UNCHANGED <<cls, cjs, other>>

(* Faulty: the NOP is not counted.                                         *)
JumpLong_tight(label, cond) ==
  /\ cls[label] = 0
  /\ p + 6 <= MaxCode + 1
  /\ mem' = Written([a \in p .. p + 1 |-> IF a = p THEN Nop ELSE Short(cond)])
  /\ p' = p + 5
  /\ cjs' = cjs \cup {[lab |-> label, adr |-> p + 1, loc |-> p + 2, cond |-> cond]}
  /\ UNCHANGED <<cls, back, other>>

(* Label_Management, when it is not: a NOP leaves room for the prefix.     *)
JumpLong(label, cond) ==
  /\ cls[label] = 0
  /\ p + 6 <= MaxCode + 1
  /\ mem' = Written([a \in p .. p + 1 |-> IF a = p THEN Nop ELSE Short(cond)])
  /\ p' = p + 6
  /\ cjs' = cjs \cup {[lab |-> label, adr |-> p + 1, loc |-> p + 2, cond |-> cond]}
  /\ UNCHANGED <<cls, back, other>>

JumpShort(label, cond) ==
  /\ cls[label] = 0
  /\ p > 1 /\ p + 2 <= MaxCode + 1
  /\ "nop" \in Allowed \/ \E o \in other : o.at + o.size = p
  /\ mem' = Written([a \in {p} |-> Short(cond)])
  /\ p' = p + 2
  /\ cjs' = cjs \cup {[lab |-> label, adr |-> p + 1, loc |-> p + 1, cond |-> cond]}
  /\ UNCHANGED <<cls, back, other>>

(* Any other instruction.                                                  *)
Emit(size) ==
  /\ p + size <= MaxCode + 1
  /\ mem' = Written([a \in p .. p + size - 1 |-> Op(p)])
  /\ p' = p + size
  /\ other' = other \cup {[at |-> p, size |-> size]}
  /\ UNCHANGED <<cls, cjs, back>>

Init ==
  /\ p = 1 /\ mem = [a \in Addresses |-> Unused]
  /\ cls = <<>> /\ cjs = {} /\ back = {} /\ other = {}

Next ==
  \/ Reserve_Label
  \/ \E label \in Labels :
       \/ Make_Label(label)
       \/ \E cond \in BOOLEAN : JumpBack(label, cond) \/ JumpLong(label, cond) \/ JumpShort(label, cond)
  \/ \E size \in Sizes : Emit(size)

Spec == Init /\ [][Next]_vars
-----------------------------------------------------------------------------
(* Every variable has its type: labels, jumps and instructions are made    *)
(* of code that is written already.                                        *)
TypeOK ==
  /\ p \in 1 .. MaxCode + 1
  /\ cls \in Seq(Nat) /\ \A l \in Labels : cls[l] <= p
  /\ cjs \subseteq [lab : Nat, adr : Nat, loc : Nat, cond : BOOLEAN]
  /\ \A j \in cjs : j.lab \in Labels /\ j.loc \in {j.adr, j.adr + 1} /\ 1 <= First(j) /\ Last(j) < p
  /\ back \subseteq [at : Nat, size : {2, 5}, lab : Nat, cond : BOOLEAN]
  /\ \A b \in back : b.lab \in Labels /\ cls[b.lab] # 0 /\ 1 <= b.at /\ b.at + b.size <= p
  /\ other \subseteq [at : Nat, size : Nat]
  /\ \A o \in other : 1 <= o.at /\ o.size > 0 /\ o.at + o.size <= p

(* The instruction at a is a jump to address l, in either form.            *)
ShortTo(a, cond, l) ==
  LET d == l - (a + 2)
  IN mem[a] = Short(cond) /\ mem[a + 1] = Byte(d) /\ -Reach <= d /\ d <= Reach

FarTo(a, cond, l) ==
  IF cond
  THEN /\ mem[a] = Prefix /\ mem[a + 1] = Far(TRUE) /\ mem[a + 2] = Word(l - (a + 6))
       /\ \A b \in a + 3 .. a + 5 : mem[b] = Rest
  ELSE /\ mem[a] = Far(FALSE) /\ mem[a + 1] = Word(l - (a + 5))
       /\ \A b \in a + 2 .. a + 4 : mem[b] = Rest

(* Execution that reaches jump j goes to address l, or, if the jump is     *)
(* conditional and not taken, to what follows its cells.                   *)
Lands(j, l) ==
  IF IsLong(j)
  THEN \/ /\ mem[First(j)] = Nop /\ ShortTo(j.adr, j.cond, l)
          /\ \A a \in j.loc + 1 .. j.loc + 3 : mem[a] = Nop
       \/ ~j.cond /\ mem[First(j)] = Nop /\ FarTo(j.adr, FALSE, l)
       \/ j.cond /\ FarTo(First(j), TRUE, l)
  ELSE ShortTo(First(j), j.cond, l)

LandsBack(b, l) == IF b.size = 2 THEN ShortTo(b.at, b.cond, l) ELSE ~b.cond /\ FarTo(b.at, FALSE, l)

(* Every jump to a label that is made goes there, whatever lies between    *)
(* and in whatever order labels and jumps were made (Make_Label,           *)
(* Label_Management).                                                      *)
JumpsLand ==
  /\ \A j \in cjs : cls[j.lab] # 0 => Lands(j, cls[j.lab])
  /\ \A b \in back : LandsBack(b, cls[b.lab])

(* Patching a jump changes no other instruction (Make_Label).              *)
CodeKept == \A o \in other : \A a \in o.at .. o.at + o.size - 1 : mem[a] = Op(o.at)
=============================================================================
