------------------------------ MODULE JumpsProofs ------------------------------
(***************************************************************************)
(* Theorems about Jumps, for every reach of a short jump, every size of    *)
(* the program and every number of labels: type correctness for every      *)
(* program; for a program without any of the Habits, that jumps land and   *)
(* that patching them keeps the code.                                      *)
(***************************************************************************)
EXTENDS Jumps, SequenceTheorems, TLAPS

(* What tells cells apart. *)
LEMMA CellsDiffer ==
  /\ \A a : Op(a) # Nop
  /\ \A c \in BOOLEAN : Short(c) # Nop
BY DEF Op, Nop, Short

LEMMA LabelsOf ==
  ASSUME cls \in Seq(Nat)
  PROVE  Len(cls) \in Nat /\ Labels = 1 .. Len(cls) /\ \A l \in Labels : cls[l] \in Nat
BY LenProperties, ElementOfSeq DEF Labels
-----------------------------------------------------------------------------
LEMMA ReserveType ==
  ASSUME TypeOK, Reserve_Label
  PROVE  TypeOK'
<1>1. Len(cls) \in Nat /\ Labels = 1 .. Len(cls)
  BY LabelsOf DEF TypeOK
<1>2. /\ cls' \in Seq(Nat) /\ Len(cls') = Len(cls) + 1
      /\ \A i \in 1 .. Len(cls) : cls'[i] = cls[i]
      /\ cls'[Len(cls) + 1] = 0
  BY AppendProperties DEF TypeOK, Reserve_Label
<1>3. Labels' = 1 .. Len(cls) + 1
  BY <1>2, LenProperties DEF Labels
<1>4. \A l \in Labels' : cls'[l] <= p'
  BY <1>1, <1>2, <1>3 DEF TypeOK, Reserve_Label
<1> QED  BY <1>1, <1>2, <1>3, <1>4 DEF TypeOK, Reserve_Label, First, Last, IsLong

LEMMA MakeType ==
  ASSUME TypeOK, NEW label \in Labels, Make_Label(label)
  PROVE  TypeOK'
<1>1. Len(cls) \in Nat /\ Labels = 1 .. Len(cls) /\ p \in Nat /\ p # 0
  BY LabelsOf DEF TypeOK
<1>2. /\ cls' \in Seq(Nat) /\ Len(cls') = Len(cls)
      /\ \A i \in 1 .. Len(cls) : cls'[i] = IF i = label THEN p ELSE cls[i]
  BY <1>1, ExceptSeq DEF TypeOK, Make_Label
<1>3. Labels' = Labels
  BY <1>1, <1>2, LenProperties DEF Labels
<1> QED  BY <1>1, <1>2, <1>3 DEF TypeOK, Make_Label, First, Last, IsLong

(* The steps that write an instruction. *)
LEMMA EmitType ==
  ASSUME TypeOK, NEW size \in Sizes, Emit(size)
  PROVE  TypeOK'
<1>1. size \in Nat /\ size > 0 /\ MaxCode \in Nat /\ p \in Nat
  BY JumpsAssumption DEF TypeOK
<1>2. p' = p + size /\ p' \in 1 .. MaxCode + 1 /\ UNCHANGED <<cls, cjs, back>>
  BY <1>1 DEF TypeOK, Emit
<1>3. [at |-> p, size |-> size] \in [at : Nat, size : Nat]
  BY <1>1
<1>4. \A l \in Labels : cls[l] \in Nat
  BY LabelsOf DEF TypeOK
<1>5. other' = other \cup {[at |-> p, size |-> size]}
  BY DEF Emit
<1>6. /\ other' \subseteq [at : Nat, size : Nat]
      /\ \A o \in other' : 1 <= o.at /\ o.size > 0 /\ o.at + o.size <= p'
  BY <1>1, <1>2, <1>3, <1>5 DEF TypeOK
<1> QED  BY <1>1, <1>2, <1>4, <1>6 DEF TypeOK, Labels, First, Last, IsLong

LEMMA BackType ==
  ASSUME TypeOK, NEW label \in Labels, NEW cond \in BOOLEAN, JumpBack(label, cond)
  PROVE  TypeOK'
<1>1. MaxCode \in Nat /\ p \in Nat /\ label \in Nat /\ \A l \in Labels : cls[l] \in Nat
  BY JumpsAssumption, LabelsOf DEF TypeOK
<1>2. PICK size \in {2, 5} :
        /\ p' = p + size /\ p + size <= MaxCode + 1
        /\ back' = back \cup {[at |-> p, size |-> size, lab |-> label, cond |-> cond]}
        /\ UNCHANGED <<cls, cjs, other>> /\ cls[label] # 0
  BY DEF JumpBack
<1>3. /\ back' \subseteq [at : Nat, size : {2, 5}, lab : Nat, cond : BOOLEAN]
      /\ \A b \in back' : b.lab \in Labels /\ cls[b.lab] # 0 /\ 1 <= b.at /\ b.at + b.size <= p'
  BY <1>1, <1>2 DEF TypeOK
<1>4. \A j \in cjs : Last(j) < p'
  BY <1>1, <1>2 DEF TypeOK, Last, IsLong
<1>5. p' \in 1 .. MaxCode + 1 /\ \A l \in Labels : cls[l] <= p'
  BY <1>1, <1>2 DEF TypeOK
<1>6. \A o \in other : o.at + o.size <= p'
  BY <1>1, <1>2 DEF TypeOK
<1> QED  BY <1>2, <1>3, <1>4, <1>5, <1>6 DEF TypeOK, Labels, First, Last, IsLong

LEMMA LongType ==
  ASSUME TypeOK, NEW label \in Labels, NEW cond \in BOOLEAN, JumpLong(label, cond)
  PROVE  TypeOK'
<1>1. MaxCode \in Nat /\ p \in Nat /\ p >= 1 /\ label \in Nat /\ \A l \in Labels : cls[l] \in Nat
  BY JumpsAssumption, LabelsOf DEF TypeOK
<1> DEFINE j == [lab |-> label, adr |-> p + 1, loc |-> p + 2, cond |-> cond]
<1>2. /\ p' = p + 6 /\ p + 6 <= MaxCode + 1
      /\ cjs' = cjs \cup {j} /\ UNCHANGED <<cls, back, other>>
  BY DEF JumpLong
<1>3. j \in [lab : Nat, adr : Nat, loc : Nat, cond : BOOLEAN]
  BY <1>1
<1>4. j.lab \in Labels /\ j.loc \in {j.adr, j.adr + 1} /\ 1 <= First(j) /\ Last(j) < p'
  BY <1>1, <1>2 DEF First, Last, IsLong
<1>5. /\ cjs' \subseteq [lab : Nat, adr : Nat, loc : Nat, cond : BOOLEAN]
      /\ \A k \in cjs' : k.lab \in Labels /\ k.loc \in {k.adr, k.adr + 1} /\ 1 <= First(k) /\ Last(k) < p'
  <2>1. \A k \in cjs : Last(k) < p'
    BY <1>1, <1>2 DEF TypeOK, Last, IsLong
  <2> HIDE DEF j
  <2> QED  BY <2>1, <1>2, <1>3, <1>4 DEF TypeOK
<1>6. p' \in 1 .. MaxCode + 1 /\ \A l \in Labels : cls[l] <= p'
  BY <1>1, <1>2 DEF TypeOK
<1>7. \A b \in back : b.at + b.size <= p'
  BY <1>1, <1>2 DEF TypeOK
<1>8. \A o \in other : o.at + o.size <= p'
  BY <1>1, <1>2 DEF TypeOK
<1> QED  BY <1>2, <1>5, <1>6, <1>7, <1>8 DEF TypeOK, Labels, First, Last, IsLong

LEMMA ShortType ==
  ASSUME TypeOK, NEW label \in Labels, NEW cond \in BOOLEAN, JumpShort(label, cond)
  PROVE  TypeOK'
<1>1. MaxCode \in Nat /\ p \in Nat /\ p >= 1 /\ label \in Nat /\ \A l \in Labels : cls[l] \in Nat
  BY JumpsAssumption, LabelsOf DEF TypeOK
<1> DEFINE j == [lab |-> label, adr |-> p + 1, loc |-> p + 1, cond |-> cond]
<1>2. /\ p' = p + 2 /\ p + 2 <= MaxCode + 1
      /\ cjs' = cjs \cup {j} /\ UNCHANGED <<cls, back, other>>
  BY DEF JumpShort
<1>3. j \in [lab : Nat, adr : Nat, loc : Nat, cond : BOOLEAN]
  BY <1>1
<1>4. j.lab \in Labels /\ j.loc \in {j.adr, j.adr + 1} /\ 1 <= First(j) /\ Last(j) < p'
  BY <1>1, <1>2 DEF First, Last, IsLong
<1>5. /\ cjs' \subseteq [lab : Nat, adr : Nat, loc : Nat, cond : BOOLEAN]
      /\ \A k \in cjs' : k.lab \in Labels /\ k.loc \in {k.adr, k.adr + 1} /\ 1 <= First(k) /\ Last(k) < p'
  <2>1. \A k \in cjs : Last(k) < p'
    BY <1>1, <1>2 DEF TypeOK, Last, IsLong
  <2> HIDE DEF j
  <2> QED  BY <2>1, <1>2, <1>3, <1>4 DEF TypeOK
<1>6. p' \in 1 .. MaxCode + 1 /\ \A l \in Labels : cls[l] <= p'
  BY <1>1, <1>2 DEF TypeOK
<1>7. \A b \in back : b.at + b.size <= p'
  BY <1>1, <1>2 DEF TypeOK
<1>8. \A o \in other : o.at + o.size <= p'
  BY <1>1, <1>2 DEF TypeOK
<1> QED  BY <1>2, <1>5, <1>6, <1>7, <1>8 DEF TypeOK, Labels, First, Last, IsLong

(* Labels, jumps and instructions are made of code that is written         *)
(* already, whatever the program does (x86_Machine).                       *)
THEOREM TypeCorrect == Spec => []TypeOK
<1>1. Init => TypeOK
  <2> SUFFICES ASSUME Init PROVE TypeOK
    OBVIOUS
  <2>1. cls \in Seq(Nat) /\ Labels = 1 .. 0
    BY EmptySeq, LenProperties DEF Init, Labels
  <2>2. p \in 1 .. MaxCode + 1
    BY JumpsAssumption DEF Init
  <2> QED  BY <2>1, <2>2 DEF Init, TypeOK
<1>2. TypeOK /\ [Next]_vars => TypeOK'
  <2> SUFFICES ASSUME TypeOK, [Next]_vars PROVE TypeOK'
    OBVIOUS
  <2>1. CASE Reserve_Label
    BY <2>1, ReserveType
  <2>2. ASSUME NEW label \in Labels, Make_Label(label) PROVE TypeOK'
    BY <2>2, MakeType
  <2>3. ASSUME NEW label \in Labels, NEW cond \in BOOLEAN,
               JumpBack(label, cond) \/ JumpLong(label, cond) \/ JumpShort(label, cond)
        PROVE  TypeOK'
    BY <2>3, BackType, LongType, ShortType
  <2>4. ASSUME NEW size \in Sizes, Emit(size) PROVE TypeOK'
    BY <2>4, EmitType
  <2>5. CASE UNCHANGED vars
    BY <2>5 DEF vars, TypeOK, Labels, First, Last, IsLong
  <2> QED  BY <2>1, <2>2, <2>3, <2>4, <2>5 DEF Next
<1> QED  BY <1>1, <1>2, PTL DEF Spec
-----------------------------------------------------------------------------
(* What is true of the code besides: jumps forward overlap nothing, a      *)
(* short one follows another instruction, and one whose label is not made  *)
(* is still as it was written.                                             *)
Apart ==
  /\ \A j, k \in cjs : j # k => Last(j) < First(k) \/ Last(k) < First(j)
  /\ \A j \in cjs, b \in back : Last(j) < b.at \/ b.at + b.size <= First(j)
  /\ \A j \in cjs, o \in other : Last(j) < o.at \/ o.at + o.size <= First(j)

Behind == \A j \in cjs : ~IsLong(j) => \E o \in other : o.at + o.size = First(j)

Raw(j) ==
  IF IsLong(j) THEN mem[First(j)] = Nop /\ mem[j.adr] = Short(j.cond)
  ELSE mem[First(j)] = Short(j.cond)

Waits == \A j \in cjs : cls[j.lab] = 0 => Raw(j)

Disciplined == TypeOK /\ Apart /\ Behind /\ Waits /\ CodeKept /\ JumpsLand

LEMMA JumpType ==
  ASSUME TypeOK, NEW j \in cjs
  PROVE  /\ j.adr \in Nat /\ j.loc \in Nat /\ j.cond \in BOOLEAN /\ j.lab \in Labels
         /\ First(j) = j.adr - 1 /\ First(j) >= 1 /\ Last(j) < p /\ p \in Nat /\ p <= MaxCode + 1
         /\ IsLong(j) => j.loc = j.adr + 1 /\ Last(j) = j.loc + 3
         /\ ~IsLong(j) => j.loc = j.adr /\ Last(j) = j.loc
         /\ First(j) .. Last(j) \subseteq 1 .. p - 1 /\ 1 .. p - 1 \subseteq Addresses
<1>1. MaxCode \in Nat
  BY JumpsAssumption
<1>2. /\ j.adr \in Nat /\ j.loc \in Nat /\ j.cond \in BOOLEAN /\ j.lab \in Labels
      /\ j.loc \in {j.adr, j.adr + 1} /\ 1 <= First(j) /\ Last(j) < p /\ p \in 1 .. MaxCode + 1
  BY DEF TypeOK
<1> QED  BY <1>1, <1>2 DEF First, Last, IsLong, Addresses

(* A step that leaves the cells of a jump alone leaves alone where it lands. *)
LEMMA LandsKept ==
  ASSUME TypeOK, NEW j \in cjs, \A a \in First(j) .. Last(j) : mem'[a] = mem[a], NEW l \in Nat
  PROVE  /\ Lands(j, l) => Lands(j, l)'
         /\ Raw(j) => Raw(j)'
<1>1. CASE IsLong(j)
  <2>1. /\ j.adr = First(j) + 1 /\ j.loc = First(j) + 2 /\ Last(j) = First(j) + 5 /\ First(j) \in Nat
    BY <1>1, JumpType
  <2>2. \A i \in 0 .. 5 : mem'[First(j) + i] = mem[First(j) + i]
    BY <2>1
  <2>3. /\ ShortTo(j.adr, j.cond, l) => ShortTo(j.adr, j.cond, l)'
        /\ FarTo(j.adr, FALSE, l) => FarTo(j.adr, FALSE, l)'
        /\ FarTo(First(j), TRUE, l) => FarTo(First(j), TRUE, l)'
    <3>1. \A a \in j.adr + 2 .. j.adr + 4 : mem'[a] = mem[a]
      BY <2>1
    <3>2. \A a \in First(j) + 3 .. First(j) + 5 : mem'[a] = mem[a]
      BY <2>1
    <3>3. /\ mem'[First(j)] = mem[First(j)] /\ mem'[j.adr] = mem[j.adr]
          /\ mem'[j.adr + 1] = mem[j.adr + 1]
          /\ mem'[First(j) + 1] = mem[First(j) + 1] /\ mem'[First(j) + 2] = mem[First(j) + 2]
      BY <2>1
    <3> QED  BY <3>1, <3>2, <3>3 DEF ShortTo, FarTo, First
  <2>4. \A a \in j.loc + 1 .. j.loc + 3 : mem'[a] = mem[a]
    BY <2>1
  <2>5. mem'[First(j)] = mem[First(j)] /\ mem'[j.adr] = mem[j.adr]
    BY <2>1
  <2> QED  BY <1>1, <2>3, <2>4, <2>5 DEF Lands, Raw, IsLong, First
<1>2. CASE ~IsLong(j)
  <2>1. Last(j) = First(j) + 1 /\ First(j) \in Nat
    BY <1>2, JumpType
  <2>2. mem'[First(j)] = mem[First(j)] /\ mem'[First(j) + 1] = mem[First(j) + 1]
    BY <2>1
  <2> QED  BY <1>2, <2>2 DEF Lands, Raw, ShortTo, IsLong, First
<1> QED  BY <1>1, <1>2

LEMMA LandsBackKept ==
  ASSUME NEW b, b.at \in Nat, b.size \in {2, 5}, b.cond \in BOOLEAN,
         \A a \in b.at .. b.at + b.size - 1 : mem'[a] = mem[a], NEW l \in Nat
  PROVE  LandsBack(b, l) => LandsBack(b, l)'
<1>1. mem'[b.at] = mem[b.at] /\ mem'[b.at + 1] = mem[b.at + 1]
  OBVIOUS
<1>2. CASE b.size = 2
  BY <1>1, <1>2 DEF LandsBack, ShortTo
<1>3. CASE b.size = 5
  <2>1. \A a \in b.at + 2 .. b.at + 4 : mem'[a] = mem[a]
    BY <1>3
  <2>2. FarTo(b.at, FALSE, l) => FarTo(b.at, FALSE, l)'
    BY <1>1, <2>1 DEF FarTo
  <2>3. b.size # 2
    BY <1>3
  <2> QED  BY <2>2, <2>3, Zenon DEF LandsBack
<1> QED  BY <1>2, <1>3

(* A step that only writes behind the code keeps what is true of it. *)
LEMMA CodeGrows ==
  ASSUME Disciplined, cls' = cls, \A a \in 1 .. p - 1 : mem'[a] = mem[a]
  PROVE  /\ \A j \in cjs : cls[j.lab] = 0 => Raw(j)'
         /\ \A j \in cjs : cls[j.lab] # 0 => Lands(j, cls[j.lab])'
         /\ \A b \in back : LandsBack(b, cls[b.lab])'
         /\ \A o \in other : \A a \in o.at .. o.at + o.size - 1 : mem'[a] = Op(o.at)
<1> USE DEF Disciplined
<1>1. \A l \in Labels : cls[l] \in Nat
  BY LabelsOf DEF TypeOK
<1>2. ASSUME NEW j \in cjs
      PROVE  /\ cls[j.lab] = 0 => Raw(j)'
             /\ cls[j.lab] # 0 => Lands(j, cls[j.lab])'
  <2>1. \A a \in First(j) .. Last(j) : mem'[a] = mem[a]
    BY JumpType
  <2>2. j.lab \in Labels /\ cls[j.lab] \in Nat
    BY <1>1, JumpType
  <2>3. \A l \in Nat : Lands(j, l) => Lands(j, l)'
    BY <2>1, LandsKept
  <2>4. Raw(j) => Raw(j)'
    BY <2>1, LandsKept
  <2>5. cls[j.lab] # 0 => Lands(j, cls[j.lab])
    BY DEF JumpsLand
  <2>6. cls[j.lab] = 0 => Raw(j)
    BY DEF Waits
  <2> QED  BY <2>2, <2>3, <2>4, <2>5, <2>6
<1>3. ASSUME NEW b \in back
      PROVE  LandsBack(b, cls[b.lab])'
  <2>1. /\ b.at \in Nat /\ b.size \in {2, 5} /\ b.cond \in BOOLEAN
        /\ b.at + b.size <= p /\ 1 <= b.at /\ cls[b.lab] \in Nat /\ p \in Nat
    BY <1>1 DEF TypeOK
  <2>2. \A a \in b.at .. b.at + b.size - 1 : mem'[a] = mem[a]
    BY <2>1
  <2>3. \A l \in Nat : LandsBack(b, l) => LandsBack(b, l)'
    BY <2>1, <2>2, LandsBackKept
  <2> QED  BY <2>1, <2>3 DEF JumpsLand
<1>4. ASSUME NEW o \in other, NEW a \in o.at .. o.at + o.size - 1
      PROVE  mem'[a] = Op(o.at)
  <2>1. o.at \in Nat /\ o.size \in Nat /\ 1 <= o.at /\ o.at + o.size <= p /\ p \in Nat
    BY DEF TypeOK
  <2>2. a \in 1 .. p - 1
    BY <2>1
  <2> QED  BY <2>2 DEF CodeKept
<1> QED  BY <1>2, <1>3, <1>4
-----------------------------------------------------------------------------
LEMMA EmitKept ==
  ASSUME Disciplined, NEW size \in Sizes, Emit(size)
  PROVE  Disciplined'
<1> USE DEF Disciplined
<1> DEFINE o == [at |-> p, size |-> size]
<1>1. TypeOK'
  BY EmitType
<1>2. /\ size \in Nat /\ size > 0 /\ MaxCode \in Nat /\ p \in Nat /\ p + size <= MaxCode + 1 /\ p >= 1
      /\ mem' = [a \in Addresses |-> IF a \in p .. p + size - 1 THEN Op(p) ELSE mem[a]]
      /\ other' = other \cup {o} /\ UNCHANGED <<cls, cjs, back>>
  BY JumpsAssumption DEF TypeOK, Emit, Written
<1>3. /\ \A a \in 1 .. p - 1 : mem'[a] = mem[a]
      /\ \A a \in p .. p + size - 1 : mem'[a] = Op(p)
  BY <1>2 DEF Addresses
<1>4. Apart'
  <2>1. \A j \in cjs : Last(j) < o.at
    BY <1>2, JumpType
  <2> HIDE DEF o
  <2> QED  BY <1>2, <2>1 DEF Apart, First, Last, IsLong
<1>5. Behind'
  BY <1>2 DEF Behind, First, IsLong
<1>6. Waits' /\ JumpsLand'
  BY <1>2, <1>3, CodeGrows DEF Waits, JumpsLand
<1>7. CodeKept'
  <2>1. \A x \in other : \A a \in x.at .. x.at + x.size - 1 : mem'[a] = Op(x.at)
    BY <1>2, <1>3, CodeGrows
  <2>2. \A a \in o.at .. o.at + o.size - 1 : mem'[a] = Op(o.at)
    BY <1>3
  <2> HIDE DEF o
  <2> QED  BY <1>2, <2>1, <2>2 DEF CodeKept
<1> QED  BY <1>1, <1>4, <1>5, <1>6, <1>7

LEMMA BackKept ==
  ASSUME Disciplined, Allowed = {}, NEW label \in Labels, NEW cond \in BOOLEAN, JumpBack(label, cond)
  PROVE  Disciplined'
<1> USE DEF Disciplined
<1>1. TypeOK'
  BY BackType
<1>2. /\ MaxCode \in Nat /\ Reach \in Nat /\ p \in Nat /\ p >= 1 /\ cls[label] \in Nat /\ cls[label] <= p
      /\ cond = FALSE /\ UNCHANGED <<cls, cjs, other>>
  BY JumpsAssumption, LabelsOf DEF TypeOK, JumpBack
<1>p. PICK q \in Nat : q = p
  BY <1>2
<1>l. PICK l \in Nat : l = cls[label] /\ l # 0
  BY <1>2 DEF JumpBack
<1>3. PICK size \in {2, 5} :
        /\ q + size <= MaxCode + 1
        /\ back' = back \cup {[at |-> q, size |-> size, lab |-> label, cond |-> cond]}
        /\ \A a \in 1 .. q - 1 : mem'[a] = mem[a]
        /\ LandsBack([at |-> q, size |-> size, lab |-> label, cond |-> cond], l)'
  <2>1. CASE q + 1 - l + 1 < Reach
    <3>1. /\ q + 2 <= MaxCode + 1
          /\ mem' = Written([a \in q .. q + 1 |->
                       IF a = q THEN Short(cond) ELSE Byte(-(q + 1 - l + 1))])
          /\ back' = back \cup {[at |-> q, size |-> 2, lab |-> label, cond |-> cond]}
      BY <1>p, <1>l, <2>1 DEF JumpBack
    <3>2. /\ mem'[q] = Short(cond) /\ mem'[q + 1] = Byte(-(q + 1 - l + 1))
          /\ \A a \in 1 .. q - 1 : mem'[a] = mem[a]
      BY <1>2, <1>p, <3>1 DEF Written, Addresses
    <3>3. l - (q + 2) = -(q + 1 - l + 1)
      OBVIOUS
    <3>4. ShortTo(q, cond, l)'
      BY <1>2, <1>p, <1>l, <2>1, <3>2, <3>3 DEF ShortTo
    <3> QED  BY <3>1, <3>2, <3>4 DEF LandsBack
  <2>2. CASE ~(q + 1 - l + 1 < Reach)
    <3>1. /\ q + 5 <= MaxCode + 1
          /\ mem' = Written([a \in q .. q + 4 |-> IF a = q THEN Far(FALSE)
                                                   ELSE IF a = q + 1 THEN Word(-(q + 1 - l + 4)) ELSE Rest])
          /\ back' = back \cup {[at |-> q, size |-> 5, lab |-> label, cond |-> cond]}
      BY <1>p, <1>l, <2>2 DEF JumpBack
    <3>2. /\ mem'[q] = Far(FALSE) /\ mem'[q + 1] = Word(-(q + 1 - l + 4))
          /\ \A a \in q + 2 .. q + 4 : mem'[a] = Rest
          /\ \A a \in 1 .. q - 1 : mem'[a] = mem[a]
      <4>1. \A a \in Addresses : mem'[a] = IF a \in q .. q + 4
                                           THEN IF a = q THEN Far(FALSE)
                                                ELSE IF a = q + 1 THEN Word(-(q + 1 - l + 4)) ELSE Rest
                                           ELSE mem[a]
        BY <3>1 DEF Written
      <4>2. 1 .. q + 4 \subseteq Addresses /\ q \in Addresses /\ q + 1 \in Addresses
        BY <1>2, <1>p, <3>1 DEF Addresses
      <4>3. mem'[q] = Far(FALSE)
        BY <4>1, <4>2 DEF Far
      <4>4. mem'[q + 1] = Word(-(q + 1 - l + 4))
        BY <4>1, <4>2 DEF Far
      <4>5. \A a \in q + 2 .. q + 4 : mem'[a] = Rest
        BY <4>1, <4>2 DEF Far
      <4>6. \A a \in 1 .. q - 1 : mem'[a] = mem[a]
        BY <4>1, <4>2 DEF Far
      <4> QED  BY <4>3, <4>4, <4>5, <4>6
    <3>3. l - (q + 5) = -(q + 1 - l + 4)
      OBVIOUS
    <3>4. FarTo(q, FALSE, l)'
      BY <1>2, <3>2, <3>3 DEF FarTo
    <3> DEFINE r == [at |-> q, size |-> 5, lab |-> label, cond |-> cond]
    <3>5. r.size # 2 /\ ~r.cond /\ r.at = q
      BY <1>2
    <3>6. LandsBack(r, l)'
      <4> HIDE DEF r
      <4> QED  BY <3>4, <3>5 DEF LandsBack
    <3> QED  BY <3>1, <3>2, <3>6
  <2> QED  BY <2>1, <2>2
<1> DEFINE b == [at |-> q, size |-> size, lab |-> label, cond |-> cond]
<1>4. /\ b.at = p /\ b.at = q /\ b.lab = label /\ back' = back \cup {b}
      /\ LandsBack(b, l)'
  BY <1>3, <1>p
<1> HIDE DEF b
<1>5. Apart'
  <2>1. \A j \in cjs : Last(j) < b.at
    BY <1>4, JumpType
  <2> QED  BY <1>2, <1>4, <1>l, <2>1 DEF Apart, First, Last, IsLong
<1>6. Behind'
  BY <1>2 DEF Behind, First, IsLong
<1>7. Waits'
  BY <1>2, <1>3, <1>p, CodeGrows DEF Waits
<1>8. JumpsLand'
  <2>1. \A x \in back : LandsBack(x, cls[x.lab])'
    BY <1>2, <1>3, <1>p, CodeGrows
  <2>2. \A x \in back' : LandsBack(x, cls[x.lab])'
    BY <1>2, <1>4, <1>l, <2>1
  <2>3. \A j \in cjs : cls[j.lab] # 0 => Lands(j, cls[j.lab])'
    BY <1>2, <1>3, <1>p, CodeGrows
  <2> QED  BY <1>2, <2>2, <2>3 DEF JumpsLand
<1>9. CodeKept'
  BY <1>2, <1>3, <1>p, CodeGrows DEF CodeKept
<1> QED  BY <1>1, <1>5, <1>6, <1>7, <1>8, <1>9

(* The jumps forward: what they have in common. *)
LEMMA ForwardKept ==
  ASSUME Disciplined, TypeOK', NEW j, UNCHANGED <<cls, back, other>>,
         cjs' = cjs \cup {j}, First(j) = p, cls[j.lab] = 0,
         \A a \in 1 .. p - 1 : mem'[a] = mem[a],
         ~IsLong(j) => \E o \in other : o.at + o.size = p,
         Raw(j)'
  PROVE  Disciplined'
<1> USE DEF Disciplined
<1>1. p \in Nat
  BY DEF TypeOK
<1>2. Apart'
  <2>1. \A k \in cjs : Last(k) < First(j)
    BY JumpType
  <2>2. /\ \A b \in back : b.at + b.size <= First(j)
        /\ \A o \in other : o.at + o.size <= First(j)
    BY DEF TypeOK
  <2> QED  BY <2>1, <2>2 DEF Apart, First, Last, IsLong
<1>3. Behind'
  BY DEF Behind, First, IsLong
<1>4. Waits'
  <2>1. \A k \in cjs : cls[k.lab] = 0 => Raw(k)'
    BY CodeGrows
  <2> QED  BY <2>1 DEF Waits
<1>5. JumpsLand'
  <2>1. \A k \in cjs : cls[k.lab] # 0 => Lands(k, cls[k.lab])'
    BY CodeGrows
  <2>2. \A b \in back : LandsBack(b, cls[b.lab])'
    BY CodeGrows
  <2> QED  BY <2>1, <2>2 DEF JumpsLand
<1>6. CodeKept'
  BY CodeGrows DEF CodeKept
<1> QED  BY <1>2, <1>3, <1>4, <1>5, <1>6

LEMMA LongKept ==
  ASSUME Disciplined, NEW label \in Labels, NEW cond \in BOOLEAN, JumpLong(label, cond)
  PROVE  Disciplined'
<1> USE DEF Disciplined
<1>1. TypeOK'
  BY LongType
<1>2. MaxCode \in Nat /\ p \in Nat /\ p >= 1
  BY JumpsAssumption DEF TypeOK
<1>q. PICK q \in Nat : q = p
  BY <1>2
<1> DEFINE j == [lab |-> label, adr |-> q + 1, loc |-> q + 2, cond |-> cond]
<1>3. /\ q + 6 <= MaxCode + 1 /\ cls[label] = 0
      /\ mem' = Written([a \in q .. q + 1 |-> IF a = q THEN Nop ELSE Short(cond)])
      /\ cjs' = cjs \cup {j} /\ UNCHANGED <<cls, back, other>>
  BY <1>q DEF JumpLong
<1>4. /\ mem'[q] = Nop /\ mem'[q + 1] = Short(cond)
      /\ \A a \in 1 .. q - 1 : mem'[a] = mem[a]
  BY <1>2, <1>q, <1>3 DEF Written, Addresses
<1>5. IsLong(j) /\ First(j) = q /\ j.adr = q + 1 /\ j.cond = cond /\ j.lab = label
  BY DEF IsLong, First
<1> HIDE DEF j
<1>6. Raw(j)'
  BY <1>4, <1>5 DEF Raw, IsLong, First, Short
<1> QED  BY <1>1, <1>q, <1>3, <1>4, <1>5, <1>6, ForwardKept

LEMMA ShortKept ==
  ASSUME Disciplined, Allowed = {}, NEW label \in Labels, NEW cond \in BOOLEAN, JumpShort(label, cond)
  PROVE  Disciplined'
<1> USE DEF Disciplined
<1>1. TypeOK'
  BY ShortType
<1>2. MaxCode \in Nat /\ p \in Nat /\ p >= 1
  BY JumpsAssumption DEF TypeOK
<1>q. PICK q \in Nat : q = p
  BY <1>2
<1> DEFINE j == [lab |-> label, adr |-> q + 1, loc |-> q + 1, cond |-> cond]
<1>3. /\ q + 2 <= MaxCode + 1 /\ cls[label] = 0
      /\ mem' = Written([a \in {q} |-> Short(cond)])
      /\ cjs' = cjs \cup {j} /\ UNCHANGED <<cls, back, other>>
      /\ \E o \in other : o.at + o.size = p
  BY <1>q DEF JumpShort
<1>4. /\ mem'[q] = Short(cond)
      /\ \A a \in 1 .. q - 1 : mem'[a] = mem[a]
  BY <1>2, <1>q, <1>3 DEF Written, Addresses
<1>5. ~IsLong(j) /\ First(j) = q /\ j.adr = q + 1 /\ j.cond = cond /\ j.lab = label
  BY DEF IsLong, First
<1> HIDE DEF j
<1>6. Raw(j)'
  BY <1>4, <1>5 DEF Raw, IsLong, First, Short
<1> QED  BY <1>1, <1>q, <1>3, <1>4, <1>5, <1>6, ForwardKept

LEMMA ReserveKept ==
  ASSUME Disciplined, Reserve_Label
  PROVE  Disciplined'
<1> USE DEF Disciplined
<1>1. TypeOK'
  BY ReserveType
<1>2. /\ Len(cls) \in Nat /\ Labels = 1 .. Len(cls)
      /\ \A l \in Labels : cls'[l] = cls[l]
  BY LabelsOf, AppendProperties DEF TypeOK, Reserve_Label
<1>3. UNCHANGED <<p, mem, cjs, back, other>>
  BY DEF Reserve_Label
<1>4. /\ \A j \in cjs : j.lab \in Labels /\ cls'[j.lab] = cls[j.lab]
      /\ \A b \in back : b.lab \in Labels /\ cls'[b.lab] = cls[b.lab]
  BY <1>2 DEF TypeOK
<1>5. Apart' /\ Behind'
  BY <1>3 DEF Apart, Behind, First, Last, IsLong
<1>6. Waits'
  BY <1>3, <1>4 DEF Waits, Raw, IsLong, First
<1>7. CodeKept'
  BY <1>3 DEF CodeKept
<1>8. JumpsLand'
  <2>1. \A j \in cjs : cls[j.lab] # 0 => Lands(j, cls[j.lab])'
    <3> SUFFICES ASSUME NEW j \in cjs, cls[j.lab] # 0 PROVE Lands(j, cls[j.lab])'
      OBVIOUS
    <3>1. PICK l \in Nat : l = cls[j.lab]
      BY <1>2, <1>4, LabelsOf DEF TypeOK
    <3>2. cls'[j.lab] = l
      BY <1>4, <3>1
    <3>3. Lands(j, l)'
      BY <1>3, <3>1, LandsKept DEF JumpsLand
    <3> QED  BY <3>2, <3>3
  <2>2. \A b \in back : LandsBack(b, cls[b.lab])'
    BY <1>3, <1>4 DEF JumpsLand, LandsBack, ShortTo, FarTo
  <2> QED  BY <1>3, <1>4, <2>1, <2>2 DEF JumpsLand
<1> QED  BY <1>1, <1>5, <1>6, <1>7, <1>8
-----------------------------------------------------------------------------
(* Make_Label takes a jump for one with room for the far form exactly if   *)
(* it is: what lies before a short one is the end of an instruction.       *)
LEMMA NopTells ==
  ASSUME Disciplined, NEW j \in cjs, cls[j.lab] = 0
  PROVE  HasNop(j) <=> IsLong(j)
<1> USE DEF Disciplined
<1>1. CASE IsLong(j)
  <2>1. mem[First(j)] = Nop
    BY <1>1 DEF Waits, Raw
  <2>2. j.loc - 2 = First(j)
    BY <1>1, JumpType
  <2> QED  BY <1>1, <2>1, <2>2 DEF HasNop
<1>2. CASE ~IsLong(j)
  <2>1. PICK o \in other : o.at + o.size = First(j)
    BY <1>2 DEF Behind
  <2>2. o.at \in Nat /\ o.size \in Nat /\ o.size > 0
    BY DEF TypeOK
  <2>3. j.loc - 2 = First(j) - 1 /\ First(j) \in Nat
    BY <1>2, JumpType
  <2>4. j.loc - 2 = o.at + o.size - 1
    BY <2>1, <2>2, <2>3
  <2>5. o.at + o.size - 1 \in o.at .. o.at + o.size - 1
    BY <2>2
  <2>6. mem[j.loc - 2] = Op(o.at)
    BY <2>4, <2>5 DEF CodeKept
  <2> QED  BY <1>2, <2>6, CellsDiffer DEF HasNop
<1> QED  BY <1>1, <1>2

(* What Make_Label writes for a jump that waits.                           *)
LEMMA PatchOf ==
  ASSUME Disciplined, Allowed = {}, NEW label \in Labels, Make_Label(label), NEW j \in Waiting(label)
  PROVE  /\ ~IsLong(j) => Near(j, p) /\ Patch(j, p) = [a \in {j.loc} |-> Byte(Distance(j, p))]
         /\ IsLong(j) /\ Near(j, p) =>
              Patch(j, p) = [a \in j.loc .. j.loc + 3 |-> IF a = j.loc THEN Byte(Distance(j, p) - 1) ELSE Nop]
         /\ IsLong(j) /\ ~Near(j, p) =>
              Patch(j, p) = [a \in (IF j.cond THEN j.loc - 2 ELSE j.loc - 1) .. j.loc + 3 |->
                               IF a = j.loc - 2 THEN Prefix
                               ELSE IF a = j.loc - 1 THEN Far(j.cond)
                               ELSE IF a = j.loc THEN Word(Distance(j, p) - 4) ELSE Rest]
         /\ DOMAIN Patch(j, p) \subseteq First(j) .. Last(j)
<1>1. j \in cjs /\ cls[j.lab] = 0 /\ (IsLong(j) \/ Near(j, p))
  BY DEF Make_Label, Waiting
<1>2. HasNop(j) <=> IsLong(j)
  BY <1>1, NopTells
<1>3. CASE ~IsLong(j)
  <2>1. Patch(j, p) = [a \in {j.loc} |-> Byte(Distance(j, p))]
    BY <1>1, <1>2, <1>3 DEF Patch
  <2>2. j.loc \in First(j) .. Last(j)
    BY <1>1, <1>3, JumpType DEF Disciplined
  <2> QED  BY <1>1, <1>3, <2>1, <2>2
<1>4. CASE IsLong(j) /\ Near(j, p)
  <2>1. Patch(j, p) = [a \in j.loc .. j.loc + 3 |-> IF a = j.loc THEN Byte(Distance(j, p) - 1) ELSE Nop]
    BY <1>2, <1>4 DEF Patch
  <2>2. j.loc .. j.loc + 3 \subseteq First(j) .. Last(j)
    BY <1>1, <1>4, JumpType DEF Disciplined
  <2> QED  BY <1>4, <2>1, <2>2
<1>5. CASE IsLong(j) /\ ~Near(j, p)
  <2>1. Patch(j, p) = [a \in (IF j.cond THEN j.loc - 2 ELSE j.loc - 1) .. j.loc + 3 |->
                         IF a = j.loc - 2 THEN Prefix
                         ELSE IF a = j.loc - 1 THEN Far(j.cond)
                         ELSE IF a = j.loc THEN Word(Distance(j, p) - 4) ELSE Rest]
    BY <1>5 DEF Patch
  <2>2. (IF j.cond THEN j.loc - 2 ELSE j.loc - 1) .. j.loc + 3 \subseteq First(j) .. Last(j)
    BY <1>1, <1>5, JumpType DEF Disciplined
  <2> QED  BY <1>5, <2>1, <2>2
<1> QED  BY <1>3, <1>4, <1>5

(* No jump is patched over another, nor over anything else. *)
LEMMA Patched ==
  ASSUME Disciplined, Allowed = {}, NEW label \in Labels, Make_Label(label),
         NEW j \in Waiting(label), NEW a \in First(j) .. Last(j)
  PROVE  mem'[a] = IF a \in DOMAIN Patch(j, p) THEN Patch(j, p)[a] ELSE mem[a]
<1>1. j \in cjs /\ a \in Addresses
  BY JumpType DEF Disciplined, Waiting
<1>2. ASSUME NEW k \in Waiting(label), a \in DOMAIN Patch(k, p)
      PROVE  k = j
  <2>1. k \in cjs /\ a \in First(k) .. Last(k)
    BY <1>2, PatchOf DEF Waiting
  <2>2. First(j) \in Nat /\ Last(j) \in Nat /\ First(k) \in Nat /\ Last(k) \in Nat
    BY <1>1, <2>1, JumpType DEF Disciplined
  <2>3. k # j => Last(j) < First(k) \/ Last(k) < First(j)
    BY <1>1, <2>1 DEF Disciplined, Apart
  <2> QED  BY <2>1, <2>2, <2>3
<1>3. mem'[a] = IF \E k \in Waiting(label) : a \in DOMAIN Patch(k, p)
                THEN Patch(CHOOSE k \in Waiting(label) : a \in DOMAIN Patch(k, p), p)[a]
                ELSE mem[a]
  BY <1>1 DEF Make_Label
<1>4. CASE \E k \in Waiting(label) : a \in DOMAIN Patch(k, p)
  <2>1. (CHOOSE k \in Waiting(label) : a \in DOMAIN Patch(k, p)) = j
    BY <1>2, <1>4, Zenon
  <2>2. a \in DOMAIN Patch(j, p)
    BY <1>2, <1>4, Zenon
  <2>3. mem'[a] = Patch(CHOOSE k \in Waiting(label) : a \in DOMAIN Patch(k, p), p)[a]
    BY <1>3, <1>4, Zenon
  <2>4. mem'[a] = Patch(j, p)[a]
    BY <2>1, <2>3, Zenon
  <2> QED  BY <2>2, <2>4, Zenon
<1>5. CASE ~ \E k \in Waiting(label) : a \in DOMAIN Patch(k, p)
  <2>1. a \notin DOMAIN Patch(j, p)
    BY <1>5
  <2>2. mem'[a] = mem[a]
    BY <1>3, <1>5, Zenon
  <2> QED  BY <2>1, <2>2, Zenon
<1> QED  BY <1>4, <1>5

LEMMA Unpatched ==
  ASSUME Disciplined, Allowed = {}, NEW label \in Labels, Make_Label(label),
         NEW a \in Addresses, \A j \in Waiting(label) : a \notin First(j) .. Last(j)
  PROVE  mem'[a] = mem[a]
<1>1. \A j \in Waiting(label) : a \notin DOMAIN Patch(j, p)
  BY PatchOf
<1> QED  BY <1>1, Zenon DEF Make_Label

(* A jump that waits for the label lands on it.                            *)
LEMMA Landed ==
  ASSUME Disciplined, Allowed = {}, NEW label \in Labels, Make_Label(label),
         NEW j \in Waiting(label), NEW q \in Nat, q = p
  PROVE  Lands(j, q)'
<1> USE DEF Disciplined
<1>1. j \in cjs /\ cls[j.lab] = 0 /\ Raw(j)
  BY DEF Make_Label, Waiting, Waits
<1>0. Patch(j, q) = Patch(j, p) /\ Near(j, q) = Near(j, p) /\ Distance(j, q) = Distance(j, p)
  OBVIOUS
<1>2. PICK n \in Int : n = Distance(j, q) /\ n = q - j.adr - 1
  BY <1>1, JumpType DEF Distance
<1>3. /\ \A a \in First(j) .. Last(j) : mem'[a] = IF a \in DOMAIN Patch(j, q) THEN Patch(j, q)[a] ELSE mem[a]
      /\ Near(j, q) <=> n < Reach
  BY <1>2, Patched DEF Near
<1>4. Reach \in Nat /\ Reach >= 4
  BY JumpsAssumption
<1>5. CASE ~IsLong(j)
  <2>1. Patch(j, q) = [a \in {j.loc} |-> Byte(n)] /\ Near(j, q)
    <3>1. Near(j, p) /\ Patch(j, p) = [a \in {j.loc} |-> Byte(Distance(j, p))]
      BY <1>5, PatchOf
    <3> QED  BY <1>0, <1>2, <3>1
  <2>2. First(j) + 1 = j.loc /\ Last(j) = j.loc /\ First(j) \in Nat /\ j.loc < q /\ j.loc = j.adr /\ j.loc \in Nat
    BY <1>1, <1>5, JumpType
  <2>3. mem'[First(j)] = Short(j.cond)
    BY <1>1, <1>3, <1>5, <2>1, <2>2 DEF Raw
  <2>4. mem'[First(j) + 1] = Byte(n)
    BY <1>3, <2>1, <2>2
  <2>5. q - (First(j) + 2) = n /\ -Reach <= n /\ n <= Reach
    BY <1>2, <1>3, <1>4, <2>1, <2>2
  <2>6. ShortTo(First(j), j.cond, q)'
    BY <2>3, <2>4, <2>5, First(j)' = First(j) DEF ShortTo, First
  <2> QED  BY <1>5, <2>6 DEF Lands, IsLong, First
<1>6. CASE IsLong(j)
  <2>1. /\ First(j) \in Nat /\ j.adr = First(j) + 1 /\ j.loc = First(j) + 2
        /\ Last(j) = First(j) + 5 /\ Last(j) < q
    BY <1>1, <1>6, JumpType
  <2>2. mem[First(j)] = Nop /\ mem[j.adr] = Short(j.cond)
    BY <1>1, <1>6 DEF Raw
  <2>3. CASE Near(j, q)
    <3>1. Patch(j, q) = [a \in j.loc .. j.loc + 3 |-> IF a = j.loc THEN Byte(n - 1) ELSE Nop]
      <4>1. Near(j, p) /\ Distance(j, p) = n
        BY <1>2, <2>3
      <4>2. Patch(j, p) = [a \in j.loc .. j.loc + 3 |-> IF a = j.loc THEN Byte(Distance(j, p) - 1) ELSE Nop]
        BY <1>6, <4>1, PatchOf
      <4> QED  BY <4>1, <4>2
    <3>2. mem'[First(j)] = Nop /\ mem'[j.adr] = Short(j.cond)
      BY <1>3, <2>1, <2>2, <3>1
    <3>3. mem'[j.adr + 1] = Byte(n - 1)
      BY <1>3, <2>1, <3>1
    <3>4. \A a \in j.loc + 1 .. j.loc + 3 : mem'[a] = Nop
      BY <1>3, <2>1, <3>1
    <3>5. q - (j.adr + 2) = n - 1 /\ -Reach <= n - 1 /\ n - 1 <= Reach
      BY <1>2, <1>3, <1>4, <2>1, <2>3
    <3>6. ShortTo(j.adr, j.cond, q)'
      BY <3>2, <3>3, <3>5 DEF ShortTo
    <3> QED  BY <1>6, <3>2, <3>4, <3>6 DEF Lands, IsLong, First
  <2>4. CASE ~Near(j, q) /\ j.cond
    <3>1. Patch(j, q) = [a \in j.loc - 2 .. j.loc + 3 |->
                           IF a = j.loc - 2 THEN Prefix
                           ELSE IF a = j.loc - 1 THEN Far(j.cond)
                           ELSE IF a = j.loc THEN Word(n - 4) ELSE Rest]
      BY <1>2, <1>6, <2>4, PatchOf
    <3>2. mem'[First(j)] = Prefix
      BY <1>3, <2>1, <3>1
    <3>f. PICK f \in Nat : f = First(j)
      BY <2>1
    <3>c. \A a \in f + 1 .. f + 5 :
            mem'[a] = IF a = f + 1 THEN Far(TRUE) ELSE IF a = f + 2 THEN Word(n - 4) ELSE Rest
      <4> SUFFICES ASSUME NEW a \in f + 1 .. f + 5
                   PROVE  mem'[a] = IF a = f + 1 THEN Far(TRUE)
                                    ELSE IF a = f + 2 THEN Word(n - 4) ELSE Rest
        OBVIOUS
      <4>1. /\ a \in First(j) .. Last(j) /\ a \in j.loc - 2 .. j.loc + 3 /\ a # j.loc - 2
            /\ j.loc - 1 = f + 1 /\ j.loc = f + 2
        BY <2>1, <3>f
      <4>2. mem'[a] = Patch(j, q)[a]
        BY <1>3, <3>1, <4>1
      <4>3. Patch(j, q)[a] = IF a = j.loc - 1 THEN Far(j.cond) ELSE IF a = j.loc THEN Word(n - 4) ELSE Rest
        BY <3>1, <4>1, Zenon
      <4>4. j.cond = TRUE
        BY <2>4, <1>1, JumpType
      <4> QED  BY <4>1, <4>2, <4>3, <4>4, Zenon
    <3>d. /\ f + 1 \in f + 1 .. f + 5 /\ f + 2 \in f + 1 .. f + 5 /\ f + 2 # f + 1
          /\ \A a \in f + 3 .. f + 5 : a \in f + 1 .. f + 5 /\ a # f + 1 /\ a # f + 2
      OBVIOUS
    <3>3. mem'[f + 1] = Far(TRUE)
      BY <3>c, <3>d, Zenon
    <3>4. mem'[f + 2] = Word(n - 4)
      BY <3>c, <3>d, Zenon
    <3>5. \A a \in f + 3 .. f + 5 : mem'[a] = Rest
      BY <3>c, <3>d, Zenon
    <3>6. q - (f + 6) = n - 4
      BY <1>2, <2>1, <3>f
    <3>7. FarTo(f, TRUE, q)'
      BY <3>2, <3>3, <3>4, <3>5, <3>6, <3>f DEF FarTo
    <3>8. FarTo(First(j), TRUE, q)'
      BY <3>7, <3>f DEF First
    <3> QED  BY <1>6, <2>4, <3>8 DEF Lands, IsLong, First
  <2>5. CASE ~Near(j, q) /\ ~j.cond
    <3>1. Patch(j, q) = [a \in j.loc - 1 .. j.loc + 3 |->
                           IF a = j.loc - 2 THEN Prefix
                           ELSE IF a = j.loc - 1 THEN Far(j.cond)
                           ELSE IF a = j.loc THEN Word(n - 4) ELSE Rest]
      BY <1>2, <1>6, <2>5, PatchOf
    <3>2. mem'[First(j)] = Nop
      BY <1>3, <2>1, <2>2, <3>1
    <3>c. \A a \in j.adr .. j.adr + 4 :
            mem'[a] = IF a = j.adr THEN Far(FALSE) ELSE IF a = j.adr + 1 THEN Word(n - 4) ELSE Rest
      <4> SUFFICES ASSUME NEW a \in j.adr .. j.adr + 4
                   PROVE  mem'[a] = IF a = j.adr THEN Far(FALSE)
                                    ELSE IF a = j.adr + 1 THEN Word(n - 4) ELSE Rest
        OBVIOUS
      <4>1. /\ a \in First(j) .. Last(j) /\ a \in j.loc - 1 .. j.loc + 3 /\ a # j.loc - 2
            /\ j.loc - 1 = j.adr /\ j.loc = j.adr + 1
        BY <2>1
      <4>2. mem'[a] = Patch(j, q)[a]
        BY <1>3, <3>1, <4>1
      <4>3. Patch(j, q)[a] = IF a = j.loc - 1 THEN Far(j.cond) ELSE IF a = j.loc THEN Word(n - 4) ELSE Rest
        BY <3>1, <4>1, Zenon
      <4>4. j.cond = FALSE
        BY <2>5, <1>1, JumpType
      <4> QED  BY <4>1, <4>2, <4>3, <4>4, Zenon
    <3>3. mem'[j.adr] = Far(FALSE)
      BY <2>1, <3>c DEF Far
    <3>4. mem'[j.adr + 1] = Word(n - 4)
      BY <2>1, <3>c DEF Far
    <3>5. \A a \in j.adr + 2 .. j.adr + 4 : mem'[a] = Rest
      BY <2>1, <3>c DEF Far
    <3>6. q - (j.adr + 5) = n - 4
      BY <1>2, <2>1
    <3>7. FarTo(j.adr, FALSE, q)'
      BY <2>5, <3>3, <3>4, <3>5, <3>6 DEF FarTo, Far
    <3> QED  BY <1>6, <2>5, <3>2, <3>7 DEF Lands, IsLong, First
  <2> QED  BY <2>3, <2>4, <2>5
<1> QED  BY <1>5, <1>6

LEMMA MakeKept ==
  ASSUME Disciplined, Allowed = {}, NEW label \in Labels, Make_Label(label)
  PROVE  Disciplined'
<1> USE DEF Disciplined
<1>1. TypeOK'
  BY MakeType
<1>2. /\ UNCHANGED <<p, cjs, back, other>>
      /\ p \in Nat /\ p # 0 /\ cls[label] = 0
      /\ \A l \in Labels : cls[l] \in Nat /\ cls'[l] = IF l = label THEN p ELSE cls[l]
  <2>1. Labels = 1 .. Len(cls) /\ \A l \in Labels : cls[l] \in Nat
    BY LabelsOf DEF TypeOK
  <2>2. \A i \in 1 .. Len(cls) : cls'[i] = IF i = label THEN p ELSE cls[i]
    BY <2>1, ExceptSeq DEF TypeOK, Make_Label
  <2> QED  BY <2>1, <2>2 DEF TypeOK, Make_Label
<1>3. ASSUME NEW k \in cjs, k \notin Waiting(label)
      PROVE  \A a \in First(k) .. Last(k) : mem'[a] = mem[a]
  <2> SUFFICES ASSUME NEW a \in First(k) .. Last(k) PROVE mem'[a] = mem[a]
    OBVIOUS
  <2>1. a \in Addresses /\ First(k) \in Nat /\ Last(k) \in Nat
    BY JumpType
  <2>2. ASSUME NEW j \in Waiting(label) PROVE a \notin First(j) .. Last(j)
    <3>1. j \in cjs /\ j # k /\ First(j) \in Nat /\ Last(j) \in Nat
      BY <1>3, JumpType DEF Waiting
    <3>2. Last(j) < First(k) \/ Last(k) < First(j)
      BY <3>1 DEF Apart
    <3> QED  BY <2>1, <3>1, <3>2
  <2> QED  BY <2>1, <2>2, Unpatched
<1>4. Apart' /\ Behind'
  BY <1>2 DEF Apart, Behind, First, Last, IsLong
<1>5. Waits'
  <2> SUFFICES ASSUME NEW k \in cjs, cls'[k.lab] = 0 PROVE Raw(k)'
    BY <1>2 DEF Waits
  <2>1. k.lab \in Labels /\ k.lab # label /\ cls[k.lab] = 0
    BY <1>2, JumpType
  <2>2. \A a \in First(k) .. Last(k) : mem'[a] = mem[a]
    BY <1>3, <2>1 DEF Waiting
  <2>3. Raw(k) => Raw(k)'
    BY <2>2, LandsKept
  <2> QED  BY <2>1, <2>3 DEF Waits
<1>6. ASSUME NEW k \in cjs, cls'[k.lab] # 0
      PROVE  Lands(k, cls[k.lab])'
  <2>1. CASE k.lab = label
    <3>1. PICK q \in Nat : q = p
      BY <1>2
    <3>2. Lands(k, q)'
      BY <2>1, <3>1, Landed DEF Waiting
    <3>3. cls'[k.lab] = q
      BY <1>2, <2>1, <3>1
    <3> QED  BY <3>2, <3>3
  <2>2. CASE k.lab # label
    <3>1. k.lab \in Labels
      BY JumpType
    <3>2. PICK l \in Nat : l = cls[k.lab] /\ l # 0 /\ cls'[k.lab] = l
      BY <1>2, <1>6, <2>2, <3>1
    <3>3. \A a \in First(k) .. Last(k) : mem'[a] = mem[a]
      BY <1>3, <2>2 DEF Waiting
    <3>4. Lands(k, l)'
      BY <3>2, <3>3, LandsKept DEF JumpsLand
    <3> QED  BY <3>2, <3>4
  <2> QED  BY <2>1, <2>2
<1>7. ASSUME NEW b \in back
      PROVE  LandsBack(b, cls[b.lab])'
  <2>1. /\ b.at \in Nat /\ b.size \in {2, 5} /\ b.cond \in BOOLEAN /\ b.lab \in Labels
        /\ 1 <= b.at /\ b.at + b.size <= p /\ cls[b.lab] # 0
    BY DEF TypeOK
  <2>2. PICK l \in Nat : l = cls[b.lab] /\ cls'[b.lab] = l
    BY <1>2, <2>1
  <2>3. ASSUME NEW a \in b.at .. b.at + b.size - 1 PROVE mem'[a] = mem[a]
    <3>1. a \in Addresses
      BY <2>1, JumpsAssumption DEF TypeOK, Addresses
    <3>2. ASSUME NEW j \in Waiting(label) PROVE a \notin First(j) .. Last(j)
      <4>1. j \in cjs /\ First(j) \in Nat /\ Last(j) \in Nat
        BY JumpType DEF Waiting
      <4>2. Last(j) < b.at \/ b.at + b.size <= First(j)
        BY <4>1 DEF Apart
      <4> QED  BY <2>1, <4>1, <4>2
    <3> QED  BY <3>1, <3>2, Unpatched
  <2>4. LandsBack(b, l)'
    BY <2>1, <2>2, <2>3, LandsBackKept DEF JumpsLand
  <2> QED  BY <2>2, <2>4
<1>8. JumpsLand'
  BY <1>2, <1>6, <1>7 DEF JumpsLand
<1>9. CodeKept'
  <2> SUFFICES ASSUME NEW o \in other, NEW a \in o.at .. o.at + o.size - 1
               PROVE  mem'[a] = Op(o.at)
    BY <1>2 DEF CodeKept
  <2>1. o.at \in Nat /\ o.size \in Nat /\ 1 <= o.at /\ o.at + o.size <= p
    BY DEF TypeOK
  <2>2. a \in Addresses
    BY <2>1, JumpsAssumption DEF TypeOK, Addresses
  <2>3. ASSUME NEW j \in Waiting(label) PROVE a \notin First(j) .. Last(j)
    <3>1. j \in cjs /\ First(j) \in Nat /\ Last(j) \in Nat
      BY JumpType DEF Waiting
    <3>2. Last(j) < o.at \/ o.at + o.size <= First(j)
      BY <3>1 DEF Apart
    <3> QED  BY <2>1, <3>1, <3>2
  <2> QED  BY <2>2, <2>3, Unpatched DEF CodeKept
<1> QED  BY <1>1, <1>4, <1>5, <1>8, <1>9
-----------------------------------------------------------------------------
LEMMA DisciplinedInv ==
  ASSUME Allowed = {}
  PROVE  Spec => []Disciplined
<1>1. Init => Disciplined
  <2> SUFFICES ASSUME Init PROVE Disciplined
    OBVIOUS
  <2>1. cls \in Seq(Nat) /\ Labels = 1 .. 0
    BY EmptySeq, LenProperties DEF Init, Labels
  <2>2. p \in 1 .. MaxCode + 1
    BY JumpsAssumption DEF Init
  <2>3. TypeOK
    BY <2>1, <2>2 DEF Init, TypeOK
  <2> QED  BY <2>3 DEF Init, Disciplined, Apart, Behind, Waits, CodeKept, JumpsLand
<1>2. Disciplined /\ [Next]_vars => Disciplined'
  <2> SUFFICES ASSUME Disciplined, [Next]_vars PROVE Disciplined'
    OBVIOUS
  <2>1. CASE Reserve_Label
    BY <2>1, ReserveKept
  <2>2. ASSUME NEW label \in Labels, Make_Label(label) PROVE Disciplined'
    BY <2>2, MakeKept
  <2>3. ASSUME NEW label \in Labels, NEW cond \in BOOLEAN,
               JumpBack(label, cond) \/ JumpLong(label, cond) \/ JumpShort(label, cond)
        PROVE  Disciplined'
    BY <2>3, BackKept, LongKept, ShortKept
  <2>4. ASSUME NEW size \in Sizes, Emit(size) PROVE Disciplined'
    BY <2>4, EmitKept
  <2>5. CASE UNCHANGED vars
    <3>1. TypeOK'
      BY <2>5 DEF vars, Disciplined, TypeOK, Labels, First, Last, IsLong
    <3>2. Apart' /\ Behind'
      BY <2>5 DEF vars, Disciplined, Apart, Behind, First, Last, IsLong
    <3>3. Waits' /\ CodeKept'
      BY <2>5 DEF vars, Disciplined, Waits, Raw, CodeKept, First, IsLong
    <3>4. JumpsLand'
      <4>1. cjs' = cjs /\ cls' = cls
        BY <2>5 DEF vars
      <4>2. ASSUME NEW j PROVE First(j)' = First(j) /\ IsLong(j)' = IsLong(j)
        BY <2>5 DEF vars, First, IsLong
      <4>3. ASSUME NEW j, NEW n PROVE Lands(j, n)' = Lands(j, n) /\ LandsBack(j, n)' = LandsBack(j, n)
        BY <2>5, <4>2 DEF vars, Lands, LandsBack, ShortTo, FarTo
      <4> QED  BY <2>5, <4>1, <4>2, <4>3 DEF vars, Disciplined, JumpsLand
    <3> QED  BY <3>1, <3>2, <3>3, <3>4 DEF Disciplined
  <2> QED  BY <2>1, <2>2, <2>3, <2>4, <2>5 DEF Next
<1> QED  BY <1>1, <1>2, PTL DEF Spec

(* Whatever lies between a jump and its label, a program without the       *)
(* Habits has every jump to a made label go there (Make_Label,             *)
(* Label_Management).                                                      *)
THEOREM JumpsAlwaysLand ==
  ASSUME Allowed = {}
  PROVE  Spec => []JumpsLand
<1>1. Disciplined => JumpsLand
  BY DEF Disciplined
<1>2. Spec => []Disciplined
  BY DisciplinedInv
<1> QED  BY <1>1, <1>2, PTL

(* Making a label changes no instruction but the jumps that wait for it    *)
(* (Make_Label).                                                           *)
THEOREM CodeAlwaysKept ==
  ASSUME Allowed = {}
  PROVE  Spec => []CodeKept
<1>1. Disciplined => CodeKept
  BY DEF Disciplined
<1>2. Spec => []Disciplined
  BY DisciplinedInv
<1> QED  BY <1>1, <1>2, PTL
=============================================================================
