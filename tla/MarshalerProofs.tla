----------------------------- MODULE MarshalerProofs -----------------------------
(***************************************************************************)
(* Theorems about Marshaler, for every set of files and of values, every   *)
(* finite set of streams and every length of a session.  For every         *)
(* program: type correctness.  For programs that load dumps only: no       *)
(* stream is lost.  For programs that dump plain values and are spared a   *)
(* collection while they load: the marshaler implements DumpFiles.         *)
(***************************************************************************)
EXTENDS Marshaler, SequenceTheorems, FiniteSetTheorems, TLAPS

Cells  == {Saved(v) : v \in Values}
Images == [head : {"missing", "empty", "text", "marshal"}, count : 0 .. MaxCount, body : Bodies(Cells)]

(* A file that is no dump holds nothing, and a count is that of a session  *)
(* that ended.                                                             *)
Whole(d) == /\ d.head # "marshal" => d.count = 0 /\ d.body = <<>>
            /\ d.count \in {0, Len(d.body)}

StreamType == [mode : {"closed", "read", "write"}, file : Files \cup {None}, image : Images]

(* What Load has read: a cell, or what is left of one.                     *)
Elements == [type : Types, data : {v.data : v \in Values} \cup {None, Swept}]

(***************************************************************************)
(* Sequences and sets of numbers.                                          *)
(***************************************************************************)
LEMMA BodiesAre == \A C : Bodies(C) = {s \in Seq(C) : Len(s) <= MaxCount}
<1> SUFFICES ASSUME NEW C
             PROVE  Bodies(C) = {s \in Seq(C) : Len(s) <= MaxCount}
  OBVIOUS
<1>1. MaxCount \in Nat
  BY MarshalerAssumption
<1>2. ASSUME NEW s \in Bodies(C)
      PROVE  s \in Seq(C) /\ Len(s) <= MaxCount
  <2>1. PICK n \in 0 .. MaxCount : s \in [1 .. n -> C]
    BY DEF Bodies
  <2>2. n \in Nat /\ n <= MaxCount
    BY <1>1
  <2>3. s \in Seq(C) /\ Len(s) = n
    BY <2>1, <2>2, SeqDef, LenProperties
  <2> QED  BY <2>2, <2>3
<1>3. ASSUME NEW s \in Seq(C), Len(s) <= MaxCount
      PROVE  s \in Bodies(C)
  <2>1. Len(s) \in 0 .. MaxCount /\ s \in [1 .. Len(s) -> C]
    BY <1>1, <1>3, LenProperties
  <2> QED  BY <2>1 DEF Bodies
<1> QED  BY <1>2, <1>3

LEMMA EmptyBody == \A C : <<>> \in Bodies(C) /\ Len(<<>>) = 0
<1> SUFFICES ASSUME NEW C
             PROVE  <<>> \in Bodies(C) /\ Len(<<>>) = 0
  OBVIOUS
<1>1. <<>> \in Seq(C) /\ Len(<<>>) = 0
  BY EmptySeq
<1>2. 0 <= MaxCount
  BY MarshalerAssumption
<1> QED  BY <1>1, <1>2, BodiesAre

LEMMA Appended ==
  ASSUME NEW C, NEW s \in Bodies(C), NEW c \in C, Len(s) < MaxCount
  PROVE  /\ Append(s, c) \in Bodies(C) /\ Len(Append(s, c)) = Len(s) + 1
         /\ \A i \in 1 .. Len(s) : Append(s, c)[i] = s[i]
         /\ Append(s, c)[Len(s) + 1] = c
<1>1. s \in Seq(C) /\ Len(s) \in Nat /\ MaxCount \in Nat
  BY BodiesAre, LenProperties, MarshalerAssumption
<1>2. /\ Append(s, c) \in Seq(C) /\ Len(Append(s, c)) = Len(s) + 1
      /\ \A i \in 1 .. Len(s) : Append(s, c)[i] = s[i]
      /\ Append(s, c)[Len(s) + 1] = c
  BY <1>1, AppendProperties
<1>3. Len(s) + 1 <= MaxCount
  BY <1>1
<1> QED  BY <1>2, <1>3, BodiesAre

LEMMA Cut ==
  ASSUME NEW C, NEW s \in Bodies(C), NEW n \in 0 .. Len(s)
  PROVE  SubSeq(s, 1, n) \in Bodies(C) /\ Len(SubSeq(s, 1, n)) = n
<1>1. s \in Seq(C) /\ Len(s) \in Nat /\ MaxCount \in Nat /\ Len(s) <= MaxCount
  BY BodiesAre, LenProperties, MarshalerAssumption
<1>2. \A i \in 1 .. n : s[i] \in C
  BY <1>1, ElementOfSeq
<1>3. SubSeq(s, 1, n) \in Seq(C) /\ Len(SubSeq(s, 1, n)) = IF 1 <= n THEN n - 1 + 1 ELSE 0
  BY <1>1, <1>2, SubSeqProperties
<1>4. Len(SubSeq(s, 1, n)) = n /\ n <= MaxCount
  BY <1>1, <1>3
<1> QED  BY <1>3, <1>4, BodiesAre

(* fopen finds the lowest stream: a set of streams has a least one.        *)
LEMMA LeastStream ==
  ASSUME NEW F \in SUBSET Streams, F # {}
  PROVE  (CHOOSE s \in F : \A t \in F : s <= t) \in F
<1> DEFINE below(s) == {t \in F : t <= s}
           T == {below(s) : s \in F}
<1>1. F \subseteq Nat /\ IsFiniteSet(F)
  BY MarshalerAssumption, FS_Subset
<1>2. T \subseteq SUBSET F /\ T # {}
  OBVIOUS
<1>3. IsWellFoundedOn(StrictSubsetOrdering(F), SUBSET F)
  BY <1>1, FS_StrictSubsetOrderingWellFounded, FS_FiniteSubsetsOfFinite
<1>4. PICK S \in T : \A U \in T : ~ <<U, S>> \in StrictSubsetOrdering(F)
  <2> HIDE DEF T
  <2> QED  BY <1>2, <1>3, WFMin
<1>5. PICK s \in F : S = below(s)
  OBVIOUS
<1>6. ASSUME NEW t \in F
      PROVE  s <= t
  <2> SUFFICES ASSUME t < s
               PROVE  FALSE
    <3>1. t \in Nat /\ s \in Nat
      BY <1>1
    <3> QED  BY <3>1
  <2>1. below(t) \subseteq below(s) /\ s \in below(s) /\ s \notin below(t)
    <3>1. t \in Nat /\ s \in Nat /\ \A u \in F : u \in Nat
      BY <1>1
    <3>2. (\A u \in F : u <= t => u <= s) /\ s <= s /\ ~(s <= t)
      BY <3>1
    <3> QED  BY <3>2
  <2>2. <<below(t), below(s)>> \in StrictSubsetOrdering(F)
    BY <2>1 DEF StrictSubsetOrdering
  <2> QED  BY <1>4, <1>5, <2>2
<1> QED  BY <1>6

(***************************************************************************)
(* Every program.                                                          *)
(***************************************************************************)
FilesType ==
  /\ handle \in Streams \cup {NoStream} /\ count \in 0 .. MaxCount
  /\ streams \in [Streams -> StreamType]
  /\ disk \in [Files -> Images] /\ \A f \in Files : Whole(disk[f])
  /\ given \in Bodies(PlainValues)
  /\ pc \in {"program", "load", "exit", "ended", "crashed"}

(* Only the session writes, to a file that is not complete yet.            *)
Opened ==
  LET file  == streams[handle].file
      image == streams[handle].image
  IN /\ file \in Files /\ disk[file].count = 0 /\ disk[file].head \in {"empty", "marshal"}
     /\ image.head = "marshal" /\ image.count = 0
     /\ Len(image.body) = count /\ Len(given) = count

Writes ==
  /\ \A s \in Streams : streams[s].mode = "write" => s = handle
  /\ Writing(handle) => Opened

Loads ==
  /\ loader \in Streams \cup {NoStream} /\ sym_count \in 0 .. MaxCount
  /\ unmarshaled \in Seq(Elements) /\ Len(unmarshaled) <= sym_count
  /\ dest = None \/ Len(dest) <= MaxCount
  /\ pc = "load" => /\ loader \in Streams /\ streams[loader].mode = "read"
                    /\ source \in Files /\ disk[source].head = "marshal"
                    /\ sym_count = disk[source].count

Stopped == pc \in {"ended", "crashed"} => \A s \in Streams : streams[s].mode = "closed"

Inv == FilesType /\ Writes /\ Loads /\ Stopped

LEMMA InvTypeOK == Inv => TypeOK
<1> SUFFICES ASSUME Inv
             PROVE  TypeOK
  OBVIOUS
<1>1. \A s \in Streams : streams[s].mode \in {"closed", "read", "write"}
  BY DEF Inv, FilesType, StreamType
<1>2. \A f \in Files : disk[f].head \in {"missing", "empty", "text", "marshal"} /\ disk[f].body \in Bodies(Cells)
  BY DEF Inv, FilesType, Images
<1> QED  BY <1>1, <1>2 DEF Inv, FilesType, Loads, TypeOK, Cells

LEMMA SavedCell == \A v \in Values : Saved(v) \in Cells /\ Plain(v) \in PlainValues
BY DEF Cells, PlainValues

LEMMA CellsAre == Cells \subseteq Elements /\ \A d : [type |-> "NIL", data |-> Swept] \in Elements
<1>1. ASSUME NEW v \in Values
      PROVE  Saved(v) \in Elements
  <2>1. v \in [type : Types, data : {w.data : w \in Values}]
    BY MarshalerAssumption
  <2>2. v.type \in Types /\ Plain(v).type \in Types
    BY <2>1 DEF Plain, Types
  <2>3. (IF v.type \in {"BOOL", "INT", "DOUBLE", "TEXT", "STRING"} THEN v.data ELSE None)
          \in {w.data : w \in Values} \cup {None, Swept}
    OBVIOUS
  <2> QED  BY <2>2, <2>3 DEF Saved, Elements
<1> QED  BY <1>1 DEF Cells, Elements, Types

LEMMA ImagesAre ==
  /\ Blank \in Images /\ Whole(Blank) /\ Missing \in Images /\ Whole(Missing)
  /\ File("marshal", 0, <<>>) \in Images /\ Closed \in StreamType
<1>1. 0 \in 0 .. MaxCount /\ <<>> \in Bodies(Cells)
  BY EmptyBody, MarshalerAssumption
<1>2. /\ Blank \in Images /\ Whole(Blank) /\ Missing \in Images /\ Whole(Missing)
      /\ File("marshal", 0, <<>>) \in Images
  BY <1>1 DEF Images, Blank, Missing, File, Whole
<1> QED  BY <1>2 DEF Closed, StreamType

LEMMA FlushedIs ==
  ASSUME NEW image \in Images, image.head = "marshal", image.count = 0,
         NEW old \in Images, NEW d \in Flushed(image, old)
  PROVE  /\ d \in Images /\ Whole(d) /\ d.count = 0
         /\ d.head = "marshal" \/ (d.head = "empty" /\ old.head = "empty")
<1>1. CASE d = Blank /\ old.head = "empty"
  BY <1>1, ImagesAre DEF Blank, File
<1>2. ASSUME NEW n \in Len(old.body) .. Len(image.body), d = [image EXCEPT !.body = SubSeq(image.body, 1, n)]
      PROVE  d \in Images /\ Whole(d) /\ d.count = 0 /\ d.head = "marshal"
  <2>1. Len(old.body) \in Nat /\ Len(image.body) \in Nat /\ image.body \in Bodies(Cells)
    BY BodiesAre, LenProperties DEF Images
  <2>2. n \in 0 .. Len(image.body)
    BY <2>1
  <2>3. SubSeq(image.body, 1, n) \in Bodies(Cells)
    BY <2>1, <2>2, Cut
  <2>4. d.head = "marshal" /\ d.count = 0 /\ d \in Images
    BY <1>2, <2>3 DEF Images
  <2> QED  BY <2>4 DEF Whole
<1> QED  BY <1>1, <1>2 DEF Flushed

LEMMA ClosedIs ==
  ASSUME FilesType, Writes
  PROVE  /\ ClosedStreams \in [Streams -> StreamType]
         /\ \A s \in Streams : /\ ClosedStreams[s].mode # "write"
                               /\ s # handle => ClosedStreams[s] = streams[s]
                               /\ s = handle => ClosedStreams[s] = Closed
         /\ ClosedDisk \in [Files -> Images] /\ \A f \in Files : Whole(ClosedDisk[f])
<1>1. NoStream \notin Streams
  BY MarshalerAssumption DEF NoStream
<1>2. ClosedStreams \in [Streams -> StreamType]
  BY ImagesAre DEF FilesType, ClosedStreams
<1>3. ASSUME NEW s \in Streams
      PROVE  /\ s # handle => ClosedStreams[s] = streams[s]
             /\ s = handle => ClosedStreams[s] = Closed
  BY <1>1 DEF FilesType, ClosedStreams
<1>4. \A s \in Streams : ClosedStreams[s].mode # "write"
  BY <1>3 DEF Writes, Closed
<1>5. CASE ~Writing(handle)
  BY <1>2, <1>3, <1>4, <1>5 DEF FilesType, ClosedDisk
<1>6. CASE Writing(handle)
  <2> DEFINE file  == streams[handle].file
             image == [streams[handle].image EXCEPT !.count = count]
  <2>1. Opened /\ handle \in Streams
    BY <1>6 DEF Writes, Writing, FilesType
  <2>2. streams[handle].image \in Images
    BY <2>1 DEF FilesType, StreamType
  <2>3. image \in Images /\ Whole(image)
    BY <2>1, <2>2 DEF Opened, FilesType, Images, Whole
  <2>4. ClosedDisk = [disk EXCEPT ![file] = image]
    BY <1>6 DEF ClosedDisk
  <2> HIDE DEF file, image
  <2>5. ClosedDisk \in [Files -> Images] /\ \A f \in Files : Whole(ClosedDisk[f])
    BY <2>3, <2>4 DEF FilesType
  <2> QED  BY <1>2, <1>3, <1>4, <2>5
<1> QED  BY <1>5, <1>6

(* Streams that are all closed, with the session they end. *)
LEMMA AllClosed ==
  ASSUME streams' = [s \in Streams |-> Closed]
  PROVE  /\ streams' \in [Streams -> StreamType]
         /\ \A s \in Streams : streams'[s].mode = "closed"
         /\ handle' \in Streams \cup {NoStream} => ~Writing(handle)'
<1>1. /\ streams' \in [Streams -> StreamType]
      /\ \A s \in Streams : streams'[s].mode = "closed"
  BY ImagesAre DEF Closed
<1> QED  BY <1>1 DEF Writing

LEMMA CloseInv == ASSUME Inv, Close PROVE Inv'
<1>1. FilesType /\ Writes /\ Loads /\ pc = "program"
  BY DEF Inv, Close
<1>2. FilesType'
  BY <1>1, ClosedIs, MarshalerAssumption DEF Close, FilesType, ClosedCount
<1>3. Writes'
  <2>1. \A s \in Streams : streams'[s].mode # "write"
    BY <1>1, ClosedIs DEF Close
  <2>2. ~Writing(handle)'
    BY <1>2, <2>1 DEF Writing, FilesType
  <2> QED  BY <2>1, <2>2 DEF Writes
<1>4. Loads' /\ Stopped'
  BY <1>1 DEF Close, Loads, Stopped, Locals
<1> QED  BY <1>2, <1>3, <1>4 DEF Inv

LEMMA OpenInv == ASSUME NEW f \in Files, Inv, Open(f) PROVE Inv'
<1> DEFINE free == {s \in Streams : ClosedStreams[s].mode = "closed"}
           new  == File("marshal", ClosedCount, <<>>)
           opened == [mode |-> "write", file |-> f, image |-> new]
<1>1. FilesType /\ Writes /\ Loads /\ pc = "program" /\ pc' = "program"
  BY DEF Inv, Open
<1>2. PICK s \in Streams : /\ s \in free /\ handle' = s /\ count' = ClosedCount
                           /\ streams' = [ClosedStreams EXCEPT ![s] = opened]
                           /\ \E d \in Flushed(new, Blank) : disk' = [ClosedDisk EXCEPT ![f] = d]
  <2>1. free # {} /\ free \in SUBSET Streams
    BY DEF Open
  <2>2. PICK s : s = CHOOSE r \in free : \A t \in free : r <= t
    OBVIOUS
  <2>3. s \in free
    <3> HIDE DEF free
    <3> QED  BY <2>1, <2>2, LeastStream
  <2> QED  BY <2>2, <2>3 DEF Open
<1>3. PICK d \in Flushed(new, Blank) : disk' = [ClosedDisk EXCEPT ![f] = d]
  BY <1>2
<1>4. new \in Images /\ new.head = "marshal" /\ new.count = 0 /\ new.body = <<>> /\ Len(new.body) = 0
  BY ImagesAre, EmptyBody DEF File, ClosedCount
<1>5. d \in Images /\ Whole(d) /\ d.count = 0 /\ d.head \in {"empty", "marshal"}
  <2> HIDE DEF new
  <2> QED  BY <1>4, ImagesAre, FlushedIs
<1>6. opened \in StreamType
  BY <1>4 DEF StreamType
<1> HIDE DEF opened, new, free
<1>7. FilesType'
  <2>1. streams' \in [Streams -> StreamType]
    BY <1>1, <1>2, <1>6, ClosedIs
  <2>2. disk' \in [Files -> Images] /\ \A g \in Files : Whole(disk'[g])
    BY <1>1, <1>3, <1>5, ClosedIs
  <2>3. given' = <<>> /\ <<>> \in Bodies(PlainValues)
    BY EmptyBody DEF Open
  <2> QED  BY <1>1, <1>2, <2>1, <2>2, <2>3, MarshalerAssumption DEF FilesType, ClosedCount
<1>8. streams'[s] = opened /\ disk'[f] = d /\ \A r \in Streams \ {s} : streams'[r].mode # "write"
  BY <1>1, <1>2, <1>3, ClosedIs
<1>9. Writes'
  <2>1. streams'[handle'].file = f /\ streams'[handle'].image = new
    BY <1>2, <1>8 DEF opened
  <2>2. Opened'
    BY <1>2, <1>4, <1>5, <1>8, <2>1, EmptyBody DEF Opened, Open, ClosedCount
  <2> QED  BY <1>2, <1>8, <2>2 DEF Writes
<1>10. Loads' /\ Stopped'
  BY <1>1 DEF Open, Loads, Stopped, Locals
<1> QED  BY <1>7, <1>9, <1>10 DEF Inv

LEMMA OpenFailsInv == ASSUME Inv, OpenFails PROVE Inv'
<1>1. FilesType /\ Writes /\ Loads
  BY DEF Inv
<1>2. FilesType'
  BY <1>1, ClosedIs, AllClosed, MarshalerAssumption DEF OpenFails, FilesType, ClosedCount
<1>3. Writes' /\ Stopped'
  BY <1>2, AllClosed DEF OpenFails, Writes, Stopped, FilesType
<1>4. Loads'
  BY <1>1 DEF OpenFails, Loads, Locals
<1> QED  BY <1>2, <1>3, <1>4 DEF Inv

(* The ends of a program but the one that writes. *)
LEMMA EndsInv ==
  ASSUME Inv, streams' = [s \in Streams |-> Closed], pc' \in {"ended", "crashed"},
         dest' \in {None, dest}, UNCHANGED <<handle, given>>, UNCHANGED Locals,
         count' \in {0, count}, disk' \in {disk, ClosedDisk}
  PROVE  Inv'
<1>1. FilesType /\ Writes /\ Loads
  BY DEF Inv
<1>2. FilesType'
  <2>1. disk' \in [Files -> Images] /\ \A g \in Files : Whole(disk'[g])
    BY <1>1, ClosedIs DEF FilesType
  <2> QED  BY <1>1, <2>1, AllClosed, MarshalerAssumption DEF FilesType
<1>3. Writes' /\ Stopped'
  BY <1>2, AllClosed DEF Writes, Stopped, FilesType
<1>4. Loads'
  BY <1>1 DEF Loads, Locals
<1> QED  BY <1>2, <1>3, <1>4 DEF Inv

LEMMA DumpInv == ASSUME NEW v \in Values, Inv, Dump(v) PROVE Inv'
<1>1. FilesType /\ Writes /\ Loads /\ pc = "program" /\ pc' = "program" /\ handle' = handle
  BY DEF Inv, Dump
<1>2. Loads' /\ Stopped'
  BY <1>1 DEF Dump, Loads, Stopped, Locals
<1>3. count \in Nat /\ count < MaxCount /\ count' = count + 1 /\ count' \in 0 .. MaxCount
  BY <1>1, MarshalerAssumption DEF Dump, FilesType
<1>4. CASE ~Writing(handle)
  <2>1. UNCHANGED <<streams, disk, given>>
    BY <1>4 DEF Dump
  <2>2. FilesType'
    BY <1>1, <1>3, <2>1 DEF FilesType
  <2>3. Writes'
    BY <1>1, <1>4, <2>1 DEF Writes, Writing
  <2> QED  BY <1>2, <2>2, <2>3 DEF Inv
<1>5. CASE Writing(handle)
  <2>1. PICK f : f = streams[handle].file
    OBVIOUS
  <2>2. PICK old : old = streams[handle].image
    OBVIOUS
  <2>3. PICK image : image = [old EXCEPT !.body = Append(@, Saved(v))]
    OBVIOUS
  <2>4. PICK d \in Flushed(image, disk[f]) :
          /\ streams' = [streams EXCEPT ![handle].image = image] /\ disk' = [disk EXCEPT ![f] = d]
          /\ given' = Append(given, Plain(v))
    BY <1>5, <2>1, <2>2, <2>3 DEF Dump
  <2>5. handle \in Streams /\ streams[handle] \in StreamType /\ streams[handle].mode = "write"
    BY <1>1, <1>5 DEF Writing, FilesType
  <2>6. /\ f \in Files /\ disk[f].count = 0 /\ disk[f].head \in {"empty", "marshal"}
        /\ old.head = "marshal" /\ old.count = 0 /\ Len(old.body) = count /\ Len(given) = count
    BY <1>1, <1>5, <2>1, <2>2 DEF Writes, Opened
  <2>7. old \in Images /\ old.body \in Bodies(Cells) /\ given \in Bodies(PlainValues)
    BY <1>1, <2>2, <2>5 DEF StreamType, Images, FilesType
  <2>8. /\ Append(old.body, Saved(v)) \in Bodies(Cells) /\ Len(Append(old.body, Saved(v))) = count + 1
        /\ given' \in Bodies(PlainValues) /\ Len(given') = count + 1
    BY <1>3, <2>4, <2>6, <2>7, SavedCell, Appended
  <2>9. image \in Images /\ image.head = "marshal" /\ image.count = 0 /\ Len(image.body) = count + 1
    BY <2>3, <2>6, <2>7, <2>8 DEF Images
  <2>10. d \in Images /\ Whole(d) /\ d.count = 0 /\ d.head \in {"empty", "marshal"}
    BY <1>1, <2>4, <2>6, <2>9, FlushedIs DEF FilesType
  <2>11. [streams[handle] EXCEPT !.image = image] \in StreamType
    BY <2>5, <2>9 DEF StreamType
  <2>12. streams' = [streams EXCEPT ![handle] = [streams[handle] EXCEPT !.image = image]]
    BY <2>4
  <2>13. FilesType'
    <3>1. streams' \in [Streams -> StreamType]
      BY <1>1, <2>11, <2>12 DEF FilesType
    <3>2. disk' \in [Files -> Images] /\ \A g \in Files : Whole(disk'[g])
      BY <1>1, <2>4, <2>10 DEF FilesType
    <3> QED  BY <1>1, <1>3, <2>8, <3>1, <3>2 DEF FilesType
  <2>14. /\ streams'[handle].mode = "write" /\ streams'[handle].file = f /\ streams'[handle].image = image
         /\ \A s \in Streams \ {handle} : streams'[s] = streams[s]
    BY <1>1, <2>1, <2>5, <2>12 DEF FilesType, StreamType
  <2>15. disk'[f] = d
    BY <1>1, <2>4, <2>6 DEF FilesType
  <2>16. Opened'
    BY <1>1, <1>3, <2>6, <2>8, <2>9, <2>10, <2>14, <2>15 DEF Opened
  <2>17. Writes'
    BY <1>1, <2>14, <2>16 DEF Writes
  <2> QED  BY <1>2, <2>13, <2>17 DEF Inv
<1> QED  BY <1>4, <1>5

LEMMA WriteTextInv == ASSUME NEW f \in Files, Inv, WriteText(f) PROVE Inv'
<1>1. FilesType /\ Writes /\ Loads /\ pc = "program"
  BY DEF Inv, WriteText
<1>2. PICK d : d = [disk[f] EXCEPT !.head = IF @ = "marshal" THEN @ ELSE "text"]
  OBVIOUS
<1>3. disk[f] \in Images /\ Whole(disk[f])
  BY <1>1 DEF FilesType
<1>4. d \in Images /\ Whole(d)
  BY <1>2, <1>3 DEF Images, Whole
<1>5. disk' = [disk EXCEPT ![f] = d]
  BY <1>2 DEF WriteText
<1>6. FilesType'
  BY <1>1, <1>4, <1>5 DEF WriteText, FilesType
<1>7. Writes'
  <2>1. ASSUME Writing(handle)
        PROVE  Opened'
    <3>1. handle \in Streams /\ streams[handle].mode = "write"
      BY <1>1, <2>1 DEF Writing, FilesType
    <3>2. streams[handle].file # f /\ Opened
      BY <1>1, <2>1, <3>1 DEF Writes, WriteText
    <3>3. disk'[streams[handle].file] = disk[streams[handle].file]
      BY <1>1, <1>5, <3>2 DEF FilesType, Opened
    <3> QED  BY <3>2, <3>3 DEF WriteText, Opened
  <2> QED  BY <1>1, <2>1 DEF WriteText, Writes, Writing
<1>8. Loads' /\ Stopped'
  BY <1>1 DEF WriteText, Loads, Stopped, Locals
<1> QED  BY <1>6, <1>7, <1>8 DEF Inv

(* Steps that open or close a stream that only reads, or none. *)
LEMMA ReaderInv ==
  ASSUME FilesType, Writes, NEW s \in Streams, NEW r \in StreamType,
         streams[s].mode # "write", r.mode # "write", streams' = [streams EXCEPT ![s] = r],
         UNCHANGED <<handle, count, disk, given>>, pc' \in {"program", "load"}
  PROVE  FilesType' /\ Writes'
<1>1. streams' \in [Streams -> StreamType] /\ \A t \in Streams \ {s} : streams'[t] = streams[t]
  BY DEF FilesType
<1>2. FilesType'
  BY <1>1 DEF FilesType
<1>3. streams'[s] = r
  BY DEF FilesType
<1>4. ASSUME Writing(handle)'
      PROVE  Opened' /\ handle' # s
  <2>1. handle' = handle /\ handle \in Streams /\ handle # s
    BY <1>3, <1>4 DEF Writing, FilesType
  <2>2. Writing(handle) /\ streams'[handle] = streams[handle]
    BY <1>1, <1>4, <2>1 DEF Writing
  <2> QED  BY <2>1, <2>2 DEF Writes, Opened
<1> QED  BY <1>1, <1>2, <1>3, <1>4 DEF Writes

LEMMA LoadOpenInv == ASSUME NEW f \in Files, Inv, LoadOpen(f) PROVE Inv'
<1>1. FilesType /\ Writes /\ Loads /\ pc = "program"
  BY DEF Inv, LoadOpen
<1>2. PICK s : s = Lowest
  OBVIOUS
<1>3. s \in Free /\ s \in Streams /\ streams[s].mode = "closed"
  BY <1>2, LeastStream DEF LoadOpen, Lowest, Free
<1>4. PICK r : r = [Closed EXCEPT !.mode = "read", !.file = f]
  OBVIOUS
<1>5. r \in StreamType /\ r.mode = "read"
  BY <1>4, ImagesAre DEF Closed, StreamType
<1>6. streams' = [streams EXCEPT ![s] = r]
  BY <1>2, <1>4 DEF LoadOpen
<1>7. FilesType' /\ Writes'
  BY <1>1, <1>3, <1>5, <1>6, ReaderInv DEF LoadOpen
<1>8. Loads' /\ Stopped'
  <2>1. CASE disk[f].head = "marshal"
    <3>1. /\ pc' = "load" /\ loader' = s /\ source' = f /\ sym_count' = disk[f].count
          /\ unmarshaled' = <<>> /\ dest' = dest /\ disk' = disk
      BY <1>2, <2>1 DEF LoadOpen
    <3>2. <<>> \in Seq(Elements) /\ Len(<<>>) = 0
      BY EmptySeq
    <3>3. disk[f].count \in 0 .. MaxCount /\ 0 <= disk[f].count
      BY <1>1, MarshalerAssumption DEF FilesType, Images
    <3>4. streams'[s].mode = "read"
      BY <1>1, <1>3, <1>5, <1>6 DEF FilesType
    <3> QED  BY <1>1, <1>3, <2>1, <3>1, <3>2, <3>3, <3>4 DEF Loads, Stopped
  <2>2. CASE disk[f].head # "marshal"
    BY <1>1, <2>2 DEF LoadOpen, Loads, Stopped, Locals
  <2> QED  BY <2>1, <2>2
<1> QED  BY <1>7, <1>8 DEF Inv

LEMMA CollectedIs ==
  ASSUME NEW s \in Seq(Elements), NEW b \in BOOLEAN, NEW t \in Surviving(s, b)
  PROVE  t \in Seq(Elements) /\ Len(t) = Len(s)
<1>1. CASE t = s
  BY <1>1
<1>2. CASE t = Collected(s)
  <2>1. Len(s) \in Nat /\ DOMAIN s = 1 .. Len(s) /\ \A i \in 1 .. Len(s) : s[i] \in Elements
    BY LenProperties, ElementOfSeq
  <2>2. ASSUME NEW e \in Elements
        PROVE  [e EXCEPT !.data = Swept] \in Elements
    BY DEF Elements
  <2>3. t \in [1 .. Len(s) -> Elements]
    BY <1>2, <2>1, <2>2 DEF Collected
  <2>4. t \in Seq(Elements)
    BY <2>1, <2>3, SeqDef
  <2> QED  BY <2>1, <2>3, <2>4, LenProperties
<1> QED  BY <1>1, <1>2 DEF Surviving

LEMMA LoadElementInv == ASSUME Inv, LoadElement PROVE Inv'
<1>1. FilesType /\ Writes /\ Loads
  BY DEF Inv
<1>2. FilesType' /\ Writes' /\ Stopped'
  BY DEF Inv, LoadElement, FilesType, Writes, Opened, Writing, Stopped
<1>3. PICK cell : cell = IF Len(unmarshaled) + 1 <= Len(disk[source].body)
                         THEN disk[source].body[Len(unmarshaled) + 1] ELSE [type |-> "NIL", data |-> Swept]
  OBVIOUS
<1>4. PICK s \in Surviving(unmarshaled, cell.type = "STRING") : unmarshaled' = Append(s, cell)
  BY <1>3 DEF LoadElement, Extended
<1>5. pc = "load" /\ pc' = "load" /\ Len(unmarshaled) < sym_count
  BY DEF LoadElement, More
<1>6. cell \in Elements
  <2>1. disk[source].body \in Seq(Cells) /\ Len(unmarshaled) \in Nat
    BY <1>1, <1>5, BodiesAre, LenProperties DEF Loads, FilesType, Images
  <2>2. Len(unmarshaled) + 1 <= Len(disk[source].body) => disk[source].body[Len(unmarshaled) + 1] \in Cells
    BY <2>1, ElementOfSeq, LenProperties
  <2> QED  BY <1>3, <2>2, CellsAre
<1>7. s \in Seq(Elements) /\ Len(s) = Len(unmarshaled)
  BY <1>1, <1>4, CollectedIs DEF Loads
<1>8. unmarshaled' \in Seq(Elements) /\ Len(unmarshaled') = Len(unmarshaled) + 1
  BY <1>4, <1>6, <1>7, AppendProperties
<1>9. Len(unmarshaled') <= sym_count
  BY <1>1, <1>5, <1>8, LenProperties, MarshalerAssumption DEF Loads
<1>10. Loads'
  BY <1>1, <1>5, <1>8, <1>9 DEF LoadElement, Loads
<1> QED  BY <1>2, <1>10 DEF Inv

LEMMA LoadReturnInv == ASSUME Inv, LoadReturn PROVE Inv'
<1>1. FilesType /\ Writes /\ Loads /\ pc = "load"
  BY DEF Inv, LoadReturn
<1>2. loader \in Streams /\ streams[loader].mode = "read"
  BY <1>1 DEF Loads
<1>3. FilesType' /\ Writes'
  BY <1>1, <1>2, ReaderInv, ImagesAre DEF LoadReturn, Closed
<1>4. Len(dest') <= MaxCount
  <2>1. Len(dest') = Len(unmarshaled) /\ Len(unmarshaled) \in Nat
    BY <1>1, CollectedIs, LenProperties DEF LoadReturn, Loads
  <2> QED  BY <1>1, <2>1, MarshalerAssumption DEF Loads
<1>5. Loads' /\ Stopped'
  <2>1. <<>> \in Seq(Elements) /\ Len(<<>>) = 0
    BY EmptySeq
  <2> QED  BY <1>1, <1>4, <2>1, MarshalerAssumption DEF LoadReturn, Loads, Stopped
<1> QED  BY <1>3, <1>5 DEF Inv

LEMMA StartInv == ASSUME Inv, Start PROVE Inv'
<1>1. FilesType /\ Stopped /\ pc \in {"ended", "crashed"}
  BY DEF Inv, Start
<1>2. <<>> \in Seq(Elements) /\ Len(<<>>) = 0 /\ <<>> \in Bodies(PlainValues) /\ 0 \in 0 .. MaxCount
  BY EmptySeq, EmptyBody, MarshalerAssumption
<1>3. FilesType'
  BY <1>1, <1>2 DEF FilesType, Start
<1>4. Writes'
  BY <1>1 DEF Stopped, Start, Writes, Writing
<1>5. Loads' /\ Stopped'
  BY <1>2 DEF Start, Loads, Stopped
<1> QED  BY <1>3, <1>4, <1>5 DEF Inv

LEMMA NextInv == Inv /\ [Next]_vars => Inv'
<1> SUFFICES ASSUME Inv, [Next]_vars
             PROVE  Inv'
  OBVIOUS
<1>1. CASE UNCHANGED vars
  BY <1>1 DEF vars, Inv, FilesType, Writes, Opened, Writing, Loads, Stopped
<1>2. ASSUME NEW f \in Files, Open(f) \/ LoadOpen(f) \/ WriteText(f)
      PROVE  Inv'
  BY <1>2, OpenInv, LoadOpenInv, WriteTextInv
<1>3. CASE LoadFails \/ Destroy \/ Crash
  BY <1>3, EndsInv DEF LoadFails, Destroy, Crash, ClosedCount
<1>4. CASE Exit
  BY <1>4 DEF Exit, Inv, FilesType, Writes, Opened, Writing, Loads, Stopped, Locals
<1> QED  BY <1>1, <1>2, <1>3, <1>4, CloseInv, OpenFailsInv, DumpInv, LoadElementInv, LoadReturnInv, StartInv DEF Next

LEMMA InitInv == Init => Inv
<1> SUFFICES ASSUME Init
             PROVE  Inv
  OBVIOUS
<1>1. <<>> \in Seq(Elements) /\ Len(<<>>) = 0 /\ <<>> \in Bodies(PlainValues) /\ 0 \in 0 .. MaxCount
  BY EmptySeq, EmptyBody, MarshalerAssumption
<1>2. FilesType
  BY <1>1, ImagesAre DEF Init, FilesType
<1>3. Writes /\ Loads /\ Stopped
  BY <1>1 DEF Init, Writes, Writing, Loads, Stopped, Closed
<1> QED  BY <1>2, <1>3 DEF Inv

LEMMA Invariance == Spec => []Inv
BY InitInv, NextInv, PTL DEF Spec

(* Type correctness, for every program: the files hold sequences of cells  *)
(* no longer than a session, the loader reads no more elements than the    *)
(* count says, and the result is no longer (Open, Dump, Load, Close).      *)
THEOREM TypeCorrect == Spec => []TypeOK
BY Invariance, InvTypeOK, PTL

(***************************************************************************)
(* Programs that load dumps only.                                          *)
(***************************************************************************)
Tidy == \A s \in Streams : streams[s].mode = "read" => pc = "load" /\ s = loader

LEMMA NextTidy == ASSUME Inv, Tidy, "foreign" \notin Allowed, [Next]_vars PROVE Tidy'
<1>1. FilesType /\ Writes /\ Loads
  BY DEF Inv
<1>2. CASE UNCHANGED vars \/ LoadElement
  BY <1>2 DEF vars, LoadElement, Tidy
<1>3. ASSUME pc = "program", \A s \in Streams : streams'[s].mode # "read" \/ streams'[s] = streams[s]
      PROVE  Tidy'
  BY <1>3 DEF Tidy
<1>4. CASE Close
  BY <1>1, <1>3, <1>4, ClosedIs DEF Close, Closed
<1>5. ASSUME NEW f \in Files, Open(f)
      PROVE  Tidy'
  <2>1. PICK s, new : streams' = [ClosedStreams EXCEPT ![s] = [mode |-> "write", file |-> f, image |-> new]]
    BY <1>5 DEF Open
  <2>2. \A t \in Streams : streams'[t].mode = "write" \/ streams'[t] = ClosedStreams[t]
    BY <1>1, <2>1, ClosedIs
  <2> QED  BY <1>1, <1>3, <1>5, <2>2, ClosedIs DEF Open, Closed
<1>6. ASSUME NEW v \in Values, Dump(v)
      PROVE  Tidy'
  <2>1. streams' = streams \/ (Writing(handle) /\ \E i : streams' = [streams EXCEPT ![handle].image = i])
    BY <1>6 DEF Dump
  <2>2. \A s \in Streams : streams'[s] = streams[s] \/ streams'[s].mode = "write"
    BY <1>1, <2>1 DEF FilesType, Writing, StreamType
  <2> QED  BY <1>3, <1>6, <2>2 DEF Dump
<1>7. CASE OpenFails \/ LoadFails \/ Destroy \/ Crash
  BY <1>7, AllClosed DEF OpenFails, LoadFails, Destroy, Crash, Tidy
<1>8. ASSUME NEW f \in Files, LoadOpen(f)
      PROVE  Tidy'
  <2>1. pc = "program" /\ pc' = "load" /\ loader' = Lowest
    BY <1>8 DEF LoadOpen
  <2>2. PICK r : streams' = [streams EXCEPT ![Lowest] = r]
    BY <1>8 DEF LoadOpen
  <2>3. \A s \in Streams \ {Lowest} : streams'[s] = streams[s]
    BY <1>1, <2>2 DEF FilesType
  <2> QED  BY <2>1, <2>3 DEF Tidy
<1>9. CASE LoadReturn
  <2>1. streams' = [streams EXCEPT ![loader] = Closed] /\ pc = "load"
    BY <1>9 DEF LoadReturn
  <2>2. \A s \in Streams : streams'[s] = IF s = loader THEN Closed ELSE streams[s]
    BY <1>1, <2>1 DEF FilesType
  <2> QED  BY <2>2 DEF Tidy, Closed
<1>10. CASE Exit \/ Start \/ \E f \in Files : WriteText(f)
  BY <1>10 DEF Exit, Start, WriteText, Tidy
<1> QED  BY <1>2, <1>4, <1>5, <1>6, <1>7, <1>8, <1>9, <1>10 DEF Next

(* Safety, for programs that load dumps only: between two calls no stream  *)
(* is open but that of the session (Close before every Open, fclose at the *)
(* end of Load), so that streams do not run out, however long it runs.     *)
THEOREM StreamsAlwaysClosed ==
  ASSUME "foreign" \notin Allowed
  PROVE  Spec => []StreamsClosed
<1>1. Init => Tidy
  BY DEF Init, Tidy, Closed
<1>2. Inv /\ Tidy /\ [Next]_vars => Tidy'
  BY NextTidy
<1>3. Inv /\ Tidy => StreamsClosed
  <2> SUFFICES ASSUME Inv, Tidy, pc = "program", NEW s \in Streams, streams[s].mode # "closed"
               PROVE  s = handle /\ Writing(s)
    BY DEF StreamsClosed
  <2>1. streams[s].mode = "write"
    BY DEF Inv, FilesType, StreamType, Tidy
  <2> QED  BY <2>1, MarshalerAssumption DEF Inv, Writes, Writing, NoStream
<1> QED  BY <1>1, <1>2, <1>3, Invariance, PTL DEF Spec

(***************************************************************************)
(* The refinement of DumpFiles.                                            *)
(***************************************************************************)
(* The session is in its stream as it was given, and Load has read what is *)
(* in the file.                                                            *)
Faithful ==
  /\ Writing(handle) => streams[handle].image.body = given
  /\ pc = "load" => \A i \in 1 .. Len(unmarshaled) : unmarshaled[i] = disk[source].body[i]

LEMMA SavedPlain ==
  ASSUME NEW v \in Values, v.type \notin {"ARRAY", "CLASS_OBJ"}
  PROVE  Saved(v) = Plain(v)
<1>1. v \in [type : Types, data : {w.data : w \in Values}] /\ (v.type = "NIL" => v.data = None)
  BY MarshalerAssumption
<1>2. Saved(v).data = v.data
  BY <1>1 DEF Saved, Types
<1>3. Plain(v) = [type |-> Plain(v).type, data |-> v.data]
  BY <1>1 DEF Plain
<1> QED  BY <1>2, <1>3 DEF Saved

LEMMA NextFaithful == ASSUME Inv, Faithful, Allowed \subseteq {"foreign"}, [Next]_vars PROVE Faithful'
<1>1. FilesType /\ Writes /\ Loads
  BY DEF Inv
<1>2. CASE UNCHANGED vars
  BY <1>2 DEF vars, Faithful, Writing
<1>3. CASE Close
  <2>1. ~Writing(handle)'
    BY <1>1, <1>3, ClosedIs DEF Close, Writing, FilesType
  <2> QED  BY <1>3, <2>1 DEF Close, Faithful
<1>4. ASSUME NEW f \in Files, Open(f)
      PROVE  Faithful'
  <2> DEFINE free == {s \in Streams : ClosedStreams[s].mode = "closed"}
  <2>1. PICK s : s = CHOOSE r \in free : \A t \in free : r <= t
    OBVIOUS
  <2>2. s \in Streams
    <3>1. free # {} /\ free \in SUBSET Streams
      BY <1>4 DEF Open
    <3>2. s \in free
      <4> HIDE DEF free
      <4> QED  BY <2>1, <3>1, LeastStream
    <3> QED  BY <3>2
  <2>3. PICK new : new = File("marshal", ClosedCount, <<>>)
    OBVIOUS
  <2>4. /\ handle' = s /\ given' = <<>> /\ pc' = pc /\ pc = "program"
        /\ streams' = [ClosedStreams EXCEPT ![s] = [mode |-> "write", file |-> f, image |-> new]]
    BY <1>4, <2>1, <2>3 DEF Open
  <2>5. streams'[s].image = new
    BY <1>1, <2>2, <2>4, ClosedIs
  <2> QED  BY <2>3, <2>4, <2>5 DEF Faithful, File
<1>5. CASE OpenFails \/ LoadFails \/ Destroy \/ Crash
  <2>1. handle' \in Streams \cup {NoStream}
    BY <1>1, <1>5 DEF OpenFails, LoadFails, Destroy, Crash, FilesType
  <2> QED  BY <1>5, <2>1, AllClosed DEF OpenFails, LoadFails, Destroy, Crash, Faithful
<1>6. ASSUME NEW v \in Values, Dump(v)
      PROVE  Faithful'
  <2>1. pc' = "program" /\ handle' = handle
    BY <1>6 DEF Dump
  <2>2. CASE ~Writing(handle)
    BY <1>6, <2>1, <2>2 DEF Dump, Faithful, Writing
  <2>3. CASE Writing(handle)
    <3>1. PICK old : old = streams[handle].image
      OBVIOUS
    <3>2. PICK image : image = [old EXCEPT !.body = Append(@, Saved(v))]
      OBVIOUS
    <3>3. streams' = [streams EXCEPT ![handle].image = image] /\ given' = Append(given, Plain(v))
      BY <1>6, <2>3, <3>1, <3>2 DEF Dump
    <3>4. handle \in Streams /\ streams[handle] \in StreamType
      BY <1>1, <2>3 DEF Writing, FilesType
    <3>5. streams'[handle].image = image
      BY <1>1, <3>3, <3>4 DEF FilesType, StreamType
    <3>6. image.body = Append(given, Saved(v))
      BY <2>3, <3>1, <3>2, <3>4 DEF Faithful, StreamType, Images
    <3>7. Saved(v) = Plain(v)
      BY <1>6, SavedPlain DEF Dump
    <3> QED  BY <2>1, <3>3, <3>5, <3>6, <3>7 DEF Faithful
  <2> QED  BY <2>2, <2>3
<1>7. ASSUME NEW f \in Files, WriteText(f)
      PROVE  Faithful'
  BY <1>7 DEF WriteText, Faithful, Writing
<1>8. ASSUME NEW f \in Files, LoadOpen(f)
      PROVE  Faithful'
  <2>1. Lowest \in Free /\ streams[Lowest].mode = "closed"
    BY <1>8, LeastStream DEF LoadOpen, Lowest, Free
  <2>2. PICK r : r.mode = "read" /\ streams' = [streams EXCEPT ![Lowest] = r]
    BY <1>8 DEF LoadOpen, Closed
  <2>3. Writing(handle)' => Writing(handle) /\ streams'[handle] = streams[handle]
    BY <1>1, <1>8, <2>1, <2>2 DEF LoadOpen, Writing, FilesType, Free
  <2>4. pc' = "load" => unmarshaled' = <<>> /\ Len(<<>>) = 0
    BY <1>8, EmptySeq DEF LoadOpen
  <2>5. Writing(handle)' => (streams[handle].image.body = given)'
    BY <1>8, <2>3 DEF LoadOpen, Faithful
  <2> QED  BY <2>4, <2>5 DEF Faithful
<1>9. CASE LoadElement
  <2>1. /\ pc = "load" /\ Len(unmarshaled) < sym_count /\ sym_count = disk[source].count /\ source \in Files
        /\ UNCHANGED <<handle, streams, disk, source, given, pc>>
    BY <1>1, <1>9 DEF LoadElement, More, Loads
  <2>2. /\ disk[source].count \in {0, Len(disk[source].body)} /\ Len(unmarshaled) \in Nat
        /\ disk[source].body \in Seq(Cells) /\ unmarshaled \in Seq(Elements)
    BY <1>1, <2>1, BodiesAre, LenProperties DEF FilesType, Whole, Loads, Images
  <2>3. PICK n \in Nat : n = Len(unmarshaled)
    BY <2>2
  <2>4. n + 1 <= Len(disk[source].body) /\ Len(disk[source].body) \in Nat
    BY <2>1, <2>2, <2>3, LenProperties
  <2>5. PICK cell : cell = disk[source].body[n + 1]
    OBVIOUS
  <2>6. unmarshaled' = Append(unmarshaled, cell)
    <3>1. PICK s \in Surviving(unmarshaled, cell.type = "STRING") : unmarshaled' = Append(s, cell)
      BY <1>9, <2>3, <2>4, <2>5 DEF LoadElement, Extended
    <3>2. "collect" \notin Allowed
      OBVIOUS
    <3>3. s = unmarshaled
      BY <3>2 DEF Surviving
    <3> QED  BY <3>1, <3>3
  <2>7. cell \in Elements
    BY <2>2, <2>3, <2>4, <2>5, ElementOfSeq, CellsAre
  <2>8. /\ Len(unmarshaled') = n + 1 /\ unmarshaled'[n + 1] = cell
        /\ \A i \in 1 .. n : unmarshaled'[i] = unmarshaled[i]
    BY <2>2, <2>3, <2>6, <2>7, AppendProperties
  <2>9. \A i \in 1 .. n + 1 : i \in 1 .. n \/ i = n + 1
    OBVIOUS
  <2> QED  BY <2>1, <2>3, <2>5, <2>8, <2>9 DEF Faithful, Writing
<1>10. CASE LoadReturn
  <2>1. pc' = "program" /\ UNCHANGED <<handle, given>> /\ streams' = [streams EXCEPT ![loader] = Closed]
    BY <1>10 DEF LoadReturn
  <2>2. Writing(handle)' => Writing(handle) /\ streams'[handle] = streams[handle]
    BY <1>1, <2>1 DEF Writing, FilesType, Closed
  <2> QED  BY <2>1, <2>2 DEF Faithful
<1>11. CASE Exit
  BY <1>11 DEF Exit, Faithful, Writing, Locals
<1>12. CASE Start
  BY <1>12 DEF Start, Faithful, Writing
<1> QED  BY <1>2, <1>3, <1>4, <1>5, <1>6, <1>7, <1>8, <1>9, <1>10, <1>11, <1>12 DEF Next

(* What a load of d gives. *)
Shown(d) ==
  IF d.head = "marshal" THEN Promised!Content(Dumped(d))
  ELSE [state |-> IF d.head = "missing" THEN "missing" ELSE "other", values |-> <<>>]

LEMMA ShownIs ==
  /\ Files_Saved = [f \in Files |-> Shown(disk[f])]
  /\ Files_Saved' = [f \in Files |-> Shown(disk'[f])]
BY DEF Files_Saved, Shown, Dumped, Promised!Content

LEMMA ShownFile ==
  ASSUME NEW d \in Images
  PROVE  /\ d.head = "empty" => Shown(d) = Promised!Other
         /\ d.head = "marshal" /\ d.count = 0 => Shown(d) = Promised!Empty
         /\ d.head = "marshal" /\ d.count = Len(d.body) => Shown(d) = Promised!Content(d.body)
<1>1. d.body \in Seq(Cells) /\ Len(d.body) \in Nat
  BY BodiesAre, LenProperties DEF Images
<1>2. ASSUME d.count = 0
      PROVE  Dumped(d) = <<>>
  BY <1>1, <1>2, SubSeqEmpty DEF Dumped
<1>3. ASSUME d.count = Len(d.body)
      PROVE  Dumped(d) = d.body
  BY <1>1, <1>3, SubSeqFull DEF Dumped
<1> QED  BY <1>2, <1>3 DEF Shown, Promised!Other, Promised!Empty, Promised!Content

LEMMA SessionIs ==
  ASSUME Inv, Writing(handle)
  PROVE  Session = [file |-> streams[handle].file, values |-> given] /\ Session # None
<1>1. streams[handle].file \in Files /\ given \in Seq(PlainValues)
  BY BodiesAre DEF Inv, Writes, Opened, FilesType
<1>2. PlainValues \subseteq [type : Types, data : {v.data : v \in Values}]
  <2>1. ASSUME NEW v \in Values
        PROVE  Plain(v) \in [type : Types, data : {w.data : w \in Values}]
    BY MarshalerAssumption DEF Plain, Types
  <2> QED  BY <2>1 DEF PlainValues
<1>3. Session = [file |-> streams[handle].file, values |-> given]
  BY DEF Session
<1>4. Session \in [file : Files, values : Seq([type : Types, data : {v.data : v \in Values}])]
  <2>1. given \in Seq([type : Types, data : {v.data : v \in Values}])
    <3>1. PICK R : R = [type : Types, data : {v.data : v \in Values}]
      OBVIOUS
    <3>2. Len(given) \in Nat /\ given \in [1 .. Len(given) -> PlainValues]
      BY <1>1, LenProperties
    <3>3. given \in [1 .. Len(given) -> R]
      BY <1>2, <3>1, <3>2
    <3>4. Seq(R) = UNION {[1 .. n -> R] : n \in Nat}
      BY SeqDef
    <3>5. given \in Seq(R)
      BY <3>2, <3>3, <3>4
    <3> QED  BY <3>1, <3>5
  <2> QED  BY <1>1, <1>3, <2>1
<1> QED  BY <1>3, <1>4, MarshalerAssumption

(* Closing the session, or leaving it, commits it. *)
LEMMA ClosedShown ==
  ASSUME Inv, Faithful
  PROVE  [f \in Files |-> Shown(ClosedDisk[f])] = Promised!Committed
<1>1. CASE ~Writing(handle)
  BY <1>1, ShownIs DEF Promised!Committed, Session, ClosedDisk
<1>2. CASE Writing(handle)
  <2>1. PICK file : file = streams[handle].file
    OBVIOUS
  <2>2. PICK image : image = [streams[handle].image EXCEPT !.count = count]
    OBVIOUS
  <2>3. ClosedDisk = [disk EXCEPT ![file] = image]
    BY <1>2, <2>1, <2>2 DEF ClosedDisk
  <2>4. handle \in Streams /\ streams[handle].image \in Images /\ Opened /\ disk \in [Files -> Images]
        /\ count \in 0 .. MaxCount
    BY <1>2 DEF Inv, FilesType, Writes, Writing, StreamType
  <2>5. /\ image \in Images /\ image.head = "marshal" /\ image.body = given
        /\ image.count = Len(image.body) /\ file \in Files
    BY <1>2, <2>1, <2>2, <2>4 DEF Images, Opened, Faithful
  <2>6. Shown(image) = Promised!Content(given)
    BY <2>5, ShownFile
  <2>7. \A f \in Files : ClosedDisk[f] = IF f = file THEN image ELSE disk[f]
    BY <2>3, <2>4
  <2>8. Promised!Committed = [Files_Saved EXCEPT ![file] = Promised!Content(given)]
    <3>1. Session # None /\ Session.file = file /\ Session.values = given
      BY <1>2, <2>1, SessionIs
    <3> QED  BY <3>1 DEF Promised!Committed
  <2> QED  BY <2>6, <2>7, <2>8, ShownIs
<1> QED  BY <1>1, <1>2

LEMMA CommitStep ==
  ASSUME Inv, Faithful, disk' = ClosedDisk, dest' = dest, ~Writing(handle)'
  PROVE  Promised!Commit
<1>1. Session' = None
  BY DEF Session
<1> QED  BY <1>1, ClosedShown, ShownIs DEF Promised!Commit

LEMMA CrashStep ==
  ASSUME disk' = disk, dest' = None, ~Writing(handle)'
  PROVE  Promised!Crash
<1>1. Session' = None
  BY DEF Session
<1> QED  BY <1>1, ShownIs DEF Promised!Crash

LEMMA StutterStep ==
  ASSUME disk' = disk, dest' = dest, given' = given, Writing(handle)' <=> Writing(handle),
         Writing(handle) => streams'[handle'] = streams[handle]
  PROVE  UNCHANGED <<Files_Saved, Session, dest>>
<1>1. Session' = Session
  BY DEF Session
<1> QED  BY <1>1, ShownIs

LEMMA OpenStep ==
  ASSUME Inv, Faithful, NEW f \in Files, Open(f)
  PROVE  Promised!Begin(f)
<1> DEFINE free == {s \in Streams : ClosedStreams[s].mode = "closed"}
<1>1. PICK s : s = CHOOSE r \in free : \A t \in free : r <= t
  OBVIOUS
<1>2. s \in Streams /\ s # NoStream
  <2>1. free # {} /\ free \in SUBSET Streams
    BY DEF Open
  <2>2. s \in free
    <3> HIDE DEF free
    <3> QED  BY <1>1, <2>1, LeastStream
  <2> QED  BY <2>2, MarshalerAssumption DEF NoStream
<1>3. PICK new : new = File("marshal", ClosedCount, <<>>)
  OBVIOUS
<1>4. /\ handle' = s /\ given' = <<>> /\ dest' = dest
      /\ streams' = [ClosedStreams EXCEPT ![s] = [mode |-> "write", file |-> f, image |-> new]]
  BY <1>1, <1>3 DEF Open
<1>5. PICK d \in Flushed(new, Blank) : disk' = [ClosedDisk EXCEPT ![f] = d]
  BY <1>3 DEF Open
<1>6. FilesType /\ Writes
  BY DEF Inv
<1>7. new \in Images /\ new.head = "marshal" /\ new.count = 0
  BY <1>3, ImagesAre DEF File, ClosedCount
<1>8. d \in Images /\ d.count = 0 /\ d.head \in {"empty", "marshal"}
  BY <1>7, ImagesAre, FlushedIs
<1>9. Shown(d) \in {Promised!Other, Promised!Empty}
  BY <1>8, ShownFile
<1>10. Files_Saved' = [Promised!Committed EXCEPT ![f] = Shown(d)]
  <2>1. \A g \in Files : disk'[g] = IF g = f THEN d ELSE ClosedDisk[g]
    BY <1>5, <1>6, ClosedIs
  <2> QED  BY <2>1, ClosedShown, ShownIs
<1>11. Session' = [file |-> f, values |-> <<>>]
  <2>1. streams'[s] = [mode |-> "write", file |-> f, image |-> new]
    BY <1>2, <1>4, <1>6, ClosedIs
  <2> QED  BY <1>2, <1>4, <2>1 DEF Session, Writing
<1> QED  BY <1>4, <1>9, <1>10, <1>11 DEF Promised!Begin

LEMMA DumpStep ==
  ASSUME Inv, Inv', NEW v \in Values, Dump(v)
  PROVE  Promised!Next \/ UNCHANGED <<Files_Saved, Session, dest>>
<1>1. CASE ~Writing(handle)
  BY <1>1, StutterStep DEF Dump, Writing
<1>2. CASE Writing(handle)
  <2>1. PICK f : f = streams[handle].file
    OBVIOUS
  <2>2. PICK old : old = streams[handle].image
    OBVIOUS
  <2>3. PICK image : image = [old EXCEPT !.body = Append(@, Saved(v))]
    OBVIOUS
  <2>4. PICK d \in Flushed(image, disk[f]) :
          /\ streams' = [streams EXCEPT ![handle].image = image] /\ disk' = [disk EXCEPT ![f] = d]
          /\ given' = Append(given, Plain(v)) /\ handle' = handle /\ dest' = dest
    BY <1>2, <2>1, <2>2, <2>3 DEF Dump
  <2>5. handle \in Streams /\ streams[handle] \in StreamType /\ streams \in [Streams -> StreamType]
        /\ disk \in [Files -> Images] /\ Opened
    BY <1>2 DEF Inv, Writing, FilesType, Writes
  <2>6. streams'[handle].mode = streams[handle].mode /\ streams'[handle].file = f
    BY <2>1, <2>4, <2>5 DEF StreamType
  <2>7. Writing(handle)'
    BY <1>2, <2>4, <2>6 DEF Writing
  <2>8. Session = [file |-> f, values |-> given] /\ Session # None /\ Session' = [file |-> f, values |-> Append(given, Plain(v))]
    BY <1>2, <2>1, <2>4, <2>6, <2>7, SessionIs DEF Session
  <2>9. f \in Files /\ disk[f].count = 0 /\ disk[f].head \in {"empty", "marshal"} /\ disk'[f] = d
    BY <2>1, <2>4, <2>5 DEF Opened
  <2>10. d \in Images /\ d.count = 0 /\ (d.head = "marshal" \/ (d.head = "empty" /\ disk[f].head = "empty"))
    <3>1. disk'[f] \in Images /\ d.count = 0 /\ d.head \in {"empty", "marshal"}
      <4>1. Opened' /\ disk' \in [Files -> Images]
        BY <2>7 DEF Inv, Writes, FilesType
      <4> QED  BY <2>4, <2>6, <2>9, <4>1 DEF Opened
    <3>2. d.head = "empty" => disk[f].head = "empty"
      <4>1. old.head = "marshal"
        BY <2>2, <2>5 DEF Opened
      <4>2. old \in Images
        BY <2>2, <2>5 DEF StreamType
      <4>3. image.head = "marshal"
        BY <2>3, <4>1, <4>2 DEF Images
      <4>4. \A n : [image EXCEPT !.body = SubSeq(image.body, 1, n)].head = image.head
        BY <2>3, <4>2 DEF Images
      <4>5. d.head = "marshal" \/ (d = Blank /\ disk[f].head = "empty")
        BY <2>4, <4>3, <4>4 DEF Flushed
      <4> QED  BY <4>5 DEF Blank, File
    <3> QED  BY <2>9, <3>1, <3>2
  <2>11. Shown(d) = Promised!Empty \/ Shown(d) = Shown(disk[f])
    BY <2>5, <2>9, <2>10, ShownFile
  <2>12. \A g \in Files : disk'[g] = IF g = f THEN d ELSE disk[g]
    BY <2>4, <2>5
  <2>13. Files_Saved' = Files_Saved \/ Files_Saved' = [Files_Saved EXCEPT ![f] = Promised!Empty]
    BY <2>11, <2>12, ShownIs
  <2>14. Promised!Dump(Plain(v))
    <3>1. Session.file = f /\ Session.values = given
      BY <2>8
    <3>2. Session' = [Session EXCEPT !.values = Append(@, Plain(v))]
      <4>1. PICK S, w : S = [file |-> f, values |-> given] /\ w = Append(given, Plain(v))
        OBVIOUS
      <4>2. [S EXCEPT !.values = Append(@, Plain(v))] = [file |-> f, values |-> w]
        BY <4>1
      <4> QED  BY <2>8, <4>1, <4>2
    <3> QED  BY <2>4, <2>8, <2>13, <3>1, <3>2 DEF Promised!Dump
  <2> QED  BY <2>14, SavedCell DEF Promised!Next
<1> QED  BY <1>1, <1>2

LEMMA WriteTextStep ==
  ASSUME Inv, NEW f \in Files, WriteText(f)
  PROVE  Promised!Next \/ UNCHANGED <<Files_Saved, Session, dest>>
<1>1. PICK d : d = [disk[f] EXCEPT !.head = IF @ = "marshal" THEN @ ELSE "text"]
  OBVIOUS
<1>2. disk \in [Files -> Images] /\ disk' = [disk EXCEPT ![f] = d] /\ disk[f] \in Images
  BY <1>1 DEF Inv, FilesType, WriteText
<1>3. \A g \in Files : disk'[g] = IF g = f THEN d ELSE disk[g]
  BY <1>2
<1>4. Session' = Session /\ dest' = dest
  BY DEF WriteText, Session, Writing
<1>5. CASE disk[f].head = "marshal"
  <2>1. d = disk[f]
    BY <1>1, <1>2, <1>5 DEF Images
  <2> QED  BY <1>3, <1>4, <2>1, ShownIs
<1>6. CASE disk[f].head # "marshal"
  <2>1. d.head = "text"
    BY <1>1, <1>2, <1>6 DEF Images
  <2>2. Shown(d) = Promised!Other
    BY <2>1 DEF Shown, Promised!Other
  <2>3. Shown(disk[f]) = Promised!Other \/ Shown(disk[f]) = Promised!Missing
    BY <1>6 DEF Shown, Promised!Other, Promised!Missing
  <2>4. Files_Saved' = [Files_Saved EXCEPT ![f] = Promised!Other] /\ Files_Saved[f] = Shown(disk[f])
    BY <1>3, <2>2, ShownIs
  <2>5. CASE Shown(disk[f]) = Promised!Other
    BY <1>4, <2>4, <2>5, ShownIs
  <2>6. CASE Shown(disk[f]) = Promised!Missing
    <3>1. Promised!Create(f)
      BY <1>4, <2>4, <2>6 DEF Promised!Create
    <3> QED  BY <3>1 DEF Promised!Next
  <2> QED  BY <2>3, <2>5, <2>6
<1> QED  BY <1>5, <1>6

LEMMA LoadReturnStep ==
  ASSUME Inv, Faithful, "collect" \notin Allowed, LoadReturn
  PROVE  Promised!Next
<1>1. /\ source \in Files /\ disk[source].head = "marshal" /\ sym_count = disk[source].count
      /\ disk[source] \in Images /\ Whole(disk[source]) /\ unmarshaled \in Seq(Elements)
      /\ loader \in Streams /\ streams[loader].mode = "read" /\ Len(unmarshaled) <= sym_count
      /\ streams \in [Streams -> StreamType]
  BY DEF Inv, FilesType, Loads, LoadReturn
<1>2. dest' = unmarshaled /\ disk' = disk /\ handle' = handle /\ given' = given
      /\ streams' = [streams EXCEPT ![loader] = Closed]
  BY DEF LoadReturn, Surviving
<1>3. disk[source].body \in Seq(Cells) /\ sym_count \in Nat /\ Len(unmarshaled) \in Nat
  BY <1>1, BodiesAre, LenProperties, MarshalerAssumption DEF Images
<1>4. Len(unmarshaled) = disk[source].count
  BY <1>1, <1>3 DEF LoadReturn, More
<1>5. Shown(disk[source]) = Promised!Content(unmarshaled)
  <2>1. CASE disk[source].count = 0
    <3>1. unmarshaled = <<>>
      BY <1>1, <1>4, <2>1, EmptySeq
    <3> QED  BY <1>1, <2>1, <3>1, ShownFile DEF Promised!Empty
  <2>2. CASE disk[source].count = Len(disk[source].body)
    <3>1. \A i \in 1 .. Len(unmarshaled) : unmarshaled[i] = disk[source].body[i]
      BY DEF Faithful, LoadReturn
    <3>2. Len(unmarshaled) = Len(disk[source].body)
      BY <1>4, <2>2
    <3>3. unmarshaled = disk[source].body
      BY <1>1, <1>3, <3>1, <3>2, SeqEqual
    <3> QED  BY <1>1, <2>2, <3>3, ShownFile
  <2> QED  BY <1>1, <2>1, <2>2 DEF Whole
<1>6. Session' = Session
  <2>1. Writing(handle)' <=> Writing(handle)
    BY <1>1, <1>2 DEF Writing, Closed
  <2>2. Writing(handle) => streams'[handle'] = streams[handle]
    BY <1>1, <1>2 DEF Writing, Closed
  <2> QED  BY <1>2, <2>1, <2>2 DEF Session
<1>7. Promised!Load(source)
  BY <1>1, <1>2, <1>5, <1>6, ShownIs DEF Promised!Load, Promised!Content
<1> QED  BY <1>1, <1>7 DEF Promised!Next

LEMMA NextPromised ==
  ASSUME Inv, Inv', Faithful, Allowed \subseteq {"foreign"}, [Next]_vars
  PROVE  Promised!Next \/ UNCHANGED <<Files_Saved, Session, dest>>
<1>1. FilesType /\ Writes /\ FilesType'
  BY DEF Inv
<1>2. CASE UNCHANGED vars \/ LoadElement \/ Exit
  BY <1>2, StutterStep DEF vars, LoadElement, Exit, Writing
<1>3. CASE Close
  <2>1. ~Writing(handle)'
    BY <1>1, <1>3, ClosedIs DEF Close, Writing, FilesType
  <2>2. Promised!Commit
    BY <1>3, <2>1, CommitStep DEF Close
  <2> QED  BY <2>2 DEF Promised!Next
<1>4. CASE OpenFails \/ Destroy
  <2>1. ~Writing(handle)'
    BY <1>1, <1>4, AllClosed DEF OpenFails, Destroy, FilesType
  <2>2. Promised!Commit
    BY <1>4, <2>1, CommitStep DEF OpenFails, Destroy
  <2> QED  BY <2>2 DEF Promised!Next
<1>5. CASE LoadFails \/ Crash
  <2>1. ~Writing(handle)'
    BY <1>1, <1>5, AllClosed DEF LoadFails, Crash, FilesType
  <2>2. Promised!Crash
    BY <1>5, <2>1, CrashStep DEF LoadFails, Crash
  <2> QED  BY <2>2 DEF Promised!Next
<1>6. CASE Start
  <2>1. Promised!Crash
    BY <1>6, CrashStep DEF Start, Writing
  <2> QED  BY <2>1 DEF Promised!Next
<1>7. ASSUME NEW f \in Files, Open(f)
      PROVE  Promised!Next
  BY <1>7, OpenStep DEF Promised!Next
<1>8. ASSUME NEW f \in Files, LoadOpen(f)
      PROVE  UNCHANGED <<Files_Saved, Session, dest>>
  <2>1. Lowest \in Free /\ streams[Lowest].mode = "closed"
    BY <1>8, LeastStream DEF LoadOpen, Lowest, Free
  <2>2. PICK r : r.mode = "read" /\ streams' = [streams EXCEPT ![Lowest] = r]
    BY <1>8 DEF LoadOpen, Closed
  <2>3. Writing(handle)' <=> Writing(handle)
    BY <1>1, <1>8, <2>1, <2>2 DEF LoadOpen, Writing, FilesType, Free
  <2>4. Writing(handle) => streams'[handle'] = streams[handle]
    BY <1>1, <1>8, <2>1, <2>2 DEF LoadOpen, Writing, FilesType, Free
  <2> QED  BY <1>8, <2>3, <2>4, StutterStep DEF LoadOpen
<1>9. CASE LoadReturn
  <2>1. "collect" \notin Allowed
    OBVIOUS
  <2> QED  BY <1>9, <2>1, LoadReturnStep
<1> QED  BY <1>2, <1>3, <1>4, <1>5, <1>6, <1>7, <1>8, <1>9, DumpStep, WriteTextStep DEF Next

(* Safety, as a refinement, for programs that dump numbers, booleans,      *)
(* texts and nil, and load when no collection is due: whatever is buffered *)
(* when a program crashes, a file holds all the values of a session that   *)
(* ended, or none (Open, Dump, Load, Close; the count in the header).      *)
THEOREM PromiseAlwaysKept ==
  ASSUME Allowed \subseteq {"foreign"}
  PROVE  Spec => PromisedSpec
<1>1. Init => Promised!Init /\ Faithful
  <2> SUFFICES ASSUME Init
               PROVE  Promised!Init /\ Faithful
    OBVIOUS
  <2>1. ~Writing(handle) /\ pc # "load"
    BY DEF Init, Writing
  <2>2. Files_Saved = [f \in Files |-> Promised!Missing] /\ Session = None /\ dest = None
    BY <2>1 DEF Init, Files_Saved, Session, Missing, File, Promised!Missing
  <2> QED  BY <2>1, <2>2 DEF Promised!Init, Faithful
<1>2. Inv /\ Faithful /\ [Next]_vars => Faithful'
  BY NextFaithful
<1>3. Inv /\ Inv' /\ Faithful /\ [Next]_vars => [Promised!Next]_<<Files_Saved, Session, dest>>
  BY NextPromised
<1> QED  BY <1>1, <1>2, <1>3, Invariance, PTL DEF Spec, PromisedSpec, Promised!Spec
=============================================================================
