-------------------------------- MODULE Marshaler --------------------------------
(***************************************************************************)
(* The marshaler (Marshal.cpp), called by the program through IO.cpp: one  *)
(* instance, global_marshal, that dumps values to a file and loads them.   *)
(* The count in the header is zero until Close writes it, which is what    *)
(* makes a file whose session was cut off load as empty.                   *)
(*                                                                         *)
(* The C library is modelled as the code uses it.  fopen takes the lowest  *)
(* free stream; a writer has an image of the file, of which the library    *)
(* keeps a part in its buffer; what is done to a closed stream fails.      *)
(* Close does not reset handle, so the next Open, Dump or Close, and the   *)
(* destructor, use a stream that is closed or belongs to someone else.     *)
(*                                                                         *)
(* The program may crash at any time, and then loses what is buffered.     *)
(* The next program starts over on the same files.                         *)
(***************************************************************************)
EXTENDS Naturals, Sequences, FiniteSets

CONSTANTS
  Files, Values,  (* values are [type, data]                                *)
  None, Swept,    (* the data of a value without data, and of freed memory  *)
  Streams,        (* the streams of the C library, 1 .. n                   *)
  MaxCount,       (* bound on the values of a session                       *)
  Allowed         (* the Habits the program has                             *)

Types == {"NIL", "BOOL", "INT", "DOUBLE", "TEXT", "STRING", "ARRAY", "CLASS_OBJ"}

(* What a disciplined program does not do: dump an array or an object, of  *)
(* which only the type is written; load a file that is not a dump; let a   *)
(* collection run while it loads.                                          *)
Habits == {"container", "foreign", "collect"}

ASSUME MarshalerAssumption ==
  /\ Allowed \subseteq Habits /\ MaxCount \in Nat
  /\ Streams \subseteq Nat \ {0} /\ IsFiniteSet(Streams) /\ Streams # {}
  /\ Values \subseteq [type : Types, data : {v.data : v \in Values}]
  /\ \A v \in Values : v.type = "NIL" => v.data = None
  /\ None \notin [file : Files, values : Seq([type : Types, data : {v.data : v \in Values}])]

NoStream == 0

VARIABLES
  handle, count,       (* the members of Marshaler                          *)
  streams, disk,       (* the C library and the file system                 *)
  loader, sym_count, unmarshaled, source,   (* the locals of Load: the      *)
                       (* stream, the count, the elements read, the file    *)
  dest,                (* what the last load returned                       *)
  given,               (* history: the values of the open session           *)
  pc                   (* the program, or the handler that runs             *)

vars == <<handle, count, streams, disk, loader, sym_count, unmarshaled, source, dest, given, pc>>
-----------------------------------------------------------------------------
(* Files.  head tells whether there is a file, and if it starts with the   *)
(* signature.  A cell is what Dump writes for a value.                     *)
File(h, n, b) == [head |-> h, count |-> n, body |-> b]
Missing == File("missing", 0, <<>>)
Blank   == File("empty", 0, <<>>)
Text    == File("text", 0, <<>>)

Closed == [mode |-> "closed", file |-> None, image |-> Blank]

Free == {s \in Streams : streams[s].mode = "closed"}
Lowest == CHOOSE s \in Free : \A t \in Free : s <= t

(* What of an image may be on the disk: the header leaves the buffer in    *)
(* one piece.                                                              *)
Flushed(image, old) ==
  {[image EXCEPT !.body = SubSeq(image.body, 1, n)] : n \in Len(old.body) .. Len(image.body)}
  \cup (IF old.head = "empty" THEN {Blank} ELSE {})

Writing(s) == s # NoStream /\ streams[s].mode = "write"

(* Faulty: the count is reset for the first session only.                  *)
ClosedCount_kept == IF handle = NoStream THEN 0 ELSE count

(* The state that Close leaves: count, streams and disk.                   *)
ClosedCount   == 0
ClosedStreams == IF handle = NoStream THEN streams ELSE [streams EXCEPT ![handle] = Closed]
ClosedDisk ==
  IF Writing(handle)
  THEN [disk EXCEPT ![streams[handle].file] = [streams[handle].image EXCEPT !.count = count]]
  ELSE disk

Locals == <<loader, sym_count, unmarshaled, source>>

Close ==
  /\ pc = "program"
  /\ streams' = ClosedStreams /\ disk' = ClosedDisk /\ count' = ClosedCount
  /\ UNCHANGED <<handle, dest, given, pc>> /\ UNCHANGED Locals

(* Faulty: the session before is not closed.                               *)
Open_over(f) ==
  /\ pc = "program" /\ Free # {}
  /\ handle' = Lowest /\ count' = 0
  /\ \E d \in Flushed(File("marshal", 0, <<>>), Blank) :
       /\ streams' = [streams EXCEPT ![Lowest] = [mode |-> "write", file |-> f, image |-> File("marshal", 0, <<>>)]]
       /\ disk' = [disk EXCEPT ![f] = d]
  /\ given' = <<>>
  /\ UNCHANGED <<dest, pc>> /\ UNCHANGED Locals

(* Open calls Close, for a session before that is not closed yet.          *)
Open(f) ==
  LET free == {s \in Streams : ClosedStreams[s].mode = "closed"}
      s    == CHOOSE s \in free : \A t \in free : s <= t
      new  == File("marshal", ClosedCount, <<>>)
  IN
  /\ pc = "program" /\ free # {}
  /\ handle' = s /\ count' = ClosedCount
  /\ streams' = [ClosedStreams EXCEPT ![s] = [mode |-> "write", file |-> f, image |-> new]]
  /\ \E d \in Flushed(new, Blank) : disk' = [ClosedDisk EXCEPT ![f] = d]
  /\ given' = <<>>
  /\ UNCHANGED <<dest, pc>> /\ UNCHANGED Locals

(* fopen gives NULL, and the library ends a program that writes to it.     *)
OpenFails ==
  /\ pc = "program"
  /\ streams' = [s \in Streams |-> Closed] /\ disk' = ClosedDisk /\ count' = ClosedCount
  /\ handle' = NoStream /\ pc' = "crashed"
  /\ UNCHANGED <<dest, given>> /\ UNCHANGED Locals

(* Values that a program cannot tell apart.                                *)
Plain(v) == [v EXCEPT !.type = IF @ = "TEXT" THEN "STRING" ELSE @]

(* A text is saved as a string; only numbers, booleans and texts have      *)
(* their data written.                                                     *)
Saved(v) ==
  [type |-> Plain(v).type,
   data |-> IF v.type \in {"BOOL", "INT", "DOUBLE", "TEXT", "STRING"} THEN v.data ELSE None]

Dump(v) ==
  /\ pc = "program" /\ count < MaxCount
  /\ v.type \in {"ARRAY", "CLASS_OBJ"} => "container" \in Allowed
  /\ handle # NoStream
  /\ count' = count + 1
  /\ IF Writing(handle)
     THEN LET f     == streams[handle].file
              image == [streams[handle].image EXCEPT !.body = Append(@, Saved(v))]
          IN /\ streams' = [streams EXCEPT ![handle].image = image]
             /\ \E d \in Flushed(image, disk[f]) : disk' = [disk EXCEPT ![f] = d]
             /\ given' = Append(given, Plain(v))
     ELSE UNCHANGED <<streams, disk, given>>
  /\ UNCHANGED <<handle, dest, pc>> /\ UNCHANGED Locals

(* Crystal_WriteText, by this program or another, on a file that is not    *)
(* open.                                                                   *)
WriteText(f) ==
  /\ pc = "program" /\ \A s \in Streams : streams[s].mode # "closed" => streams[s].file # f
  /\ disk' = [disk EXCEPT ![f].head = IF @ = "marshal" THEN @ ELSE "text"]
  /\ UNCHANGED <<handle, count, streams, dest, given, pc>> /\ UNCHANGED Locals

(* Load.  A file without the signature is not closed again, and dest keeps *)
(* what it held.                                                           *)
LoadOpen(f) ==
  LET s == Lowest IN
  /\ pc = "program" /\ Free # {} /\ disk[f].head # "missing"
  /\ disk[f].head # "marshal" => "foreign" \in Allowed
  /\ streams' = [streams EXCEPT ![s] = [Closed EXCEPT !.mode = "read", !.file = f]]
  /\ IF disk[f].head = "marshal"
     THEN /\ pc' = "load" /\ loader' = s /\ source' = f
          /\ sym_count' = disk[f].count /\ unmarshaled' = <<>>
     ELSE UNCHANGED pc /\ UNCHANGED Locals
  /\ UNCHANGED <<handle, count, disk, dest, given>>

(* A missing file, or no stream left: the library is given NULL.           *)
LoadFails ==
  /\ pc = "program" /\ (Free = {} \/ \E f \in Files : disk[f].head = "missing")
  /\ pc' = "crashed" /\ streams' = [s \in Streams |-> Closed] /\ dest' = None
  /\ UNCHANGED <<handle, count, disk, given>> /\ UNCHANGED Locals

(* The strings read so far are no roots: a collection frees them.          *)
Collected(elements) ==
  [i \in DOMAIN elements |->
     IF elements[i].type = "STRING" THEN [elements[i] EXCEPT !.data = Swept] ELSE elements[i]]
Surviving(elements, allocates) ==
  {elements} \cup (IF allocates /\ "collect" \in Allowed THEN {Collected(elements)} ELSE {})

(* Faulty: reads an element more than there are.                           *)
More_off == Len(unmarshaled) <= sym_count
More     == Len(unmarshaled) < sym_count

(* Faulty: a string is read again.                                         *)
Extended_stuck(cell, survivors) == IF cell.type = "STRING" THEN survivors ELSE Append(survivors, cell)
Extended(cell, survivors) == Append(survivors, cell)

LoadElement ==
  LET i    == Len(unmarshaled) + 1
      body == disk[source].body
      cell == IF i <= Len(body) THEN body[i] ELSE [type |-> "NIL", data |-> Swept]
  IN
  /\ pc = "load" /\ More
  /\ \E survivors \in Surviving(unmarshaled, cell.type = "STRING") :
       unmarshaled' = Extended(cell, survivors)
  /\ UNCHANGED <<handle, count, streams, disk, loader, sym_count, source, dest, given, pc>>

LoadReturn ==
  /\ pc = "load" /\ ~More
  /\ dest' \in Surviving(unmarshaled, TRUE)
  /\ streams' = [streams EXCEPT ![loader] = Closed]
  /\ pc' = "program"
  /\ loader' = NoStream /\ sym_count' = 0 /\ unmarshaled' = <<>> /\ source' = None
  /\ UNCHANGED <<handle, count, disk, given>>

(* The program ends: the destructor of global_marshal runs, and the        *)
(* library closes what is left.                                            *)
Exit ==
  /\ pc = "program" /\ pc' = "exit"
  /\ UNCHANGED <<handle, count, streams, disk, dest, given>> /\ UNCHANGED Locals

(* Faulty: there is no destructor, and the count is not written.           *)
Destroy_silent ==
  /\ pc = "exit" /\ pc' = "ended"
  /\ streams' = [s \in Streams |-> Closed]
  /\ disk' = IF Writing(handle) THEN [disk EXCEPT ![streams[handle].file] = streams[handle].image] ELSE disk
  /\ UNCHANGED <<handle, count, dest, given>> /\ UNCHANGED Locals

Destroy ==
  /\ pc = "exit" /\ pc' = "ended"
  /\ streams' = [s \in Streams |-> Closed] /\ disk' = ClosedDisk /\ count' = ClosedCount
  /\ UNCHANGED <<handle, dest, given>> /\ UNCHANGED Locals

Crash ==
  /\ pc \in {"program", "load", "exit"} /\ pc' = "crashed"
  /\ streams' = [s \in Streams |-> Closed] /\ dest' = None
  /\ UNCHANGED <<handle, count, disk, given>> /\ UNCHANGED Locals

(* The next program: handle is set by the constructor, count by the loader *)
(* of the executable.                                                      *)
Start ==
  /\ pc \in {"ended", "crashed"} /\ pc' = "program"
  /\ handle' = NoStream /\ count' = 0 /\ dest' = None /\ given' = <<>>
  /\ loader' = NoStream /\ sym_count' = 0 /\ unmarshaled' = <<>> /\ source' = None
  /\ UNCHANGED <<streams, disk>>

Init ==
  /\ handle = NoStream /\ count = 0
  /\ streams = [s \in Streams |-> Closed] /\ disk = [f \in Files |-> Missing]
  /\ loader = NoStream /\ sym_count = 0 /\ unmarshaled = <<>> /\ source = None
  /\ dest = None /\ given = <<>> /\ pc = "program"

Next ==
  \/ Close \/ OpenFails \/ LoadFails \/ LoadElement \/ LoadReturn
  \/ Exit \/ Destroy \/ Crash \/ Start
  \/ \E f \in Files : Open(f) \/ LoadOpen(f) \/ WriteText(f)
  \/ \E v \in Values : Dump(v)

(* A handler that was entered runs to its end: the program has one thread, *)
(* and a destructor runs after main.  What the program calls, and whether  *)
(* it ends, is up to it.                                                   *)
Fairness == WF_vars(LoadElement \/ LoadReturn) /\ WF_vars(Destroy)

Spec == Init /\ [][Next]_vars /\ Fairness
-----------------------------------------------------------------------------
Bodies(cells) == UNION {[1 .. n -> cells] : n \in 0 .. MaxCount}
PlainValues   == {Plain(v) : v \in Values}

TypeOK ==
  /\ handle \in Streams \cup {NoStream} /\ count \in 0 .. MaxCount
  /\ \A s \in Streams : streams[s].mode \in {"closed", "read", "write"}
  /\ \A f \in Files : /\ disk[f].head \in {"missing", "empty", "text", "marshal"}
                      /\ disk[f].body \in Bodies({Saved(v) : v \in Values})
  /\ loader \in Streams \cup {NoStream}
  /\ sym_count \in 0 .. MaxCount /\ Len(unmarshaled) <= sym_count
  /\ dest = None \/ Len(dest) <= MaxCount
  /\ given \in Bodies(PlainValues)
  /\ pc \in {"program", "load", "exit", "ended", "crashed"}

(* Between two calls no stream is open but the one of the session, and a   *)
(* program can open and load files as often as it likes: a stream is lost  *)
(* neither by a session that is opened over another, nor by a load.        *)
StreamsClosed ==
  pc = "program" => \A s \in Streams : streams[s].mode # "closed" => s = handle /\ Writing(s)

(* What a load of a file gives, and the open session.                      *)
Dumped(c) == SubSeq(c.body, 1, IF c.count <= Len(c.body) THEN c.count ELSE Len(c.body))
Files_Saved ==
  [f \in Files |->
     IF disk[f].head = "marshal" THEN [state |-> "dump", values |-> Dumped(disk[f])]
     ELSE [state |-> IF disk[f].head = "missing" THEN "missing" ELSE "other", values |-> <<>>]]
Session ==
  IF Writing(handle) THEN [file |-> streams[handle].file, values |-> given] ELSE None

Promised == INSTANCE DumpFiles
  WITH Values <- PlainValues, saved <- Files_Saved, session <- Session, result <- dest

(* The marshaler keeps its promise whatever is buffered when the program   *)
(* crashes: a file holds all the values of a session that ended, or none.  *)
PromisedSpec == Promised!Spec

(* A session that is open when the program ends is in its file afterwards, *)
(* unless the program crashes first.                                       *)
SessionsSaved ==
  \A f \in Files : \A b \in Bodies(PlainValues) :
    (pc = "exit" /\ Session = [file |-> f, values |-> b])
      ~> (pc = "crashed" \/ Files_Saved[f] = [state |-> "dump", values |-> b])

(* Every load returns, unless the program crashes.                         *)
LoadsReturn == (pc = "load") ~> (pc # "load")
=============================================================================
