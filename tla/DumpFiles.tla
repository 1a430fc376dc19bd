-------------------------------- MODULE DumpFiles --------------------------------
(***************************************************************************)
(* What marshal_open, marshal_dump, marshal_close and marshal_load promise *)
(* (the descriptions in Library.cpp): the values dumped since a file was   *)
(* opened are in it, in their order, once it is closed, and loading the    *)
(* file gives them back.  A file whose session did not end holds nothing,  *)
(* and what it held before is gone; it never holds a part of the values.   *)
(***************************************************************************)
EXTENDS Sequences

CONSTANTS Files, Values,
          None          (* no session, no result                            *)

VARIABLES
  saved,                (* the values a load of a file finds, or that there *)
                        (* is no such file, or that it is not a dump        *)
  session,              (* the open file and the values dumped so far       *)
  result                (* of the last load                                 *)

Content(s) == [state |-> "dump", values |-> s]
Missing    == [state |-> "missing", values |-> <<>>]
Other      == [state |-> "other", values |-> <<>>]
Empty      == Content(<<>>)

Init == /\ saved = [f \in Files |-> Missing]
        /\ session = None /\ result = None

(* Until the session ends the file is empty, or not yet recognisable.      *)
Committed == IF session = None THEN saved
             ELSE [saved EXCEPT ![session.file] = Content(session.values)]

Begin(f) == /\ saved' \in {[Committed EXCEPT ![f] = c] : c \in {Other, Empty}}
            /\ session' = [file |-> f, values |-> <<>>]
            /\ UNCHANGED result

Dump(v) == /\ session # None
           /\ session' = [session EXCEPT !.values = Append(@, v)]
           /\ \/ UNCHANGED saved
              \/ saved' = [saved EXCEPT ![session.file] = Empty]
           /\ UNCHANGED result

Commit == saved' = Committed /\ session' = None /\ UNCHANGED result

Load(f) == /\ saved[f].state = "dump"
           /\ result' = saved[f].values
           /\ UNCHANGED <<saved, session>>

(* Another program creates a file.                                         *)
Create(f) == /\ saved[f] = Missing
             /\ saved' = [saved EXCEPT ![f] = Other]
             /\ UNCHANGED <<session, result>>

(* A crash, and the start of the next program.                             *)
Crash == session' = None /\ result' = None /\ UNCHANGED saved


Next == \/ \E f \in Files : Begin(f) \/ Load(f) \/ Create(f)
        \/ \E v \in Values : Dump(v)
        \/ Commit \/ Crash

Spec == Init /\ [][Next]_<<saved, session, result>>
=============================================================================
