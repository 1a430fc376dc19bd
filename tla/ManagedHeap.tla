------------------------------- MODULE ManagedHeap -------------------------------
(***************************************************************************)
(* What the README promises of memory: the program never manages it.  The  *)
(* heap holds the objects the program can reach and nothing else; there is *)
(* no collector.  An object comes into being with its own identity and     *)
(* keeps its type, its elements change only when the program stores into   *)
(* it, and it lasts as long as the program can reach it.                   *)
(*                                                                         *)
(* The actions constrain the next heap instead of constructing it: the     *)
(* module is the goal of a refinement and is not run on its own.           *)
(***************************************************************************)
CONSTANTS Blocks     (* identities of objects *)

VARIABLES
  objects,           (* the objects the program can reach     *)
  type, elems        (* what an object is, and its elements   *)

Init == objects = {}

Same(b) == type'[b] = type[b] /\ elems'[b] = elems[b]

(* The program goes from the objects old to the objects new: any of them   *)
(* may go out of reach, and one, b, may be created or stored to.           *)
Forget(old, new)    == new \subseteq old /\ \A c \in new : Same(c)
New(b, old, new)    == /\ b \in new \ old /\ new \ {b} \subseteq old
                       /\ \A c \in new \ {b} : Same(c)
                       /\ elems'[b] \subseteq old
Store(b, old, new)  == /\ b \in new /\ new \subseteq old
                       /\ \A c \in new \ {b} : Same(c)
                       /\ type'[b] = type[b]

Next ==
  LET old == objects
      new == objects'
  IN
  /\ \A b \in new : type'[b] # "NIL" /\ elems'[b] \subseteq new
  /\ Forget(old, new) \/ \E b \in Blocks : New(b, old, new) \/ Store(b, old, new)

Spec == Init /\ [][Next]_<<objects, type, elems>>
=============================================================================
