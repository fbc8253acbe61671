----------------------------- MODULE Broadcast ------------------------------
(***************************************************************************)
(* What the visualisation process promises its clients, whatever else goes *)
(* on: the items of a numbered feed are gone through in order, and an item *)
(* is heard by everybody present at that moment, or by nobody.             *)
(*                                                                         *)
(* Nothing is said here of Redis, modules or connections: Viz.tla models   *)
(* them and is shown to implement this specification.                      *)
(***************************************************************************)
EXTENDS Integers, Sequences

CONSTANTS
  Members,   \* those who may come, once, and leave
  Greeting   \* what everybody hears first, not an item

VARIABLES
  present,   \* the members present
  gone,      \* those who will not come (again)
  heard,     \* what each member heard, in order
  last       \* number of items gone through

vars == <<present, gone, heard, last>>

Init ==
  /\ present = {}
  /\ gone = {}
  /\ heard = [m \in Members |-> <<>>]
  /\ last = 0

(* A member may also be turned away at the door. *)
Join(m) ==
  /\ m \notin present \cup gone
  /\ \/ /\ present' = present \cup {m}
        /\ heard' = [heard EXCEPT ![m] = <<Greeting>>]
        /\ UNCHANGED gone
     \/ /\ gone' = gone \cup {m}
        /\ UNCHANGED <<present, heard>>
  /\ UNCHANGED last

Leave(m) ==
  /\ m \in present
  /\ present' = present \ {m}
  /\ gone' = gone \cup {m}
  /\ UNCHANGED <<heard, last>>

(* The next item: everybody present hears it. *)
Tell ==
  /\ last' = last + 1
  /\ heard' = [m \in Members |->
                 IF m \in present THEN Append(heard[m], last + 1) ELSE heard[m]]
  /\ UNCHANGED <<present, gone>>

(* The next item: nobody is to hear of it. *)
Skip ==
  /\ last' = last + 1
  /\ UNCHANGED <<present, gone, heard>>

Next == Tell \/ Skip \/ \E m \in Members : Join(m) \/ Leave(m)

Safety == Init /\ [][Next]_vars
=============================================================================
