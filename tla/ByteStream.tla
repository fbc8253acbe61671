----------------------------- MODULE ByteStream -----------------------------
(***************************************************************************)
(* What a send buffer promises its user, whatever it does inside: a        *)
(* bounded first-in first-out stream of bytes.  A byte is named by its     *)
(* position in the stream of everything that was accepted, so the n-th     *)
(* byte accepted is the number n.                                          *)
(*                                                                         *)
(* Nothing is said here of buffers, timers or retries: SendBuf.tla models  *)
(* libsendbuf and is shown to implement this specification.                *)
(***************************************************************************)
EXTENDS Integers, Sequences

CONSTANTS
  Capacity,     \* bytes that may be accepted and not yet delivered
  MaxAccepted   \* bound of the model: bytes accepted in a behaviour

VARIABLES
  phase,        \* "none", then "live", then "freed"
  accepted,     \* number of bytes accepted so far
  delivered     \* the bytes delivered so far, in order

vars == <<phase, accepted, delivered>>

(* The bytes not delivered yet are Len(delivered)+1 .. accepted. *)
InTransit == accepted - Len(delivered)

(* The next n bytes of the stream leave, oldest first. *)
Deliver(n) ==
  delivered' = delivered \o [i \in 1..n |-> Len(delivered) + i]

Init ==
  /\ phase = "none"
  /\ accepted = 0
  /\ delivered = <<>>

(* Opening may fail, and then there is never a stream. *)
Open ==
  /\ phase = "none"
  /\ phase' \in {"live", "freed"}
  /\ UNCHANGED <<accepted, delivered>>

(* Some old bytes leave and some new ones enter, within the capacity. *)
Transfer ==
  /\ phase = "live"
  /\ \E out \in 0..InTransit : Deliver(out)
  /\ \E in \in 0..Capacity : accepted' = accepted + in
  /\ accepted' <= MaxAccepted
  /\ accepted' - Len(delivered') <= Capacity
  /\ UNCHANGED phase

(* Closing delivers a prefix of what is left and abandons the rest. *)
Close ==
  /\ phase = "live"
  /\ \E out \in 0..InTransit : Deliver(out)
  /\ phase' = "freed"
  /\ UNCHANGED accepted

Next == Open \/ Transfer \/ Close

Progress == Transfer /\ Len(delivered') > Len(delivered)

(* The safety part: nothing lost, invented, repeated or reordered. *)
Safety == Init /\ [][Next]_vars

(* With the liveness part: an open stream keeps delivering. *)
Spec == Safety /\ WF_vars(Progress)
=============================================================================
