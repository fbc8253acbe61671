------------------------------ MODULE SendBuf -------------------------------
(***************************************************************************)
(* libsendbuf/libsendbuf.c: a buffer in front of a send function.          *)
(*                                                                         *)
(* The user appends tokens; the buffer is flushed when a token would fill  *)
(* it, when the user asks for it, every msec_max milliseconds, and once    *)
(* when it is freed.  The send function may fail or take only a part: the  *)
(* rest is retried later, and tokens keep being appended behind it.        *)
(*                                                                         *)
(* Bytes are abstract: a byte is the number of its position in the stream  *)
(* of all bytes accepted (1, 2, 3, ...), and Junk is a byte of the         *)
(* allocated memory nobody wrote.  All the code runs in one event loop, so *)
(* a call or a timer callback is one step.                                 *)
(***************************************************************************)
EXTENDS Integers, Sequences

CONSTANTS
  BufferSize,   \* buffer_size given to sendbuf_new
  TokenSizes,   \* sizes users pass to append and gettoken
  AllOrNothing, \* TRUE when send_func is sendto() on a datagram socket
  MaxAccepted   \* bound of the model: bytes accepted in a behaviour

(* The code never compares a token with the whole buffer, so its callers   *)
(* must: a token larger than buffer_size would be copied past the end.     *)
ASSUME SizesAssumption ==
  /\ BufferSize \in Nat \ {0}
  /\ TokenSizes \subseteq 1..BufferSize
  /\ AllOrNothing \in BOOLEAN
  /\ MaxAccepted \in Nat

Junk == 0

VARIABLES
  phase,        \* "none" before sendbuf_new, "live", "freed"
  buffer,       \* the memory, by offset
  buffer_pos,   \* next offset to use
  flushing,     \* a flush began and has not completed
  flushing_pos, \* next offset to send
  timer,        \* ev_timer is pending in the event loop
  held,         \* size of the token got and not written yet, 0 when none
  accepted,     \* history: bytes accepted so far
  wire,         \* history: bytes send_func took, in order
  ends,         \* history: stream positions where a token ends
  cuts          \* history: stream positions where a send ended

memory == <<buffer, buffer_pos, held>>
sending == <<flushing, flushing_pos, wire, cuts>>
intake == <<accepted, ends>>
vars == <<phase, memory, sending, timer, intake>>

Offsets == 0..(BufferSize - 1)

Init ==
  /\ phase = "none"
  /\ buffer = [i \in Offsets |-> Junk]
  /\ buffer_pos = 0
  /\ flushing = FALSE
  /\ flushing_pos = 0
  /\ timer = FALSE
  /\ held = 0
  /\ accepted = 0
  /\ wire = <<>>
  /\ ends = {0}
  /\ cuts = {0}

-----------------------------------------------------------------------------
(* sendbuf_flush *)

(* Seeded bug: the last byte is forgotten. *)
ToSendButOne == buffer_pos - flushing_pos - 1

(* Everything between flushing_pos and buffer_pos is offered at once. *)
ToSend == buffer_pos - flushing_pos

(* send_func takes the first n bytes it is offered. *)
Taken(n) ==
  /\ wire' = wire \o [i \in 1..n |-> buffer[flushing_pos + i - 1]]
  /\ cuts' = cuts \cup {Len(wire) + n}

(* Seeded bug: "sent <= tosend" for "sent < tosend". *)
ShortOrFullCounts == IF AllOrNothing THEN {} ELSE 0..ToSend

(* The counts send_func may return when it does not take everything. *)
ShortCounts == IF AllOrNothing THEN {} ELSE 0..(ToSend - 1)

(* Returns 0: there was nothing to send, or everything was sent and the    *)
(* buffer starts again at 0.  What buffer_pos becomes is left to the       *)
(* caller, who may append before the step ends.                            *)
FlushCompletes ==
  \/ buffer_pos = 0 /\ UNCHANGED sending
  \/ /\ buffer_pos > 0
     /\ Taken(ToSend)
     /\ flushing' = FALSE
     /\ flushing_pos' = 0

(* send_func returned -1. *)
SendFails ==
  /\ buffer_pos > 0
  /\ flushing' = TRUE
  /\ UNCHANGED <<flushing_pos, wire, cuts>>

(* Seeded bug: a short send restarts from the beginning. *)
SendIsShortRestarts ==
  /\ buffer_pos > 0
  /\ \E sent \in ShortCounts : Taken(sent)
  /\ flushing' = TRUE
  /\ UNCHANGED flushing_pos

(* send_func took a part: the rest stays where it is, to be retried. *)
SendIsShort ==
  /\ buffer_pos > 0
  /\ \E sent \in ShortCounts :
       /\ Taken(sent)
       /\ flushing_pos' = flushing_pos + sent
  /\ flushing' = TRUE

(* Returns -1, the buffer still holding something. *)
FlushStops == SendFails \/ SendIsShort

-----------------------------------------------------------------------------
(* Adding tokens *)

(* The user, having got a token, writes it before it returns to the event  *)
(* loop and before its next call.                                          *)
Idle == phase = "live" /\ held = 0

(* Seeded bug: the size of the token is left out of the test. *)
NeedsFlushLate(size) == buffer_pos >= BufferSize

NeedsFlush(size) == buffer_pos + size >= BufferSize

(* Seeded bug: tokens are always copied to the start of the memory. *)
WrittenAtZero(at, size, total) ==
  buffer' = [i \in Offsets |->
               IF i < size THEN total - size + i + 1 ELSE buffer[i]]

(* The bytes at offsets at .. at+size-1 become the last size bytes of a    *)
(* stream of length total.                                                 *)
Written(at, size, total) ==
  buffer' = [i \in Offsets |->
               IF i \in at..(at + size - 1)
               THEN total - size + (i - at) + 1 ELSE buffer[i]]

Accept(at, size) ==
  /\ buffer_pos' = at + size
  /\ accepted' = accepted + size
  /\ ends' = ends \cup {accepted + size}

(* Seeded bug: the result of the flush is ignored. *)
RoomAtIgnoringFlush(at, size) ==
  \/ ~NeedsFlush(size) /\ at = buffer_pos /\ UNCHANGED sending
  \/ NeedsFlush(size) /\ (FlushCompletes \/ FlushStops) /\ at = 0

(* Room is made if the token needs it: at is where the token goes. *)
RoomAt(at, size) ==
  \/ ~NeedsFlush(size) /\ at = buffer_pos /\ UNCHANGED sending
  \/ NeedsFlush(size) /\ FlushCompletes /\ at = 0

(* Seeded bug: what the stopped flush left is dropped. *)
RefusedDropping(size) ==
  /\ NeedsFlush(size)
  /\ FlushStops
  /\ buffer_pos' = flushing_pos'
  /\ UNCHANGED <<buffer, held, intake>>

(* The calls that return -1 and NULL: the flush they needed stopped. *)
Refused(size) ==
  /\ NeedsFlush(size)
  /\ FlushStops
  /\ UNCHANGED <<memory, intake>>

sendbuf_append(size) ==
  /\ Idle
  /\ accepted + size <= MaxAccepted
  /\ \/ \E at \in {0, buffer_pos} :
          /\ RoomAt(at, size)
          /\ Written(at, size, accepted + size)
          /\ Accept(at, size)
          /\ UNCHANGED held
     \/ Refused(size)
  /\ UNCHANGED <<phase, timer>>

sendbuf_gettoken(size) ==
  /\ Idle
  /\ accepted + size <= MaxAccepted
  /\ \/ \E at \in {0, buffer_pos} :
          /\ RoomAt(at, size)
          /\ Accept(at, size)
          /\ held' = size
          /\ UNCHANGED buffer
     \/ Refused(size)
  /\ UNCHANGED <<phase, timer>>

(* The user writes through the pointer gettoken returned. *)
WriteToken ==
  /\ phase = "live"
  /\ held > 0
  /\ Written(buffer_pos - held, held, accepted)
  /\ held' = 0
  /\ UNCHANGED <<phase, buffer_pos, sending, timer, intake>>

-----------------------------------------------------------------------------
(* Creation, flush on demand, timer, destruction *)

(* Seeded bug: the timer is not armed until the first flush. *)
sendbuf_new_unarmed ==
  /\ phase = "none"
  /\ phase' \in {"live", "freed"}
  /\ UNCHANGED <<memory, sending, timer, intake>>

(* A failed allocation leaves nothing behind: sendbuf_new calls            *)
(* sendbuf_free, which has neither buffer nor timer to deal with.          *)
sendbuf_new ==
  /\ phase = "none"
  /\ \/ phase' = "live" /\ timer' = TRUE
     \/ phase' = "freed" /\ UNCHANGED timer
  /\ UNCHANGED <<memory, sending, intake>>

Flushed ==
  /\ \/ FlushCompletes /\ buffer_pos' = 0
     \/ FlushStops /\ UNCHANGED buffer_pos
  /\ UNCHANGED <<buffer, held, intake>>

sendbuf_flush == Idle /\ Flushed /\ UNCHANGED <<phase, timer>>

(* Seeded bug: the timer is one-shot. *)
cb_timer_once ==
  /\ Idle
  /\ timer
  /\ Flushed
  /\ timer' = FALSE
  /\ UNCHANGED phase

(* Seeded bug: the timer is added again only after a complete flush. *)
cb_timer_if_flushed ==
  /\ Idle
  /\ timer
  /\ Flushed
  /\ timer' = (buffer_pos' = 0)
  /\ UNCHANGED phase

(* The event loop takes the event off its queue, the callback adds it      *)
(* again, whatever the flush returned.                                     *)
cb_timer ==
  /\ Idle
  /\ timer
  /\ Flushed
  /\ timer' = TRUE
  /\ UNCHANGED phase

(* One flush is tried; what it leaves is lost with the memory. *)
sendbuf_free ==
  /\ Idle
  /\ Flushed
  /\ timer' = FALSE
  /\ phase' = "freed"

Next ==
  \/ sendbuf_new
  \/ \E size \in TokenSizes : sendbuf_append(size) \/ sendbuf_gettoken(size)
  \/ WriteToken
  \/ sendbuf_flush
  \/ cb_timer
  \/ sendbuf_free

Safety == Init /\ [][Next]_vars

(* The transport moves at least one of the bytes it is offered.  The       *)
(* fairness is on the timer, as users may never call again; it is strong   *)
(* because a user in the middle of a token keeps the event loop away.      *)
TimerProgress == cb_timer /\ Len(wire') > Len(wire)

Fairness == WF_vars(WriteToken) /\ SF_vars(TimerProgress)

Spec == Safety /\ Fairness

-----------------------------------------------------------------------------
(* Properties *)

(* Every variable has its type; above all no offset passes the end of the  *)
(* memory, although sendbuf_append copies without looking at buffer_size   *)
(* (libsendbuf.c:86).                                                      *)
TypeOK ==
  /\ phase \in {"none", "live", "freed"}
  /\ buffer \in [Offsets -> Nat]
  /\ buffer_pos \in 0..BufferSize
  /\ flushing \in BOOLEAN
  /\ flushing_pos \in 0..BufferSize
  /\ timer \in BOOLEAN
  /\ held \in 0..BufferSize
  /\ accepted \in 0..MaxAccepted
  /\ wire \in Seq(Nat)
  /\ ends \subseteq Nat
  /\ cuts \subseteq Nat

(* What left is a prefix of what was accepted: over any mixture of short   *)
(* sends, failures, retries and appends behind an unfinished flush, no     *)
(* byte is lost, repeated, reordered or made of unwritten memory.          *)
WireInOrder == \A i \in DOMAIN wire : wire[i] = i

(* While the buffer lives, a byte accepted was sent or is still in it: a   *)
(* refused token left nothing behind, a completed flush forgot nothing.    *)
Conserved == phase = "live" => accepted = Len(wire) + ToSend

(* send_func is never offered zero bytes, whatever sequence of short sends *)
(* came before: an empty datagram is a goodbye (server.c:44,110).          *)
NeverSendsEmpty == buffer_pos > 0 => ToSend > 0

(* On a datagram socket every datagram is made of whole tokens, so the     *)
(* peer never sees the incomplete packet it would drop (server.c:53-56).   *)
WholeDatagrams == AllOrNothing => cuts \subseteq ends

(* The bounded byte stream this buffer implements. *)
Stream == INSTANCE ByteStream WITH
            Capacity <- BufferSize, delivered <- wire

(* A send buffer is a bounded first-in first-out stream of bytes: each of  *)
(* its calls and timer callbacks is a transfer of that stream, or nothing. *)
ImplementsStream == Stream!Safety

(* ... and it is live as that stream is: as long as the transport moves    *)
(* bytes, the timer alone keeps the stream delivering.                     *)
ImplementsLiveStream == Stream!Spec

(* "might return NULL if the sendbuf is temporary full"                    *)
(* (libsendbuf.c:95): a buffer with something in it is emptied, even while *)
(* users keep appending behind the flush in progress.                      *)
FullIsTemporary == (buffer_pos > 0) ~> (buffer_pos = 0 \/ phase = "freed")

(* Every accepted byte leaves, unless the buffer is freed first.           *)
EveryByteSettles ==
  \A n \in 1..MaxAccepted :
    (accepted >= n) ~> (Len(wire) >= n \/ phase = "freed")
=============================================================================
