---------------------------- MODULE SendBufProofs ----------------------------
(***************************************************************************)
(* Proofs about SendBuf, for every buffer size, every set of token sizes   *)
(* that fit it, and both kinds of transport.                               *)
(*                                                                         *)
(* IInv is the inductive invariant: Contents says where every byte of the  *)
(* stream is, which WireInOrder alone does not, and Pending keeps the      *)
(* offsets apart so that nothing empty is ever sent.                       *)
(***************************************************************************)
EXTENDS SendBuf, SequenceTheorems, TLAPS

(* The offsets are ordered, and a token got and not written is the last    *)
(* thing in the buffer.                                                    *)
Pending ==
  /\ flushing_pos <= buffer_pos
  /\ buffer_pos > 0 => flushing_pos < buffer_pos
  /\ held <= buffer_pos - flushing_pos

(* The stream is the wire followed by the buffer. *)
Total == accepted = Len(wire) + (buffer_pos - flushing_pos)

(* Every byte waiting at its offset is the one the stream needs there. *)
Contents ==
  \A i \in Offsets :
    (flushing_pos <= i /\ i < buffer_pos - held)
      => buffer[i] = Len(wire) + (i - flushing_pos) + 1

(* Datagrams end where tokens end, and so does the buffer. *)
Boundaries ==
  /\ accepted \in ends
  /\ AllOrNothing => flushing_pos = 0 /\ cuts \subseteq ends

IInv == TypeOK /\ Pending /\ Total /\ Contents /\ WireInOrder /\ Boundaries

-----------------------------------------------------------------------------
(* One call of send_func: the n bytes it takes are the next n of the       *)
(* stream.                                                                 *)
LEMMA TakenLemma ==
  ASSUME IInv, held = 0, NEW n \in 0..ToSend, Taken(n)
  PROVE  /\ wire' \in Seq(Nat)
         /\ Len(wire') = Len(wire) + n
         /\ WireInOrder'
         /\ cuts' = cuts \cup {Len(wire) + n}
PROOF
<1> DEFINE more == [i \in 1..n |-> buffer[flushing_pos + i - 1]]
<1>1. /\ n \in Nat /\ n <= buffer_pos - flushing_pos
      /\ buffer_pos \in 0..BufferSize /\ flushing_pos \in 0..BufferSize
      /\ flushing_pos <= buffer_pos
      /\ wire \in Seq(Nat) /\ BufferSize \in Nat /\ Len(wire) \in Nat
  BY SizesAssumption DEF IInv, TypeOK, Pending, ToSend
<1>2. \A i \in 1..n : /\ flushing_pos + i - 1 \in Offsets
                      /\ buffer[flushing_pos + i - 1] = Len(wire) + i
  <2> SUFFICES ASSUME NEW i \in 1..n
               PROVE  /\ flushing_pos + i - 1 \in Offsets
                      /\ buffer[flushing_pos + i - 1] = Len(wire) + i
    OBVIOUS
  <2>1. /\ flushing_pos + i - 1 \in Offsets
        /\ flushing_pos <= flushing_pos + i - 1
        /\ flushing_pos + i - 1 < buffer_pos - held
    BY <1>1 DEF Offsets
  <2>2. buffer[flushing_pos + i - 1]
          = Len(wire) + ((flushing_pos + i - 1) - flushing_pos) + 1
    BY <2>1 DEF IInv, Contents
  <2> QED BY <1>1, <2>1, <2>2
<1>3. more \in Seq(Nat) /\ Len(more) = n
  <2>1. ASSUME NEW i \in 1..n PROVE buffer[flushing_pos + i - 1] \in Nat
    <3>1. Len(wire) + i \in Nat
      BY <1>1
    <3> QED BY <1>2, <3>1
  <2>2. more \in [1..n -> Nat]
    BY <2>1
  <2> HIDE DEF more
  <2> QED BY <1>1, <2>2, SeqDef
<1>4. wire' = wire \o more
  BY DEF Taken
<1>5. wire' \in Seq(Nat) /\ Len(wire') = Len(wire) + n
  BY <1>1, <1>3, <1>4
<1>6. \A i \in 1..(Len(wire) + n) :
        wire'[i] = IF i <= Len(wire) THEN wire[i] ELSE more[i - Len(wire)]
  BY <1>1, <1>3, <1>4
<1>7. \A i \in 1..(Len(wire) + n) : wire'[i] = i
  <2> SUFFICES ASSUME NEW i \in 1..(Len(wire) + n)
               PROVE  wire'[i] = i
    OBVIOUS
  <2>1. CASE i <= Len(wire)
    <3>1. i \in DOMAIN wire
      BY <1>1, <2>1, LenProperties
    <3>2. wire'[i] = wire[i]
      BY <1>6, <2>1
    <3> QED BY <3>1, <3>2 DEF IInv, WireInOrder
  <2>2. CASE i > Len(wire)
    <3>1. i - Len(wire) \in 1..n
      BY <1>1, <2>2
    <3>2. more[i - Len(wire)] = Len(wire) + (i - Len(wire))
      BY <1>2, <3>1
    <3> QED BY <1>1, <1>6, <2>2, <3>2
  <2> QED BY <1>1, <2>1, <2>2
<1> QED
  BY <1>1, <1>5, <1>7, SMTT(30) DEF WireInOrder, Taken

(* A flush that completes leaves the whole stream on the wire. *)
LEMMA FlushCompletesLemma ==
  ASSUME IInv, held = 0, FlushCompletes
  PROVE  /\ wire' \in Seq(Nat)
         /\ Len(wire') = accepted
         /\ WireInOrder'
         /\ flushing' \in BOOLEAN
         /\ flushing_pos' = 0
         /\ cuts' \subseteq Nat
         /\ AllOrNothing => cuts' \subseteq ends
PROOF
<1>1. CASE buffer_pos = 0 /\ UNCHANGED sending
  BY <1>1 DEF IInv, TypeOK, Pending, Total, Boundaries, WireInOrder, sending
<1>2. CASE /\ buffer_pos > 0
           /\ Taken(ToSend)
           /\ flushing' = FALSE
           /\ flushing_pos' = 0
  <2>1. ToSend \in 0..ToSend /\ Len(wire) + ToSend = accepted /\ accepted \in Nat
    BY DEF IInv, TypeOK, Pending, Total, ToSend
  <2>2. /\ wire' \in Seq(Nat) /\ Len(wire') = accepted /\ WireInOrder'
        /\ cuts' = cuts \cup {accepted}
    BY <1>2, <2>1, TakenLemma
  <2> QED BY <1>2, <2>1, <2>2 DEF IInv, TypeOK, Boundaries
<1> QED BY <1>1, <1>2 DEF FlushCompletes

(* A flush that stops keeps the invariant when the call it is part of      *)
(* leaves the buffer as it was.                                            *)
LEMMA FlushStopsLemma ==
  ASSUME IInv, held = 0, FlushStops,
         UNCHANGED <<memory, intake>>,
         phase' \in {"none", "live", "freed"}, timer' \in BOOLEAN
  PROVE  /\ IInv'
         /\ Len(wire') >= Len(wire)
         /\ Len(wire') <= accepted
PROOF
<1>1. /\ buffer' = buffer /\ buffer_pos' = buffer_pos /\ held' = held
      /\ accepted' = accepted /\ ends' = ends
  BY DEF memory, intake
<1>2. CASE SendFails
  BY <1>1, <1>2 DEF SendFails, IInv, TypeOK, Pending, Total, Contents,
     WireInOrder, Boundaries
<1>3. CASE SendIsShort
  <2>1. PICK sent \in ShortCounts :
           Taken(sent) /\ flushing_pos' = flushing_pos + sent
    BY <1>3 DEF SendIsShort
  <2>2. /\ AllOrNothing = FALSE
        /\ sent \in Nat /\ sent < buffer_pos - flushing_pos
        /\ buffer_pos \in Nat /\ flushing_pos \in Nat /\ BufferSize \in Nat
        /\ Len(wire) \in Nat /\ accepted \in Nat /\ buffer_pos <= BufferSize
        /\ sent \in 0..ToSend /\ flushing' = TRUE /\ buffer_pos > 0
        /\ accepted = Len(wire) + (buffer_pos - flushing_pos)
    BY <1>3, <2>1, SizesAssumption
       DEF ShortCounts, SendIsShort, ToSend, IInv, TypeOK, Pending, Total
  <2>3. /\ wire' \in Seq(Nat) /\ Len(wire') = Len(wire) + sent
        /\ WireInOrder' /\ cuts' = cuts \cup {Len(wire) + sent}
    BY <2>1, <2>2, TakenLemma
  <2>4. TypeOK'
    <3>1. flushing' \in BOOLEAN
      BY <2>2
    <3>2. cuts' \subseteq Nat
      <4>1. Len(wire) + sent \in Nat
        BY <2>2
      <4> QED BY <2>3, <4>1 DEF IInv, TypeOK
    <3>3. flushing_pos' \in 0..BufferSize
      BY <2>1, <2>2
    <3> QED BY <1>1, <2>3, <3>1, <3>2, <3>3 DEF IInv, TypeOK
  <2>5. Pending' /\ Total' /\ Boundaries'
    BY <1>1, <2>1, <2>2, <2>3 DEF IInv, Pending, Total, Boundaries
  <2>6. Contents'
    BY <1>1, <2>1, <2>2, <2>3 DEF IInv, Contents, Offsets
  <2> QED BY <2>2, <2>3, <2>4, <2>5, <2>6 DEF IInv
<1> QED BY <1>2, <1>3 DEF FlushStops

-----------------------------------------------------------------------------
(* What append and gettoken know of the place they found for the token:    *)
(* it is inside the memory, right behind the bytes still waiting.          *)
LEMMA RoomLemma ==
  ASSUME IInv, held = 0, NEW size \in TokenSizes, NEW at, RoomAt(at, size)
  PROVE  /\ at \in Nat /\ at + size <= BufferSize
         /\ wire' \in Seq(Nat) /\ WireInOrder'
         /\ Len(wire') >= Len(wire)
         /\ flushing' \in BOOLEAN
         /\ flushing_pos' \in Nat /\ flushing_pos' <= at
         /\ accepted = Len(wire') + (at - flushing_pos')
         /\ \A i \in Offsets :
              (flushing_pos' <= i /\ i < at)
                => buffer[i] = Len(wire') + (i - flushing_pos') + 1
         /\ cuts' \subseteq Nat
         /\ AllOrNothing => flushing_pos' = 0 /\ cuts' \subseteq ends
PROOF
<1>1. /\ size \in Nat /\ size > 0 /\ size <= BufferSize
      /\ buffer_pos \in Nat /\ flushing_pos \in Nat /\ BufferSize \in Nat
      /\ accepted \in Nat /\ wire \in Seq(Nat) /\ Len(wire) \in Nat
      /\ flushing_pos <= buffer_pos
      /\ accepted = Len(wire) + (buffer_pos - flushing_pos)
  BY SizesAssumption DEF IInv, TypeOK, Pending, Total
<1>2. CASE ~NeedsFlush(size) /\ at = buffer_pos /\ UNCHANGED sending
  <2>1. /\ wire' = wire /\ cuts' = cuts
        /\ flushing' = flushing /\ flushing_pos' = flushing_pos
    BY <1>2 DEF sending
  <2>2. at + size <= BufferSize
    BY <1>1, <1>2 DEF NeedsFlush
  <2> QED
    BY <1>1, <1>2, <2>1, <2>2
       DEF IInv, TypeOK, Contents, WireInOrder, Boundaries
<1>3. CASE NeedsFlush(size) /\ FlushCompletes /\ at = 0
  <2>1. /\ wire' \in Seq(Nat) /\ Len(wire') = accepted /\ WireInOrder'
        /\ flushing' \in BOOLEAN /\ flushing_pos' = 0 /\ cuts' \subseteq Nat
        /\ AllOrNothing => cuts' \subseteq ends
    BY <1>3, FlushCompletesLemma
  <2>2. \A i \in Offsets : ~(flushing_pos' <= i /\ i < at)
    BY <1>3, <2>1 DEF Offsets
  <2> QED BY <1>1, <1>3, <2>1, <2>2
<1> QED BY <1>2, <1>3 DEF RoomAt

(* Accepting a token at such a place keeps the invariant, whether its      *)
(* bytes are copied at once or the user has still to write them.           *)
LEMMA AcceptLemma ==
  ASSUME IInv, held = 0, NEW size \in TokenSizes, NEW at,
         accepted + size <= MaxAccepted,
         RoomAt(at, size), Accept(at, size),
         UNCHANGED <<phase, timer>>,
         \/ Written(at, size, accepted + size) /\ held' = 0
         \/ buffer' = buffer /\ held' = size
  PROVE  IInv' /\ Len(wire') >= Len(wire) /\ Len(wire') <= accepted
PROOF
<1>1. /\ at \in Nat /\ at + size <= BufferSize
      /\ wire' \in Seq(Nat) /\ WireInOrder'
      /\ Len(wire') >= Len(wire)
      /\ flushing' \in BOOLEAN
      /\ flushing_pos' \in Nat /\ flushing_pos' <= at
      /\ accepted = Len(wire') + (at - flushing_pos')
      /\ \A i \in Offsets :
           (flushing_pos' <= i /\ i < at)
             => buffer[i] = Len(wire') + (i - flushing_pos') + 1
      /\ cuts' \subseteq Nat
      /\ AllOrNothing => flushing_pos' = 0 /\ cuts' \subseteq ends
  BY RoomLemma
<1>2. /\ size \in Nat /\ size > 0 /\ size <= BufferSize /\ BufferSize \in Nat
      /\ accepted \in Nat /\ Len(wire') \in Nat /\ MaxAccepted \in Nat
      /\ phase' = phase /\ timer' = timer
  BY <1>1, SizesAssumption DEF IInv, TypeOK
<1>3. /\ buffer_pos' = at + size /\ accepted' = accepted + size
      /\ ends' = ends \cup {accepted + size}
  BY DEF Accept
<1> DEFINE start == flushing_pos'
<1>a. /\ at \in Nat /\ size \in Nat /\ accepted \in Nat /\ start \in Nat
      /\ Len(wire') \in Nat /\ size > 0 /\ start <= at
      /\ accepted = Len(wire') + (at - start)
  BY <1>1, <1>2
<1>4. held' \in Nat /\ held' <= size
  BY <1>2
<1>5. buffer' \in [Offsets -> Nat]
  <2>1. CASE buffer' = buffer
    BY <2>1 DEF IInv, TypeOK
  <2>2. CASE Written(at, size, accepted + size)
    <3>1. ASSUME NEW i \in Offsets
          PROVE  (IF i \in at..(at + size - 1)
                  THEN (accepted + size) - size + (i - at) + 1
                  ELSE buffer[i]) \in Nat
      <4>1. CASE i \in at..(at + size - 1)
        <5>1. i \in Int /\ i - at >= 0
          BY <1>a, <4>1
        <5>2. (accepted + size) - size = accepted
          BY <1>a
        <5>3. accepted + (i - at) + 1 \in Nat
          <6> HIDE DEF start
          <6> QED BY <1>a, <5>1
        <5> QED BY <4>1, <5>2, <5>3
      <4>2. CASE i \notin at..(at + size - 1)
        BY <4>2 DEF IInv, TypeOK
      <4> QED BY <4>1, <4>2
    <3> QED BY <2>2, <3>1 DEF Written
  <2> QED BY <2>1, <2>2
<1>6. TypeOK'
  <2>1. ends' \subseteq Nat
    <3>1. accepted + size \in Nat
      BY <1>2
    <3> QED BY <1>3, <3>1 DEF IInv, TypeOK
  <2>2. buffer_pos' \in 0..BufferSize /\ flushing_pos' \in 0..BufferSize
    BY <1>1, <1>2, <1>3
  <2>3. held' \in 0..BufferSize /\ accepted' \in 0..MaxAccepted
    BY <1>2, <1>3, <1>4
  <2> QED BY <1>1, <1>2, <1>5, <2>1, <2>2, <2>3 DEF IInv, TypeOK
<1>7. Pending' /\ Total'
  <2>1. Pending'
    <3>1. /\ start <= at + size /\ start < at + size
          /\ held' <= (at + size) - start
      <4> HIDE DEF start
      <4> QED BY <1>a, <1>4
    <3> QED BY <1>3, <3>1 DEF Pending
  <2>2. Total'
    BY <1>a, <1>3 DEF Total
  <2> QED BY <2>1, <2>2
<1>8. Boundaries'
  BY <1>1, <1>3 DEF Boundaries
<1>9. Contents'
  <2> SUFFICES ASSUME NEW i \in Offsets,
                      flushing_pos' <= i, i < buffer_pos' - held'
               PROVE  buffer'[i] = Len(wire') + (i - flushing_pos') + 1
    BY DEF Contents, Offsets
  <2>1. CASE buffer' = buffer /\ held' = size
    BY <1>1, <1>2, <1>3, <2>1 DEF Offsets
  <2>2. CASE Written(at, size, accepted + size) /\ held' = 0
    <3>1. buffer'[i] = IF i \in at..(at + size - 1)
                       THEN (accepted + size) - size + (i - at) + 1
                       ELSE buffer[i]
      BY <2>2 DEF Written
    <3>2. CASE i \in at..(at + size - 1)
      BY <1>1, <1>2, <3>1, <3>2, SMTT(30) DEF Offsets
    <3>3. CASE i \notin at..(at + size - 1)
      <4>1. i < at
        BY <1>1, <1>2, <1>3, <2>2, <3>3 DEF Offsets
      <4> QED BY <1>1, <3>1, <3>3, <4>1
    <3> QED BY <3>2, <3>3
  <2> QED BY <2>1, <2>2
<1> QED BY <1>1, <1>2, <1>6, <1>7, <1>8, <1>9 DEF IInv

-----------------------------------------------------------------------------
(* The invariant is inductive *)

LEMMA InitIInv == Init => IInv
PROOF
<1> SUFFICES ASSUME Init PROVE IInv
  OBVIOUS
<1>1. wire = <<>> /\ wire \in Seq(Nat) /\ Len(wire) = 0 /\ DOMAIN wire = {}
  BY DEF Init
<1>2. buffer \in [Offsets -> Nat]
  BY DEF Init, Junk
<1>3. TypeOK
  <2>1. flushing \in BOOLEAN /\ timer \in BOOLEAN
    BY Zenon DEF Init
  <2>2. /\ buffer_pos \in 0..BufferSize /\ flushing_pos \in 0..BufferSize
        /\ held \in 0..BufferSize /\ accepted \in 0..MaxAccepted
    BY SizesAssumption DEF Init
  <2>3. phase \in {"none", "live", "freed"}
    BY DEF Init
  <2>4. ends \subseteq Nat /\ cuts \subseteq Nat
    BY DEF Init
  <2> QED BY <1>1, <1>2, <2>1, <2>2, <2>3, <2>4 DEF TypeOK
<1> QED
  BY <1>1, <1>3, SizesAssumption
     DEF Init, IInv, Pending, Total, Contents, WireInOrder, Boundaries

(* What every step does to the wire: it only grows, and only by bytes      *)
(* accepted before the step.                                               *)
Advances == Len(wire') >= Len(wire) /\ Len(wire') <= accepted

(* A step that touches neither the wire nor the buffer. *)
LEMMA QuietLemma ==
  ASSUME IInv, UNCHANGED <<memory, sending, intake>>,
         phase' \in {"none", "live", "freed"}, timer' \in BOOLEAN
  PROVE  IInv' /\ Advances
PROOF
<1>1. /\ buffer' = buffer /\ buffer_pos' = buffer_pos /\ held' = held
      /\ flushing' = flushing /\ flushing_pos' = flushing_pos
      /\ wire' = wire /\ cuts' = cuts /\ accepted' = accepted /\ ends' = ends
  BY DEF memory, sending, intake
<1>2. IInv'
  BY <1>1 DEF IInv, TypeOK, Pending, Total, Contents, WireInOrder, Boundaries
<1>3. Advances
  BY <1>1 DEF Advances, IInv, TypeOK, Pending, Total
<1> QED BY <1>2, <1>3

(* A flush that is the whole of a call or a callback. *)
LEMMA FlushedLemma ==
  ASSUME IInv, held = 0, Flushed,
         phase' \in {"none", "live", "freed"}, timer' \in BOOLEAN
  PROVE  IInv' /\ Advances
PROOF
<1>1. buffer' = buffer /\ held' = held /\ accepted' = accepted /\ ends' = ends
  BY DEF Flushed, intake
<1>2. CASE FlushCompletes /\ buffer_pos' = 0
  <2>1. /\ wire' \in Seq(Nat) /\ Len(wire') = accepted /\ WireInOrder'
        /\ flushing' \in BOOLEAN /\ flushing_pos' = 0 /\ cuts' \subseteq Nat
        /\ AllOrNothing => cuts' \subseteq ends
    BY <1>2, FlushCompletesLemma
  <2>2. Len(wire) <= accepted /\ accepted \in Nat /\ Len(wire) \in Nat
    BY DEF IInv, TypeOK, Pending, Total
  <2>3. TypeOK'
    BY <1>1, <1>2, <2>1, SizesAssumption DEF IInv, TypeOK
  <2>4. Pending' /\ Total' /\ Boundaries'
    BY <1>1, <1>2, <2>1, <2>2 DEF IInv, Pending, Total, Boundaries
  <2>5. Contents'
    BY <1>1, <1>2, <2>1 DEF Contents, Offsets
  <2> QED BY <2>1, <2>2, <2>3, <2>4, <2>5 DEF IInv, Advances
<1>3. CASE FlushStops /\ UNCHANGED buffer_pos
  <2>1. UNCHANGED <<memory, intake>>
    BY <1>1, <1>3 DEF memory, intake
  <2> QED BY <1>3, <2>1, FlushStopsLemma DEF Advances
<1> QED BY <1>2, <1>3 DEF Flushed

(* The user fills in the token it holds, which is the end of the buffer. *)
LEMMA WriteTokenLemma ==
  ASSUME IInv, WriteToken
  PROVE  IInv' /\ Advances
PROOF
<1> DEFINE at == buffer_pos - held
<1>1. /\ phase' = phase /\ timer' = timer /\ buffer_pos' = buffer_pos
      /\ flushing' = flushing /\ flushing_pos' = flushing_pos
      /\ wire' = wire /\ cuts' = cuts /\ accepted' = accepted /\ ends' = ends
      /\ held' = 0 /\ held > 0
  BY DEF WriteToken, sending, intake
<1>2. /\ at \in Nat /\ held \in Nat /\ buffer_pos \in Nat
      /\ flushing_pos \in Nat /\ accepted \in Nat /\ Len(wire) \in Nat
      /\ flushing_pos <= at /\ at + held = buffer_pos
      /\ buffer_pos <= BufferSize /\ BufferSize \in Nat
      /\ accepted = Len(wire) + (buffer_pos - flushing_pos)
  BY SizesAssumption DEF IInv, TypeOK, Pending, Total
<1>3. accepted - held = Len(wire) + (at - flushing_pos)
  BY <1>2
<1>4. \A i \in Offsets :
        buffer'[i] = IF i \in at..(at + held - 1)
                     THEN accepted - held + (i - at) + 1 ELSE buffer[i]
  BY DEF WriteToken, Written
<1>5. buffer' \in [Offsets -> Nat]
  <2>1. ASSUME NEW i \in Offsets
        PROVE  (IF i \in at..(at + held - 1)
                THEN accepted - held + (i - at) + 1 ELSE buffer[i]) \in Nat
    <3>1. CASE i \in at..(at + held - 1)
      BY <1>2, <1>3, <3>1
    <3>2. CASE i \notin at..(at + held - 1)
      BY <3>2 DEF IInv, TypeOK
    <3> QED BY <3>1, <3>2
  <2> QED BY <2>1 DEF WriteToken, Written
<1>6. TypeOK'
  BY <1>1, <1>5, <1>2 DEF IInv, TypeOK
<1>7. Contents'
  <2> SUFFICES ASSUME NEW i \in Offsets, flushing_pos <= i, i < buffer_pos
               PROVE  buffer'[i] = Len(wire) + (i - flushing_pos) + 1
    BY <1>1, <1>2 DEF Contents, Offsets
  <2>1. CASE i < at
    <3>1. buffer'[i] = buffer[i]
      BY <1>2, <1>4, <2>1 DEF Offsets
    <3> QED BY <2>1, <3>1 DEF IInv, Contents
  <2>2. CASE i >= at
    <3>1. buffer'[i] = accepted - held + (i - at) + 1
      BY <1>2, <1>4, <2>2 DEF Offsets
    <3> QED BY <1>2, <1>3, <3>1 DEF Offsets
  <2> QED BY <1>2, <2>1, <2>2 DEF Offsets
<1>8. Pending' /\ Total' /\ WireInOrder' /\ Boundaries'
  BY <1>1, <1>2 DEF IInv, Pending, Total, WireInOrder, Boundaries
<1>9. Advances
  BY <1>1, <1>2 DEF Advances
<1> QED BY <1>6, <1>7, <1>8, <1>9 DEF IInv

LEMMA StepIInv ==
  ASSUME IInv, [Next]_vars
  PROVE  IInv' /\ Advances
PROOF
<1> USE DEF Idle
<1>0. phase \in {"none", "live", "freed"} /\ timer \in BOOLEAN
  BY DEF IInv, TypeOK
<1>1. CASE sendbuf_new
  <2>1. timer' \in BOOLEAN /\ phase' \in {"none", "live", "freed"}
    BY <1>0, <1>1 DEF sendbuf_new
  <2> QED BY <1>1, <2>1, QuietLemma DEF sendbuf_new
<1>2. ASSUME NEW size \in TokenSizes, sendbuf_append(size)
      PROVE  IInv' /\ Advances
  <2>1. CASE Refused(size)
    BY <1>0, <1>2, <2>1, FlushStopsLemma DEF sendbuf_append, Refused, Advances
  <2>2. ASSUME NEW at \in {0, buffer_pos}, RoomAt(at, size),
               Written(at, size, accepted + size), Accept(at, size),
               UNCHANGED held
        PROVE  IInv' /\ Advances
    BY <1>2, <2>2, AcceptLemma DEF sendbuf_append, Advances
  <2> QED BY <1>2, <2>1, <2>2 DEF sendbuf_append
<1>3. ASSUME NEW size \in TokenSizes, sendbuf_gettoken(size)
      PROVE  IInv' /\ Advances
  <2>1. CASE Refused(size)
    BY <1>0, <1>3, <2>1, FlushStopsLemma DEF sendbuf_gettoken, Refused, Advances
  <2>2. ASSUME NEW at \in {0, buffer_pos}, RoomAt(at, size),
               Accept(at, size), held' = size, UNCHANGED buffer
        PROVE  IInv' /\ Advances
    BY <1>3, <2>2, AcceptLemma DEF sendbuf_gettoken, Advances
  <2> QED BY <1>3, <2>1, <2>2 DEF sendbuf_gettoken
<1>4. CASE WriteToken
  BY <1>4, WriteTokenLemma
<1>5. CASE sendbuf_flush
  BY <1>0, <1>5, FlushedLemma DEF sendbuf_flush
<1>6. CASE cb_timer
  <2>1. timer' \in BOOLEAN
    BY <1>6 DEF cb_timer
  <2> QED BY <1>0, <1>6, <2>1, FlushedLemma DEF cb_timer
<1>7. CASE sendbuf_free
  <2>1. timer' \in BOOLEAN
    BY <1>7 DEF sendbuf_free
  <2> QED BY <1>7, <2>1, FlushedLemma DEF sendbuf_free
<1>8. CASE UNCHANGED vars
  BY <1>0, <1>8, QuietLemma DEF vars
<1> QED
  BY <1>1, <1>2, <1>3, <1>4, <1>5, <1>6, <1>7, <1>8 DEF Next

(* IInv is an invariant of the send buffer, whatever the sizes. *)
THEOREM Invariance == Safety => []IInv
PROOF
<1>1. Init => IInv
  BY InitIInv
<1>2. IInv /\ [Next]_vars => IInv'
  BY StepIInv
<1> QED BY <1>1, <1>2, PTL DEF Safety

(* No call of sendbuf_append or sendbuf_gettoken, and no flush, leaves the *)
(* memory allocated by sendbuf_new.                                        *)
THEOREM TypeCorrect == Spec => []TypeOK
PROOF
<1>1. IInv => TypeOK
  BY DEF IInv
<1> QED BY <1>1, Invariance, PTL DEF Spec

(* What leaves through send_func is the stream accepted, in order. *)
THEOREM InOrder == Spec => []WireInOrder
PROOF
<1>1. IInv => WireInOrder
  BY DEF IInv
<1> QED BY <1>1, Invariance, PTL DEF Spec

(* Every byte accepted was sent or is in the buffer. *)
THEOREM Conservation == Spec => []Conserved
PROOF
<1>1. IInv => Conserved
  BY DEF IInv, Total, Conserved, ToSend
<1> QED BY <1>1, Invariance, PTL DEF Spec

(* An empty datagram is never sent by a flush. *)
THEOREM NoEmptySend == Spec => []NeverSendsEmpty
PROOF
<1>1. IInv => NeverSendsEmpty
  BY DEF IInv, TypeOK, Pending, NeverSendsEmpty, ToSend
<1> QED BY <1>1, Invariance, PTL DEF Spec

(* On a datagram socket no token is cut in two. *)
THEOREM TokensStayWhole == Spec => []WholeDatagrams
PROOF
<1>1. IInv => WholeDatagrams
  BY DEF IInv, Boundaries, WholeDatagrams
<1> QED BY <1>1, Invariance, PTL DEF Spec

-----------------------------------------------------------------------------
(* SendBuf implements ByteStream *)

(* Two wires in order, the second no shorter: the second is the first and  *)
(* the next bytes of the stream.                                           *)
LEMMA GrowthLemma ==
  ASSUME IInv, IInv', Advances
  PROVE  \E out \in 0..Stream!InTransit : Stream!Deliver(out)
PROOF
<1> DEFINE n == Len(wire') - Len(wire)
           next == [i \in 1..n |-> Len(wire) + i]
<1>1. /\ wire \in Seq(Nat) /\ wire' \in Seq(Nat)
      /\ Len(wire) \in Nat /\ Len(wire') \in Nat /\ accepted \in Nat
  BY DEF IInv, TypeOK
<1>2. n \in 0..(accepted - Len(wire)) /\ n \in Nat /\ Len(wire') = Len(wire) + n
  BY <1>1 DEF Advances
<1>3. next \in Seq(Nat) /\ Len(next) = n
  <2> HIDE DEF n
  <2>1. next \in [1..n -> Nat]
    BY <1>1, <1>2
  <2> HIDE DEF next
  <2> QED BY <1>2, <2>1, SeqDef
<1>4. wire' = wire \o next
  <2>1. /\ wire \o next \in Seq(Nat)
        /\ Len(wire \o next) = Len(wire) + n
        /\ \A i \in 1..(Len(wire) + n) : (wire \o next)[i] =
             IF i <= Len(wire) THEN wire[i] ELSE next[i - Len(wire)]
    <3> HIDE DEF next
    <3> QED BY <1>1, <1>3, ConcatProperties
  <2>2. ASSUME NEW i \in 1..Len(wire')
        PROVE  wire'[i] = (wire \o next)[i]
    <3>1. wire'[i] = i
      BY <1>1, LenProperties DEF IInv, WireInOrder
    <3>2. CASE i <= Len(wire)
      <4>1. i \in DOMAIN wire
        BY <1>1, <3>2, LenProperties
      <4>2. wire[i] = i
        BY <4>1 DEF IInv, WireInOrder
      <4> QED BY <1>2, <2>1, <3>1, <3>2, <4>2
    <3>3. CASE i > Len(wire)
      <4>1. i - Len(wire) \in 1..n
        BY <1>1, <1>2, <3>3
      <4>2. next[i - Len(wire)] = i
        <5> HIDE DEF n
        <5> QED BY <1>1, <4>1
      <4> QED BY <1>1, <1>2, <2>1, <3>1, <3>3, <4>2
    <3> QED BY <1>1, <3>2, <3>3
  <2> HIDE DEF next, n
  <2> QED BY <1>1, <1>2, <2>1, <2>2, SeqEqual
<1> QED BY <1>2, <1>4 DEF Stream!InTransit, Stream!Deliver

LEMMA Difference ==
  \A a, b, c \in Nat : a <= b /\ b <= a + c => \E d \in 0..c : b = a + d
PROOF
<1> SUFFICES ASSUME NEW a \in Nat, NEW b \in Nat, NEW c \in Nat,
                    a <= b, b <= a + c
             PROVE  \E d \in 0..c : b = a + d
  OBVIOUS
<1>1. b - a \in 0..c /\ b = a + (b - a)
  OBVIOUS
<1> QED BY <1>1

LEMMA Excess ==
  \A a, w, p, f, c \in Nat : a = w + (p - f) /\ p <= c => a - w <= c
OBVIOUS

LEMMA TransferLemma ==
  ASSUME IInv, IInv', Advances, phase = "live", phase' = "live",
         accepted' >= accepted, accepted' <= accepted + BufferSize
  PROVE  Stream!Transfer
PROOF
<1>1. \E out \in 0..Stream!InTransit : Stream!Deliver(out)
  BY GrowthLemma
<1>2. /\ accepted \in Nat /\ accepted' \in Nat /\ accepted' <= MaxAccepted
      /\ BufferSize \in Nat /\ MaxAccepted \in Nat
  BY SizesAssumption DEF IInv, TypeOK
<1>3. accepted' - Len(wire') <= BufferSize
  <2>1. /\ buffer_pos' \in Nat /\ flushing_pos' \in Nat /\ Len(wire') \in Nat
        /\ buffer_pos' <= BufferSize
        /\ accepted' = Len(wire') + (buffer_pos' - flushing_pos')
    BY SizesAssumption DEF IInv, TypeOK, Total
  <2> QED BY <1>2, <2>1, Excess
<1>4. \E in \in 0..BufferSize : accepted' = accepted + in
  BY <1>2, Difference
<1> QED BY <1>1, <1>2, <1>3, <1>4 DEF Stream!Transfer

LEMMA StepRefines ==
  ASSUME IInv, IInv', Advances, [Next]_vars
  PROVE  [Stream!Next]_(Stream!vars)
PROOF
<1> USE DEF Idle
<1>0. accepted \in Nat /\ accepted' \in Nat /\ BufferSize \in Nat
  BY SizesAssumption DEF IInv, TypeOK
<1>1. CASE sendbuf_new
  <2>1. Stream!Open
    BY <1>1 DEF sendbuf_new, sending, intake, Stream!Open
  <2> QED BY <2>1 DEF Stream!Next
<1>2. CASE \E size \in TokenSizes : sendbuf_append(size) \/ sendbuf_gettoken(size)
  <2>1. PICK size \in TokenSizes : sendbuf_append(size) \/ sendbuf_gettoken(size)
    BY <1>2
  <2>2. phase = "live" /\ phase' = "live"
    BY <2>1 DEF sendbuf_append, sendbuf_gettoken
  <2>3. accepted' = accepted \/ accepted' = accepted + size
    BY <2>1 DEF sendbuf_append, sendbuf_gettoken, Accept, Refused, intake
  <2>4. accepted' >= accepted /\ accepted' <= accepted + BufferSize
    BY <1>0, <2>3, SizesAssumption
  <2>5. Stream!Transfer
    BY <2>2, <2>4, TransferLemma
  <2> QED BY <2>5 DEF Stream!Next
<1>3. CASE WriteToken
  BY <1>3 DEF WriteToken, sending, intake, Stream!vars
<1>4. CASE sendbuf_flush \/ cb_timer
  <2>1. phase = "live" /\ phase' = "live" /\ accepted' = accepted
    BY <1>4 DEF sendbuf_flush, cb_timer, Flushed, intake
  <2>2. Stream!Transfer
    BY <1>0, <2>1, TransferLemma
  <2> QED BY <2>2 DEF Stream!Next
<1>5. CASE sendbuf_free
  <2>1. phase = "live" /\ phase' = "freed" /\ accepted' = accepted
    BY <1>5 DEF sendbuf_free, Flushed, intake
  <2>2. Stream!Close
    BY <2>1, GrowthLemma DEF Stream!Close
  <2> QED BY <2>2 DEF Stream!Next
<1>6. CASE UNCHANGED vars
  BY <1>6 DEF vars, sending, intake, Stream!vars
<1> QED BY <1>1, <1>2, <1>3, <1>4, <1>5, <1>6 DEF Next

(* The send buffer is a bounded first-in first-out byte stream: every call *)
(* and callback of libsendbuf.c is a step of ByteStream, or changes        *)
(* nothing that ByteStream shows.                                          *)
THEOREM Refinement == Spec => ImplementsStream
PROOF
<1>1. Init => Stream!Init
  BY DEF Init, Stream!Init
<1>2. IInv /\ [Next]_vars => IInv' /\ Advances
  BY StepIInv
<1>3. IInv /\ [Next]_vars => [Stream!Next]_(Stream!vars)
  BY <1>2, StepRefines
<1> QED
  BY <1>1, <1>3, Invariance, PTL DEF Spec, Safety, ImplementsStream, Stream!Safety
=============================================================================
