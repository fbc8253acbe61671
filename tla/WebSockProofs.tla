---------------------------- MODULE WebSockProofs ----------------------------
(***************************************************************************)
(* Proofs about WebSock, for any requests, scripts and buffer size: what   *)
(* the application is called with, whatever the bytes of the client do to  *)
(* the connection.                                                         *)
(*                                                                         *)
(* The calls need nothing of the frames, the payloads or the output: IInv  *)
(* follows the flag CONNECTED and the calls through every function that a  *)
(* byte can reach.  Shape follows the chain of frames, the flags and the   *)
(* output, for the types and for what closes a connection.  Hearing        *)
(* follows the bytes of the client, for what the application is told:      *)
(* between two bytes either k frames of the script are heard and the frame *)
(* being received holds the first bytes of the next, or the k-th frame has *)
(* ended the connection.                                                   *)
(***************************************************************************)
EXTENDS WebSock, WsFrameProofs, FiniteSetTheorems

Fields == {"flags", "readcb", "writecb", "data", "frames", "close_info", "written", "calls"}

IsSeq(q) == \E S : q \in Seq(S)

(* The calls on a connection that is open: onopen and then messages.       *)
Begun(calls) ==
  /\ IsSeq(calls)
  /\ Len(calls) > 0
  /\ calls[1] = <<"onopen">>
  /\ \A i \in 2..Len(calls) : calls[i][1] = "onmessage"

Finished(calls) == \E before : Begun(before) /\ calls = Append(before, <<"onclose">>)

(* Before the handshake is finished, and after.                            *)
Fresh(s) ==
  /\ DOMAIN s = Fields
  /\ "CONNECTED" \notin s.flags
  /\ s.readcb = "handshake"
  /\ s.calls = <<>>

Opened(s) ==
  /\ DOMAIN s = Fields
  /\ "CONNECTED" \in s.flags
  /\ s.readcb # "handshake"
  /\ Begun(s.calls)

IInv ==
  /\ conn \in {"none", "open", "shut", "leaked"}
  /\ conn = "none" => Fresh(state) /\ buf = <<>>
  /\ conn = "open" => (Fresh(state) /\ buf = <<>>) \/ Opened(state)
  /\ conn = "leaked" => state.calls = <<>>
  /\ conn = "shut" => state.calls = <<>> \/ Finished(state.calls)

-----------------------------------------------------------------------------
(* Calls *)

LEMMA AppendLemma ==
  ASSUME NEW q, IsSeq(q), NEW e
  PROVE  /\ IsSeq(Append(q, e)) /\ Len(q) \in Nat
         /\ Len(Append(q, e)) = Len(q) + 1
         /\ DOMAIN Append(q, e) = 1..(Len(q) + 1)
         /\ Append(q, e)[Len(q) + 1] = e
         /\ \A i \in 1..Len(q) : Append(q, e)[i] = q[i]
<1>1. PICK S : q \in Seq(S)
  BY DEF IsSeq
<1>2. PICK T : T = S \cup {e}
  OBVIOUS
<1>3. q \in Seq(T) /\ e \in T
  BY <1>1, <1>2, SeqMonotonic
<1>4. Append(q, e) \in Seq(T)
  BY <1>3, AppendProperties
<1>5. /\ Len(q) \in Nat /\ Len(Append(q, e)) = Len(q) + 1
      /\ Append(q, e)[Len(q) + 1] = e
      /\ \A i \in 1..Len(q) : Append(q, e)[i] = q[i]
  BY <1>3, AppendProperties, LenProperties
<1>6. DOMAIN Append(q, e) = 1..(Len(q) + 1)
  BY <1>4, <1>5, LenProperties
<1> QED BY <1>4, <1>5, <1>6 DEF IsSeq

LEMMA MessageAppended ==
  ASSUME NEW calls, Begun(calls), NEW opcode, NEW payload
  PROVE  Begun(Append(calls, <<"onmessage", opcode, payload>>))
<1>1. PICK e : e = <<"onmessage", opcode, payload>>
  OBVIOUS
<1>2. e[1] = "onmessage"
  BY <1>1
<1>3. Begun(Append(calls, e))
  <2>1. IsSeq(calls) /\ Len(calls) > 0
    BY DEF Begun
  <2>2. \A i \in 2..(Len(calls) + 1) : i \in 2..Len(calls) \/ i = Len(calls) + 1
    BY <2>1, AppendLemma
  <2> QED BY <1>2, <2>1, <2>2, AppendLemma DEF Begun
<1> QED BY <1>1, <1>3

(* What a finished sequence of calls looks like. *)
LEMMA FinishedLemma ==
  ASSUME NEW calls, Finished(calls)
  PROVE  /\ DOMAIN calls = 1..Len(calls) /\ Len(calls) \in Nat /\ Len(calls) > 1
         /\ calls[1] = <<"onopen">> /\ calls[Len(calls)] = <<"onclose">>
         /\ \A i \in 2..Len(calls) - 1 : calls[i][1] = "onmessage"
<1>1. PICK before : Begun(before) /\ calls = Append(before, <<"onclose">>)
  BY DEF Finished
<1>2. IsSeq(before) /\ Len(before) > 0
  BY <1>1 DEF Begun
<1>3. /\ Len(before) \in Nat /\ Len(calls) = Len(before) + 1
      /\ DOMAIN calls = 1..(Len(before) + 1)
      /\ calls[Len(before) + 1] = <<"onclose">>
      /\ \A i \in 1..Len(before) : calls[i] = before[i]
  BY <1>1, <1>2, AppendLemma
<1> QED BY <1>1, <1>2, <1>3 DEF Begun

-----------------------------------------------------------------------------
(* The functions a byte can reach keep an open connection open *)

LEMMA WrittenKeeps ==
  ASSUME NEW s, Opened(s), NEW bytes
  PROVE  Opened(Written(s, bytes))
BY DEF Opened, Written, Fields

LEMMA FailKeeps ==
  ASSUME NEW s, Opened(s), NEW code
  PROVE  Opened(libwebsock_fail_connection(s, code))
<1>1. PICK t : t = Written(s, CloseFrame(code))
  OBVIOUS
<1>2. Opened(t)
  BY <1>1, WrittenKeeps
<1>3. Opened([t EXCEPT !.flags = @ \cup {"SHOULD_CLOSE"}])
  BY <1>2 DEF Opened, Fields
<1> QED BY <1>1, <1>3 DEF libwebsock_fail_connection

LEMMA FramesKeep ==
  ASSUME NEW s, Opened(s), NEW frames
  PROVE  Opened([s EXCEPT !.frames = frames])
BY DEF Opened, Fields

LEMMA CloseKeeps ==
  ASSUME NEW s, Opened(s), NEW payload
  PROVE  Opened(CloseReceived(s, payload))
<1>1. PICK t : t = Closing(s, payload)
  OBVIOUS
<1>2. Opened(t)
  BY <1>1 DEF Closing, Opened, Fields
<1>3. Opened(Written(t, libwebsock_send_fragment(WS_OPCODE_CLOSE,
                          CloseAnswer(t.close_info, payload))))
  BY <1>2, WrittenKeeps
<1> QED BY <1>1, <1>2, <1>3 DEF CloseReceived

LEMMA ControlKeeps ==
  ASSUME NEW s, Opened(s), NEW f
  PROVE  Opened(libwebsock_handle_control_frame(s, f))
<1>1. PICK t : t = libwebsock_default_control_callback(s, f)
  OBVIOUS
<1>2. Opened(libwebsock_fail_connection(s, PROTOCOL_ERROR))
  BY FailKeeps
<1>3. Opened(CloseReceived(s, Unmasked(f)))
  BY CloseKeeps
<1>4. Opened(Written(s, libwebsock_send_fragment(WS_OPCODE_PONG, Unmasked(f))))
  BY WrittenKeeps
<1>5. Opened(t)
  BY <1>1, <1>2, <1>3, <1>4, Zenon DEF libwebsock_default_control_callback
<1>6. ASSUME NEW frames PROVE Opened([t EXCEPT !.frames = frames])
  BY <1>5, FramesKeep
<1> QED BY <1>1, <1>6 DEF libwebsock_handle_control_frame

LEMMA MessageKeeps ==
  ASSUME NEW s, Opened(s), NEW opcode, NEW payload
  PROVE  Opened(onmessage(s, opcode, payload))
<1>1. PICK t : t = [s EXCEPT !.calls = Append(@, <<"onmessage", opcode, payload>>)]
  OBVIOUS
<1>2. Begun(Append(s.calls, <<"onmessage", opcode, payload>>))
  BY MessageAppended DEF Opened
<1>3. Opened(t)
  BY <1>1, <1>2 DEF Opened, Fields
<1>4. Opened(Written(t, libwebsock_send_fragment(WS_OPCODE_TEXT, UpToZero(payload))))
  BY <1>3, WrittenKeeps
<1> QED BY <1>1, <1>4 DEF onmessage

LEMMA DispatchKeeps ==
  ASSUME NEW s, Opened(s)
  PROVE  Opened(libwebsock_dispatch_message(s))
<1> DEFINE payload == FlattenSeq([i \in DOMAIN s.frames |-> Unmasked(s.frames[i])])
           gone == [s EXCEPT !.frames = <<>>]
<1>1. Opened(gone)
  BY FramesKeep
<1> HIDE DEF payload, gone
<1>2. Opened(libwebsock_fail_connection(gone, WRONG_TYPE))
  BY <1>1, FailKeeps
<1>3. Opened(onmessage(gone, s.frames[1].opcode, payload))
  BY <1>1, MessageKeeps
<1>4. libwebsock_dispatch_message(s) \in
        {libwebsock_fail_connection(gone, WRONG_TYPE),
         onmessage(gone, s.frames[1].opcode, payload)}
  BY DEF libwebsock_dispatch_message, payload, gone
<1> QED BY <1>2, <1>3, <1>4

LEMMA ActKeeps ==
  ASSUME NEW s, Opened(s), NEW f
  PROVE  Opened(libwebsock_frame_act(s, f))
<1>1. Opened(libwebsock_handle_control_frame(s, f))
  BY ControlKeeps
<1>2. Opened(libwebsock_dispatch_message(s))
  BY DispatchKeeps
<1>3. Opened(libwebsock_fail_connection(s, PROTOCOL_ERROR))
  BY FailKeeps
<1> QED BY <1>1, <1>2, <1>3 DEF libwebsock_frame_act

LEMMA FlagsKeep ==
  ASSUME NEW s, Opened(s), NEW flags, "CONNECTED" \in flags
  PROVE  Opened([s EXCEPT !.flags = flags])
BY DEF Opened, Fields

LEMMA CompleteKeeps ==
  ASSUME NEW s, Opened(s), NEW f
  PROVE  Opened(FrameComplete(s, f))
<1>1. PICK t : t = [s EXCEPT !.flags = @ \ {"RECEIVING_FRAGMENT"}]
  OBVIOUS
<1>2. Opened(t)
  BY <1>1, FlagsKeep DEF Opened
<1>3. Opened(libwebsock_frame_act(s, f)) /\ Opened(libwebsock_frame_act(t, f))
  BY <1>2, ActKeeps
<1>4. Opened(Chained(s))
  BY FramesKeep DEF Chained
<1>5. Opened([Chained(s) EXCEPT !.flags = @ \cup {"RECEIVING_FRAGMENT"}])
  BY <1>4, FlagsKeep DEF Opened
<1>6. Opened(libwebsock_fail_connection(s, PROTOCOL_ERROR))
  BY FailKeeps
<1> QED BY <1>1, <1>3, <1>4, <1>5, <1>6 DEF FrameComplete

-----------------------------------------------------------------------------
(* The callbacks *)

LEMMA RecvByteKeeps ==
  ASSUME IInv, HandleRecvByte
  PROVE  IInv'
<1>1. conn = "open" /\ conn' = "open" /\ Opened(state)
  BY DEF IInv, HandleRecvByte
<1>2. PICK taken, checked, acted :
        LET kept == WithCurrent(state, taken.frame)
            complete == taken.result # 0 /\ Complete(taken.frame)
        IN /\ checked = IF taken.result = -1
                        THEN libwebsock_fail_connection(kept, PROTOCOL_ERROR)
                        ELSE kept
           /\ acted = IF complete THEN FrameComplete(checked, taken.frame) ELSE checked
           /\ state' = acted
  BY Zenon DEF HandleRecvByte
<1>3. Opened(WithCurrent(state, taken.frame))
  BY <1>1, FramesKeep DEF WithCurrent
<1>4. Opened(checked)
  BY <1>2, <1>3, FailKeeps
<1>5. Opened(acted)
  BY <1>2, <1>4, CompleteKeeps
<1> QED BY <1>1, <1>2, <1>5 DEF IInv

(* The handshake is finished, fails or goes on. *)
LEMMA HandshakeKeeps ==
  ASSUME IInv, libwebsock_handshake
  PROVE  IInv'
<1>1. PICK k : HandshakeFails(k) \/ HandshakeFinish(k) \/ HandshakeGoesOn(k)
  BY DEF libwebsock_handshake
<1>2. Fresh(state) /\ conn = "open" /\ buf = <<>> /\ buf' = buf
  BY <1>1 DEF IInv, Opened, HandshakeFails, HandshakeFinish, HandshakeGoesOn, Dispatching
<1>3. CASE HandshakeFails(k)
  <2>1. conn' = "leaked" /\ state'.calls = <<>>
    BY <1>2, <1>3 DEF HandshakeFails, Fresh, Fields
  <2> QED BY <2>1 DEF IInv
<1>4. CASE HandshakeFinish(k)
  <2>1. PICK t : t = Written(state, Response)
    OBVIOUS
  <2>2. DOMAIN t = Fields /\ t.calls = <<>>
    BY <1>2, <2>1 DEF Written, Fresh, Fields
  <2>3. state' = [t EXCEPT
                    !.data = NULL, !.readcb = "recv", !.writecb = "handle_send",
                    !.flags = (@ \ {"CONNECTING"}) \cup {"CONNECTED"},
                    !.calls = Append(@, <<"onopen">>)]
    BY <1>4, <2>1 DEF HandshakeFinish
  <2>4. /\ DOMAIN state' = Fields /\ "CONNECTED" \in state'.flags
        /\ state'.readcb # "handshake" /\ state'.calls = Append(<<>>, <<"onopen">>)
    BY <2>2, <2>3 DEF Fields
  <2>5. Begun(Append(<<>>, <<"onopen">>))
    <3>1. IsSeq(<<>>) /\ Len(<<>>) = 0
      <4>1. <<>> \in Seq({})
        OBVIOUS
      <4> QED BY <4>1 DEF IsSeq
    <3>2. PICK q, e : q = <<>> /\ e = <<"onopen">>
      OBVIOUS
    <3>3. IsSeq(q) /\ Len(q) = 0
      BY <3>1, <3>2
    <3>4. /\ IsSeq(Append(q, e)) /\ Len(Append(q, e)) = Len(q) + 1
          /\ Append(q, e)[Len(q) + 1] = e
      BY <3>3, AppendLemma
    <3> QED BY <3>2, <3>3, <3>4 DEF Begun
  <2>6. Opened(state')
    BY <2>4, <2>5 DEF Opened
  <2>7. conn' = "open"
    BY <1>2, <1>4 DEF HandshakeFinish
  <2> QED BY <2>6, <2>7 DEF IInv
<1>5. CASE HandshakeGoesOn(k)
  <2>1. Fresh(state') /\ conn' = "open"
    BY <1>2, <1>5 DEF HandshakeGoesOn, Fresh, Fields
  <2> QED BY <1>2, <2>1 DEF IInv
<1> QED BY <1>1, <1>3, <1>4, <1>5

(* onclose is called when and only when the application knows of the       *)
(* connection.                                                             *)
LEMMA ShutdownKeeps ==
  ASSUME IInv, conn = "open", libwebsock_shutdown
  PROVE  IInv'
<1>1. conn' = "shut"
  BY DEF libwebsock_shutdown
<1>2. CASE Fresh(state)
  <2>1. state'.calls = <<>>
    BY <1>2 DEF libwebsock_shutdown, Fresh, Fields, Is
  <2> QED BY <1>1, <2>1 DEF IInv
<1>3. CASE Opened(state)
  <2>1. state'.calls = Append(state.calls, <<"onclose">>)
    BY <1>3 DEF libwebsock_shutdown, Opened, Fields, Is
  <2>2. Finished(state'.calls)
    BY <1>3, <2>1 DEF Finished, Opened
  <2> QED BY <1>1, <2>2 DEF IInv
<1> QED BY <1>2, <1>3 DEF IInv

LEMMA IInvStep ==
  ASSUME IInv, [Next]_vars
  PROVE  IInv'
<1>1. CASE UNCHANGED <<conn, state, buf>>
  BY <1>1 DEF IInv
<1>2. ASSUME NEW writecb, AcceptWith(writecb)
      PROVE  IInv'
  <2>1. conn' = "open" /\ buf' = <<>> /\ state' = NewState(writecb)
    BY <1>2 DEF AcceptWith, IInv
  <2>2. Fresh(state')
    BY <2>1 DEF NewState, Fresh, Fields
  <2> QED BY <2>1, <2>2 DEF IInv
<1>3. CASE libwebsock_handshake
  BY <1>3, HandshakeKeeps
<1>4. ASSUME NEW k, HandleRecv(k)
      PROVE  IInv'
  <2>1. conn = "open" /\ state.readcb = "recv" /\ UNCHANGED <<conn, state>>
    BY <1>4 DEF HandleRecv, Dispatching
  <2>2. Opened(state)
    BY <2>1 DEF IInv, Fresh
  <2> QED BY <2>1, <2>2 DEF IInv
<1>5. CASE HandleRecvByte
  BY <1>5, RecvByteKeeps
<1>6. CASE HandleSend \/ DoEvent
  <2>1. conn = "open"
    BY <1>6 DEF HandleSend, DoEvent, Dispatching
  <2>2. libwebsock_shutdown \/ UNCHANGED <<conn, state, buf>>
    BY <1>6 DEF HandleSend, DoEvent
  <2> QED BY <1>1, <2>1, <2>2, ShutdownKeeps
<1>7. CASE libwebsock_close_with_reason
  <2>1. conn = "open" /\ conn' = "open" /\ Opened(state)
    BY <1>7 DEF libwebsock_close_with_reason, Dispatching, IInv, Fresh, Is
  <2>2. PICK t : t = Written(state, CloseFrame(GOING_AWAY))
    OBVIOUS
  <2>3. state' = [t EXCEPT !.flags = @ \cup {"SENT_CLOSE_FRAME"}]
    BY <1>7, <2>2 DEF libwebsock_close_with_reason
  <2>4. Opened(t)
    BY <2>1, <2>2, WrittenKeeps
  <2>5. Opened(state')
    BY <2>3, <2>4, FlagsKeep DEF Opened
  <2> QED BY <2>1, <2>5 DEF IInv
<1>8. CASE libwebsock_bind \/ libwebsock_bind_ssl_real \/ libwebsock_wait \/ Signal
  BY <1>1, <1>8 DEF libwebsock_bind, libwebsock_bind_ssl_real, libwebsock_wait, Signal
<1>9. CASE UNCHANGED vars
  BY <1>1, <1>9 DEF vars
<1> QED
  BY <1>2, <1>3, <1>4, <1>5, <1>6, <1>7, <1>8, <1>9
  DEF Next, libwebsock_handle_accept, libwebsock_handle_accept_ssl

-----------------------------------------------------------------------------
(* Theorems *)

(* A connection is fresh, open with the calls begun, or over with them     *)
(* finished, and bytes are only looked at on one that is open.             *)
THEOREM Inductive == Spec => []IInv
<1>1. Init => IInv
  BY DEF Init, IInv, NewState, Fresh, Fields
<1> QED BY <1>1, IInvStep, PTL DEF Spec

(* Whatever a client sends and when it goes, the application sees onopen   *)
(* first and once, then messages, and onclose last and exactly when a      *)
(* connection it was told of is shut down.                                 *)
THEOREM CallbacksAreBracketed == Spec => []CallbacksBracketed
<1>1. IInv => CallbacksBracketed
  <2> SUFFICES ASSUME IInv PROVE CallbacksBracketed
    OBVIOUS
  <2>1. CASE state.calls = <<>>
    <3>1. DOMAIN state.calls = {}
      BY <2>1
    <3> QED BY <2>1, <3>1 DEF CallbacksBracketed, ToSet
  <2>2. PICK c : c = state.calls
    OBVIOUS
  <2>3. \A e : e[1] = "onmessage" => e # <<"onopen">> /\ e # <<"onclose">>
    OBVIOUS
  <2>4. <<"onopen">> # <<"onclose">>
    OBVIOUS
  <2>5. CASE conn = "open" /\ Opened(state)
    <3>1. Begun(c)
      BY <2>2, <2>5 DEF Opened
    <3>2. DOMAIN c = 1..Len(c) /\ Len(c) \in Nat
      BY <3>1, LenProperties DEF Begun, IsSeq
    <3>3. \A i \in DOMAIN c : i = 1 \/ i \in 2..Len(c)
      BY <3>2
    <3>4. \A i \in DOMAIN c : (c[i] = <<"onopen">> <=> i = 1) /\ c[i] # <<"onclose">>
      BY <2>3, <2>4, <3>1, <3>2, <3>3 DEF Begun
    <3> QED BY <2>2, <2>5, <3>4 DEF CallbacksBracketed, ToSet
  <2>6. CASE conn = "shut" /\ Finished(state.calls)
    <3>1. /\ DOMAIN c = 1..Len(c) /\ Len(c) \in Nat /\ Len(c) > 1
          /\ c[1] = <<"onopen">> /\ c[Len(c)] = <<"onclose">>
          /\ \A i \in 2..Len(c) - 1 : c[i][1] = "onmessage"
      BY <2>2, <2>6, FinishedLemma
    <3>2. \A i \in DOMAIN c : i = 1 \/ i = Len(c) \/ i \in 2..Len(c) - 1
      BY <3>1
    <3>3. \A i \in DOMAIN c : /\ c[i] = <<"onopen">> <=> i = 1
                              /\ c[i] = <<"onclose">> => i = Len(c)
      BY <2>3, <2>4, <3>1, <3>2
    <3>4. Len(c) \in DOMAIN c /\ c # <<>>
      BY <3>1
    <3> QED BY <2>2, <2>6, <3>1, <3>3, <3>4 DEF CallbacksBracketed, ToSet
  <2> QED BY <2>1, <2>5, <2>6 DEF IInv, Fresh
<1> QED BY <1>1, Inductive, PTL
-----------------------------------------------------------------------------
(* The chain of frames and what was written *)

Flags == {"SHOULD_CLOSE", "SENT_CLOSE_FRAME", "CONNECTING", "CONNECTED", "RECEIVING_FRAGMENT"}

(* All frames but the last are complete.                                   *)
Chain(q) ==
  /\ q \in Seq(Frame)
  /\ \A i \in 1..Len(q) : GoodFrame(q[i])
  /\ \A i \in 1..Len(q) - 1 : Complete(q[i])

CloseWritten(written) ==
  \E i \in 1..Len(written) : written[i][1] = 128 + WS_OPCODE_CLOSE

(* A connection that should close has written a close frame.               *)
Sound(s) ==
  /\ DOMAIN s = Fields
  /\ s.flags \subseteq Flags
  /\ s.readcb \in {"handshake", "recv", "NULL"}
  /\ s.writecb \in {"handle_send", "NULL"}
  /\ IsSeq(s.written)
  /\ Chain(s.frames)
  /\ Is(s, "SHOULD_CLOSE") \/ Is(s, "SENT_CLOSE_FRAME") => CloseWritten(s.written)

Linked(s) == Is(s, "RECEIVING_FRAGMENT") <=> Len(s.frames) > 1

(* The types, and what they need: the bytes on their way are bytes, and    *)
(* the chain of frames is that of an open connection.                      *)
Shape ==
  /\ loop \in {"unbound", "bound", "running", "exited"}
  /\ conn \in {"none", "open", "shut", "leaked"}
  /\ Sound(state)
  /\ conn = "open" => Linked(state)
  /\ conn = "none" => drained = 0
  /\ drained \in 0..Len(state.written)
  /\ script \in Scripts
  /\ arrived \in 0..SizeOf(script)
  /\ buf \in Seq(Byte) /\ input \in Seq(Byte)

LEMMA ChainEmpty == Chain(<<>>)
<1>1. PICK q : q = <<>>
  OBVIOUS
<1>2. q \in Seq(Frame) /\ Len(q) = 0
  BY <1>1, EmptySeq
<1>3. Chain(q)
  BY <1>2 DEF Chain
<1> QED BY <1>1, <1>3

LEMMA ChainMore ==
  ASSUME NEW q, Chain(q), NEW f, GoodFrame(f), Len(q) = 0 \/ Complete(q[Len(q)]),
         NEW r, r = Append(q, f)
  PROVE  /\ Chain(r) /\ Len(r) = Len(q) + 1 /\ Len(q) \in Nat
         /\ r[Len(q) + 1] = f
<1>1. q \in Seq(Frame) /\ f \in Frame /\ Len(q) \in Nat
  BY LenProperties DEF Chain, GoodFrame
<1>2. r = Append(q, f)
  OBVIOUS
<1>3. /\ r \in Seq(Frame) /\ Len(r) = Len(q) + 1 /\ r[Len(q) + 1] = f
      /\ \A i \in 1..Len(q) : r[i] = q[i]
  BY <1>1, <1>2, AppendProperties
<1>4. \A i \in 1..Len(r) : i \in 1..Len(q) \/ i = Len(q) + 1
  BY <1>1, <1>3
<1>5. \A i \in 1..Len(r) : GoodFrame(r[i])
  BY <1>3, <1>4 DEF Chain
<1>6. \A i \in 1..Len(r) - 1 : Complete(r[i])
  <2>1. \A i \in 1..Len(r) - 1 : i \in 1..Len(q) /\ (i \in 1..Len(q) - 1 \/ (i = Len(q) /\ Len(q) > 0))
    BY <1>1, <1>3
  <2> QED BY <1>3, <2>1 DEF Chain
<1>7. Chain(r)
  BY <1>3, <1>5, <1>6 DEF Chain
<1> QED BY <1>1, <1>3, <1>7

(* The last frame of a chain is replaced; an empty chain is started.       *)
LEMMA ChainFront ==
  ASSUME NEW q, Chain(q), q # <<>>
  PROVE  /\ Chain(Front(q)) /\ Len(q) \in Nat /\ Len(q) > 0 /\ Len(Front(q)) = Len(q) - 1
         /\ Len(Front(q)) = 0 \/ Complete(Front(q)[Len(Front(q))])
<1>1. q \in Seq(Frame) /\ Len(q) \in Nat
  BY LenProperties DEF Chain
<1>2. Len(q) > 0
  BY <1>1, EmptySeq
<1>3. PICK n \in Nat : n = Len(q) - 1
  BY <1>1, <1>2
<1>4. PICK r : r = SubSeq(q, 1, n)
  OBVIOUS
<1>5. 1 \in 1..Len(q) + 1 /\ n \in 0..Len(q) /\ n - 1 + 1 = n
  BY <1>1, <1>2, <1>3
<1>6. r \in Seq(Frame) /\ Len(r) = n /\ \A i \in 1..n : r[i] = q[i]
  <2>1. \A i \in 1..n : i \in 1..Len(q) /\ q[i] \in Frame
    BY <1>1, <1>3, ElementOfSeq
  <2> QED BY <1>1, <1>3, <1>4, <2>1
<1>7. Front(q) = r
  BY <1>3, <1>4 DEF Front
<1>8. \A i \in 1..n : i \in 1..Len(q) /\ i \in 1..Len(q) - 1
  BY <1>1, <1>3
<1>9. \A i \in 1..n : GoodFrame(r[i]) /\ Complete(r[i])
  BY <1>6, <1>8 DEF Chain
<1>10. Chain(r)
  <2>1. \A i \in 1..Len(r) - 1 : i \in 1..n
    BY <1>6
  <2> QED BY <1>6, <1>9, <2>1 DEF Chain
<1>11. n > 0 => n \in 1..n
  OBVIOUS
<1> QED BY <1>1, <1>2, <1>3, <1>6, <1>7, <1>9, <1>10, <1>11

LEMMA ChainReplaced ==
  ASSUME NEW q, Chain(q), NEW f, GoodFrame(f), NEW r,
         \/ q = <<>> /\ r = <<f>>
         \/ q # <<>> /\ r = Append(Front(q), f)
  PROVE  /\ Chain(r) /\ Len(r) \in Nat /\ Len(r) > 0 /\ r[Len(r)] = f
         /\ Len(r) > 1 <=> Len(q) > 1
<1>1. CASE q = <<>>
  <2>1. r = Append(q, f) /\ Len(q) = 0
    BY <1>1
  <2>2. Chain(r) /\ Len(r) = Len(q) + 1 /\ r[Len(q) + 1] = f
    BY <2>1, ChainMore, Zenon
  <2> QED BY <2>1, <2>2
<1>2. CASE q # <<>>
  <2>1. PICK p : p = Front(q)
    OBVIOUS
  <2>2. /\ Chain(p) /\ Len(q) \in Nat /\ Len(q) > 0 /\ Len(p) = Len(q) - 1
        /\ Len(p) = 0 \/ Complete(p[Len(p)])
    BY <1>2, <2>1, ChainFront
  <2>3. r = Append(p, f)
    BY <1>2, <2>1
  <2>4. Chain(r) /\ Len(r) = Len(p) + 1 /\ r[Len(p) + 1] = f
    BY <2>2, <2>3, ChainMore
  <2> QED BY <1>2, <2>2, <2>4
<1> QED BY <1>1, <1>2

LEMMA FragmentFirst ==
  ASSUME NEW opcode \in 0..15, NEW data, IsSeq(data)
  PROVE  libwebsock_send_fragment(opcode, data)[1] = 128 + opcode
<1>1. PICK S : data \in Seq(S)
  BY DEF IsSeq
<1>2. PICK h : h = Header(opcode, Len(data))
  OBVIOUS
<1>3. Len(data) \in Nat
  BY <1>1, LenProperties
<1>4. h \in Seq(Byte) /\ h[1] = 128 + opcode /\ Len(h) >= 2
  BY <1>2, <1>3, HeaderType
<1>5. PICK T : T = Byte \cup S
  OBVIOUS
<1>6. h \in Seq(T) /\ data \in Seq(T)
  BY <1>1, <1>4, <1>5, SeqMonotonic
<1>7. (h \o data)[1] = h[1]
  BY <1>4, <1>6
<1>8. libwebsock_send_fragment(opcode, data) = h \o data
  BY <1>2 DEF libwebsock_send_fragment
<1> QED BY <1>4, <1>7, <1>8

LEMMA CloseFrameFirst ==
  ASSUME NEW code
  PROVE  CloseFrame(code)[1] = 128 + WS_OPCODE_CLOSE
<1>1. PICK c : c = Code(code)
  OBVIOUS
<1>2. IsSeq(c)
  <2>1. PICK a, b : c = <<a, b>>
    BY <1>1 DEF Code
  <2>2. c \in Seq({a, b})
    BY <2>1
  <2> QED BY <2>2 DEF IsSeq
<1> QED BY <1>1, <1>2, FragmentFirst DEF CloseFrame, WS_OPCODE_CLOSE

-----------------------------------------------------------------------------
(* What a byte does to a sound connection *)

LEMMA WrittenSound ==
  ASSUME NEW s, Sound(s), NEW bytes, NEW t, t = Written(s, bytes)
  PROVE  /\ Sound(t) /\ t.flags = s.flags /\ t.frames = s.frames
         /\ bytes[1] = 128 + WS_OPCODE_CLOSE => CloseWritten(t.written)
         /\ Len(s.written) \in Nat /\ Len(t.written) \in Nat
         /\ Len(t.written) = Len(s.written) + 1 /\ Len(t.written) >= Len(s.written)
<1>1. /\ DOMAIN t = Fields /\ t.written = Append(s.written, bytes)
      /\ t.flags = s.flags /\ t.frames = s.frames
      /\ t.readcb = s.readcb /\ t.writecb = s.writecb
  BY DEF Sound, Fields, Written
<1>2. IsSeq(s.written)
  BY DEF Sound
<1>3. /\ IsSeq(t.written) /\ Len(s.written) \in Nat /\ Len(t.written) = Len(s.written) + 1
      /\ t.written[Len(s.written) + 1] = bytes
      /\ \A i \in 1..Len(s.written) : t.written[i] = s.written[i]
  BY <1>1, <1>2, AppendLemma
<1>4. CloseWritten(s.written) => CloseWritten(t.written)
  <2>1. \A i \in 1..Len(s.written) : i \in 1..Len(t.written)
    BY <1>3
  <2> QED BY <1>3, <2>1 DEF CloseWritten
<1>5. bytes[1] = 128 + WS_OPCODE_CLOSE => CloseWritten(t.written)
  <2>1. Len(s.written) + 1 \in 1..Len(t.written)
    BY <1>3
  <2> QED BY <1>3, <2>1 DEF CloseWritten
<1> QED BY <1>1, <1>3, <1>4, <1>5 DEF Sound, Is

(* A flag may be set when a close frame was written.                       *)
LEMMA FlagSound ==
  ASSUME NEW s, Sound(s), NEW flag \in Flags,
         flag \in {"SHOULD_CLOSE", "SENT_CLOSE_FRAME"} => CloseWritten(s.written),
         NEW t, t = [s EXCEPT !.flags = @ \cup {flag}]
  PROVE  /\ Sound(t) /\ t.flags = s.flags \cup {flag} /\ t.frames = s.frames
         /\ t.written = s.written
<1>1. /\ DOMAIN t = Fields /\ t.written = s.written
      /\ t.flags = s.flags \cup {flag} /\ t.frames = s.frames
      /\ t.readcb = s.readcb /\ t.writecb = s.writecb
  BY DEF Sound, Fields
<1>2. t.flags \subseteq Flags
  BY <1>1 DEF Sound
<1>3. Is(t, "SHOULD_CLOSE") \/ Is(t, "SENT_CLOSE_FRAME") => CloseWritten(t.written)
  BY <1>1 DEF Sound, Is
<1> QED BY <1>1, <1>2, <1>3 DEF Sound

LEMMA FailSound ==
  ASSUME NEW s, Sound(s), NEW code, NEW t, t = libwebsock_fail_connection(s, code)
  PROVE  Sound(t) /\ t.flags = s.flags \cup {"SHOULD_CLOSE"} /\ t.frames = s.frames
         /\ Len(t.written) >= Len(s.written)
<1>1. PICK u : u = Written(s, CloseFrame(code))
  OBVIOUS
<1>2. /\ Sound(u) /\ u.flags = s.flags /\ u.frames = s.frames /\ CloseWritten(u.written)
      /\ Len(u.written) >= Len(s.written)
  BY <1>1, WrittenSound, CloseFrameFirst
<1>3. t = [u EXCEPT !.flags = @ \cup {"SHOULD_CLOSE"}]
  BY <1>1 DEF libwebsock_fail_connection
<1>4. "SHOULD_CLOSE" \in Flags
  BY DEF Flags
<1> QED BY <1>2, <1>3, <1>4, FlagSound

LEMMA ChainSound ==
  ASSUME NEW s, Sound(s), NEW frames, Chain(frames), NEW t, t = [s EXCEPT !.frames = frames]
  PROVE  Sound(t) /\ t.flags = s.flags /\ t.frames = frames /\ t.written = s.written
<1>1. /\ DOMAIN t = Fields /\ t.written = s.written /\ t.flags = s.flags
      /\ t.frames = frames /\ t.readcb = s.readcb /\ t.writecb = s.writecb
  BY DEF Sound, Fields
<1> QED BY <1>1 DEF Sound, Is

(* The frame that answers a close frame is a close frame.                  *)
LEMMA AnswerSound ==
  ASSUME NEW info, NEW payload, IsSeq(payload)
  PROVE  libwebsock_send_fragment(WS_OPCODE_CLOSE, CloseAnswer(info, payload))[1]
           = 128 + WS_OPCODE_CLOSE
<1>1. PICK S : payload \in Seq(S)
  BY DEF IsSeq
<1>2. PICK reason : reason = SubSeq(payload, 3, Len(payload))
  OBVIOUS
<1>3. reason \in Seq(S)
  BY <1>1, <1>2
<1>4. ASSUME NEW code PROVE IsSeq(Code(code) \o reason)
  <2>1. PICK a, b : Code(code) = <<a, b>>
    BY DEF Code
  <2>2. PICK T : T = S \cup {a, b}
    OBVIOUS
  <2>3. <<a, b>> \in Seq(T) /\ reason \in Seq(T)
    BY <1>3, <2>2, SeqMonotonic
  <2>4. <<a, b>> \o reason \in Seq(T)
    BY <2>3, ConcatProperties
  <2> QED BY <2>1, <2>4 DEF IsSeq
<1>5. PICK answer : answer = CloseAnswer(info, payload)
  OBVIOUS
<1>6. \/ answer = payload
      \/ answer = Code(PROTOCOL_ERROR) \o reason
      \/ answer = Code(WRONG_TYPE) \o reason
  BY <1>2, <1>5 DEF CloseAnswer
<1>7. IsSeq(answer)
  BY <1>4, <1>6
<1>8. WS_OPCODE_CLOSE \in 0..15
  BY DEF WS_OPCODE_CLOSE
<1> QED BY <1>5, <1>7, <1>8, FragmentFirst

LEMMA CloseReceivedSound ==
  ASSUME NEW s, Sound(s), NEW payload, IsSeq(payload), NEW t, t = CloseReceived(s, payload)
  PROVE  Sound(t) /\ t.flags = s.flags \cup {"SHOULD_CLOSE"} /\ t.frames = s.frames
         /\ Len(t.written) >= Len(s.written)
<1>1. PICK u : u = Closing(s, payload)
  OBVIOUS
<1>2. /\ DOMAIN u = Fields /\ u.written = s.written
      /\ u.flags = s.flags \cup {"SHOULD_CLOSE"} /\ u.frames = s.frames
      /\ u.readcb = "NULL" /\ u.writecb = s.writecb
  BY <1>1 DEF Closing, Sound, Fields
<1>3. PICK answer : answer = libwebsock_send_fragment(WS_OPCODE_CLOSE,
                               CloseAnswer(u.close_info, payload))
  OBVIOUS
<1>4. answer[1] = 128 + WS_OPCODE_CLOSE
  BY <1>3, AnswerSound
<1>5. t = IF Is(s, "SENT_CLOSE_FRAME") THEN u ELSE Written(u, answer)
  BY <1>1, <1>3 DEF CloseReceived
<1>6. PICK w : w = IF Is(s, "SENT_CLOSE_FRAME") THEN s ELSE Written(s, answer)
  OBVIOUS
<1>7. /\ Sound(w) /\ w.flags = s.flags /\ w.frames = s.frames /\ CloseWritten(w.written)
      /\ Len(w.written) >= Len(s.written)
  <2>1. CASE Is(s, "SENT_CLOSE_FRAME")
    <3>1. Len(s.written) \in Nat
      BY WrittenSound
    <3> QED BY <1>6, <2>1, <3>1 DEF Sound
  <2>2. CASE ~Is(s, "SENT_CLOSE_FRAME")
    BY <1>4, <1>6, <2>2, WrittenSound
  <2> QED BY <2>1, <2>2
<1>8. /\ DOMAIN t = Fields /\ t.written = w.written /\ t.readcb = "NULL"
      /\ t.flags = s.flags \cup {"SHOULD_CLOSE"} /\ t.frames = s.frames
      /\ t.writecb = s.writecb
  <2>1. CASE Is(s, "SENT_CLOSE_FRAME")
    BY <1>2, <1>5, <1>6, <2>1
  <2>2. CASE ~Is(s, "SENT_CLOSE_FRAME")
    <3>1. t = Written(u, answer) /\ w = Written(s, answer)
      BY <1>5, <1>6, <2>2
    <3>2. w.written = Append(s.written, answer)
      BY <3>1 DEF Written, Sound, Fields
    <3>3. t.written = Append(u.written, answer) /\ DOMAIN t = Fields /\ t.readcb = u.readcb
          /\ t.flags = u.flags /\ t.frames = u.frames /\ t.writecb = u.writecb
      BY <1>2, <3>1 DEF Written, Fields
    <3> QED BY <1>2, <3>2, <3>3
  <2> QED BY <2>1, <2>2
<1>9. t.flags \subseteq Flags
  BY <1>8 DEF Sound, Flags
<1>10. s.writecb \in {"handle_send", "NULL"} /\ Chain(s.frames) /\ IsSeq(w.written)
  BY <1>7 DEF Sound
<1> QED BY <1>7, <1>8, <1>9, <1>10 DEF Sound

LEMMA CallbackSound ==
  ASSUME NEW s, Sound(s), NEW f, GoodFrame(f), Complete(f),
         NEW t, t = libwebsock_default_control_callback(s, f)
  PROVE  Sound(t) /\ t.frames = s.frames /\ (Is(t, "RECEIVING_FRAGMENT") <=> Is(s, "RECEIVING_FRAGMENT"))
         /\ Len(t.written) >= Len(s.written)
<1>1. PICK payload : payload = Unmasked(f)
  OBVIOUS
<1>2. IsSeq(payload)
  <2>1. f.payload_len \in Nat
    BY DEF GoodFrame, Frame, Complete
  <2>2. PICK n \in Nat : n = f.payload_len
    BY <2>1
  <2> DEFINE value(i) == Xor(f.raw[f.payload_offset + i], f.mask[((i - 1) % MASK_LENGTH) + 1])
             S == {value(i) : i \in 1..n}
  <2>3. payload = [i \in 1..n |-> value(i)]
    BY <1>1, <2>2 DEF Unmasked
  <2>4. payload \in [1..n -> S]
    <3> HIDE DEF value
    <3> QED BY <2>3
  <2> HIDE DEF S
  <2>5. payload \in Seq(S)
    BY <2>4
  <2> QED BY <2>5 DEF IsSeq
<1>3. \/ t = libwebsock_fail_connection(s, PROTOCOL_ERROR)
      \/ t = CloseReceived(s, payload)
      \/ t = Written(s, libwebsock_send_fragment(WS_OPCODE_PONG, payload))
      \/ t = s
  BY <1>1 DEF libwebsock_default_control_callback
<1>4. CASE t = libwebsock_fail_connection(s, PROTOCOL_ERROR)
  BY <1>4, FailSound DEF Is
<1>5. CASE t = CloseReceived(s, payload)
  BY <1>2, <1>5, CloseReceivedSound DEF Is
<1>6. CASE t = Written(s, libwebsock_send_fragment(WS_OPCODE_PONG, payload))
  <2>1. PICK bytes, u : u = t /\ u = Written(s, bytes)
    BY <1>6
  <2>2. u = Written(s, bytes)
    BY <2>1
  <2>3. /\ Sound(u) /\ u.flags = s.flags /\ u.frames = s.frames
        /\ Len(u.written) >= Len(s.written)
    BY <2>2, WrittenSound
  <2> QED BY <2>1, <2>3 DEF Is
<1>7. CASE t = s
  <2>1. Len(s.written) \in Nat
    BY WrittenSound
  <2> QED BY <1>7, <2>1
<1> QED BY <1>3, <1>4, <1>5, <1>6, <1>7

LEMMA ControlSound ==
  ASSUME NEW s, Sound(s), Linked(s), s.frames # <<>>, NEW f, GoodFrame(f), Complete(f),
         NEW t, t = libwebsock_handle_control_frame(s, f)
  PROVE  Sound(t) /\ Linked(t) /\ Len(t.written) >= Len(s.written)
<1>1. PICK u : u = libwebsock_default_control_callback(s, f)
  OBVIOUS
<1>2. /\ Sound(u) /\ (Is(u, "RECEIVING_FRAGMENT") <=> Is(s, "RECEIVING_FRAGMENT"))
      /\ Len(u.written) >= Len(s.written)
  BY <1>1, CallbackSound
<1>3. PICK shift \in Nat : shift = IF f.payload_len > 125 THEN 0 ELSE 4
  OBVIOUS
<1>4. PICK none : none = <<>>
  OBVIOUS
<1>5. none \in Seq(Byte) /\ Len(none) = 0
  BY <1>4, EmptySeq
<1>6. PICK g : g = [f EXCEPT !.payload_offset = @ - shift, !.state = "sw_start", !.raw = none]
  OBVIOUS
<1>7. g \in Frame /\ g.mask = f.mask /\ g.state = "sw_start" /\ g.raw = none
  <2>1. f \in Frame /\ f.payload_offset - shift \in Int
    BY DEF GoodFrame, Frame
  <2>2. PICK offset \in Int : offset = f.payload_offset - shift
    BY <2>1
  <2>3. g = [f EXCEPT !.payload_offset = offset, !.state = "sw_start", !.raw = none]
    BY <1>6, <2>2
  <2>4. g = [fin |-> f.fin, opcode |-> f.opcode, mask_offset |-> f.mask_offset,
             payload_offset |-> offset, payload_len_short |-> f.payload_len_short,
             payload_len |-> f.payload_len, raw |-> none, mask |-> f.mask, state |-> "sw_start"]
    BY <2>1, <2>3 DEF Frame
  <2>5. g \in Frame
    BY <1>5, <2>1, <2>4 DEF Frame
  <2> QED BY <2>4, <2>5
<1>8. GoodFrame(g)
  BY <1>5, <1>7 DEF GoodFrame
<1>9. PICK frames : frames = Append(Front(s.frames), g)
  OBVIOUS
<1>10. Chain(frames) /\ (Len(frames) > 1 <=> Len(s.frames) > 1)
  <2>1. PICK q : q = s.frames
    OBVIOUS
  <2>2. Chain(q) /\ q # <<>> /\ frames = Append(Front(q), g)
    BY <1>9, <2>1 DEF Sound
  <2>3. Chain(frames) /\ (Len(frames) > 1 <=> Len(q) > 1)
    BY <1>8, <2>2, ChainReplaced
  <2> QED BY <2>1, <2>3
<1>11. t = [u EXCEPT !.frames = frames]
  BY <1>1, <1>3, <1>4, <1>6, <1>9 DEF libwebsock_handle_control_frame
<1>12. Sound(t) /\ t.flags = u.flags /\ t.frames = frames /\ t.written = u.written
  BY <1>2, <1>10, <1>11, ChainSound
<1> QED BY <1>2, <1>10, <1>12 DEF Linked, Is

LEMMA DispatchSound ==
  ASSUME NEW s, Sound(s), ~Is(s, "RECEIVING_FRAGMENT"),
         NEW t, t = libwebsock_dispatch_message(s)
  PROVE  Sound(t) /\ Linked(t) /\ Len(t.written) >= Len(s.written)
<1>1. PICK payload : payload = FlattenSeq([i \in DOMAIN s.frames |-> Unmasked(s.frames[i])])
  OBVIOUS
<1>2. PICK none : none = <<>>
  OBVIOUS
<1>3. Chain(none) /\ Len(none) = 0
  BY <1>2, ChainEmpty
<1>4. PICK gone : gone = [s EXCEPT !.frames = none]
  OBVIOUS
<1>5. Sound(gone) /\ gone.flags = s.flags /\ gone.frames = none /\ gone.written = s.written
  BY <1>3, <1>4, ChainSound
<1>6. \/ t = libwebsock_fail_connection(gone, WRONG_TYPE)
      \/ t = onmessage(gone, s.frames[1].opcode, payload)
  BY <1>1, <1>2, <1>4 DEF libwebsock_dispatch_message
<1>7. CASE t = libwebsock_fail_connection(gone, WRONG_TYPE)
  <2>1. /\ Sound(t) /\ t.flags = s.flags \cup {"SHOULD_CLOSE"} /\ t.frames = none
        /\ Len(t.written) >= Len(s.written)
    BY <1>5, <1>7, FailSound
  <2> QED BY <1>3, <2>1 DEF Linked, Is
<1>8. CASE t = onmessage(gone, s.frames[1].opcode, payload)
  <2>1. PICK calls : calls = Append(gone.calls, <<"onmessage", s.frames[1].opcode, payload>>)
    OBVIOUS
  <2>2. PICK u : u = [gone EXCEPT !.calls = calls]
    OBVIOUS
  <2>3. /\ DOMAIN u = Fields /\ u.written = gone.written /\ u.flags = gone.flags
        /\ u.frames = gone.frames /\ u.readcb = gone.readcb /\ u.writecb = gone.writecb
    BY <1>5, <2>2 DEF Sound, Fields
  <2>4. Sound(u)
    BY <1>5, <2>3 DEF Sound, Is
  <2>5. t = Written(u, libwebsock_send_fragment(WS_OPCODE_TEXT, UpToZero(payload)))
    BY <1>5, <1>8, <2>1, <2>2 DEF onmessage, Sound, Fields
  <2>6. PICK bytes : t = Written(u, bytes)
    BY <2>5
  <2>7. /\ Sound(t) /\ t.flags = u.flags /\ t.frames = u.frames
        /\ Len(t.written) >= Len(u.written)
    BY <2>4, <2>6, WrittenSound
  <2>8. /\ Sound(t) /\ t.flags = s.flags /\ t.frames = none
        /\ Len(t.written) >= Len(s.written)
    BY <1>5, <2>3, <2>7
  <2> QED BY <1>3, <2>8 DEF Linked, Is
<1> QED BY <1>6, <1>7, <1>8

LEMMA FailLinked ==
  ASSUME NEW s, Sound(s), Linked(s), NEW code, NEW t, t = libwebsock_fail_connection(s, code)
  PROVE  Sound(t) /\ Linked(t) /\ Len(t.written) >= Len(s.written)
<1>1. /\ Sound(t) /\ t.flags = s.flags \cup {"SHOULD_CLOSE"} /\ t.frames = s.frames
      /\ Len(t.written) >= Len(s.written)
  BY FailSound
<1> QED BY <1>1 DEF Linked, Is

LEMMA ActSound ==
  ASSUME NEW s, Sound(s), s.frames # <<>>, NEW f, GoodFrame(f), Complete(f),
         ~Is(s, "RECEIVING_FRAGMENT") \/ IsControl(f),
         Linked(s) \/ f.opcode = 0,
         NEW t, t = libwebsock_frame_act(s, f)
  PROVE  Sound(t) /\ Linked(t) /\ Len(t.written) >= Len(s.written)
<1>1. f.opcode \in 0..15
  BY DEF GoodFrame, Frame
<1>2. CASE f.opcode \in {WS_OPCODE_CLOSE, WS_OPCODE_PING, WS_OPCODE_PONG}
  <2>1. t = libwebsock_handle_control_frame(s, f)
    BY <1>2 DEF libwebsock_frame_act, WS_OPCODE_TEXT, WS_OPCODE_BINARY, WS_OPCODE_CONTINUE,
                WS_OPCODE_CLOSE, WS_OPCODE_PING, WS_OPCODE_PONG
  <2>2. Linked(s)
    BY <1>2 DEF WS_OPCODE_CLOSE, WS_OPCODE_PING, WS_OPCODE_PONG
  <2> QED BY <2>1, <2>2, ControlSound
<1>3. CASE f.opcode \in {WS_OPCODE_TEXT, WS_OPCODE_BINARY, WS_OPCODE_CONTINUE}
  <2>1. ~Is(s, "RECEIVING_FRAGMENT")
    BY <1>3 DEF IsControl, WS_OPCODE_TEXT, WS_OPCODE_BINARY, WS_OPCODE_CONTINUE
  <2>2. t = libwebsock_dispatch_message(s)
    BY <1>3 DEF libwebsock_frame_act, WS_OPCODE_TEXT, WS_OPCODE_BINARY, WS_OPCODE_CONTINUE,
                WS_OPCODE_CLOSE, WS_OPCODE_PING, WS_OPCODE_PONG
  <2> QED BY <2>1, <2>2, DispatchSound
<1>4. CASE f.opcode \notin {WS_OPCODE_CLOSE, WS_OPCODE_PING, WS_OPCODE_PONG,
                            WS_OPCODE_TEXT, WS_OPCODE_BINARY, WS_OPCODE_CONTINUE}
  <2>1. t = libwebsock_fail_connection(s, PROTOCOL_ERROR)
    BY <1>4 DEF libwebsock_frame_act
  <2>2. Linked(s)
    BY <1>4 DEF WS_OPCODE_CONTINUE
  <2> QED BY <2>1, <2>2, FailLinked
<1> QED BY <1>2, <1>3, <1>4

(* A complete frame is that at the end of the chain.                       *)
LEMMA CompleteSound ==
  ASSUME NEW s, Sound(s), Linked(s), NEW f, Complete(f), s.frames # <<>>,
         f = s.frames[Len(s.frames)],
         NEW t, t = FrameComplete(s, f)
  PROVE  Sound(t) /\ Linked(t) /\ Len(t.written) >= Len(s.written)
<1>1. s.frames \in Seq(Frame) /\ Len(s.frames) \in Nat /\ Len(s.frames) > 0
  BY LenProperties, EmptySeq DEF Sound, Chain
<1>2. GoodFrame(f) /\ f.opcode \in 0..15 /\ f.fin \in 0..1
  <2>1. Len(s.frames) \in 1..Len(s.frames)
    BY <1>1
  <2>2. GoodFrame(f)
    BY <2>1 DEF Sound, Chain
  <2> QED BY <2>2 DEF GoodFrame, Frame
<1>3. PICK u : u = [s EXCEPT !.flags = @ \ {"RECEIVING_FRAGMENT"}]
  OBVIOUS
<1>4. Sound(u) /\ u.frames = s.frames /\ u.written = s.written /\ ~Is(u, "RECEIVING_FRAGMENT")
  <2>1. /\ DOMAIN u = Fields /\ u.written = s.written /\ u.readcb = s.readcb
        /\ u.flags = s.flags \ {"RECEIVING_FRAGMENT"} /\ u.frames = s.frames
        /\ u.writecb = s.writecb
    BY <1>3 DEF Sound, Fields
  <2>2. u.flags \subseteq Flags
    BY <2>1 DEF Sound
  <2> QED BY <2>1, <2>2 DEF Sound, Is
<1>5. PICK c : c = Chained(s)
  OBVIOUS
<1>6. PICK frames : frames = Append(s.frames, ZeroFrame)
  OBVIOUS
<1>7. Chain(frames) /\ Len(frames) = Len(s.frames) + 1
  <2>1. PICK q : q = s.frames
    OBVIOUS
  <2>2. Chain(q) /\ Complete(q[Len(q)]) /\ frames = Append(q, ZeroFrame)
    BY <1>6, <2>1 DEF Sound
  <2>3. Chain(frames) /\ Len(frames) = Len(q) + 1
    BY <2>2, ChainMore, StartFrames, Zenon
  <2> QED BY <2>1, <2>3
<1>8. Sound(c) /\ c.flags = s.flags /\ c.frames = frames /\ c.written = s.written
  <2>1. c = [s EXCEPT !.frames = frames]
    BY <1>5, <1>6 DEF Chained, Sound, Fields
  <2> QED BY <1>7, <2>1, ChainSound
<1>9. PICK d : d = [c EXCEPT !.flags = @ \cup {"RECEIVING_FRAGMENT"}]
  OBVIOUS
<1>10. /\ Sound(d) /\ d.flags = c.flags \cup {"RECEIVING_FRAGMENT"} /\ d.frames = frames
       /\ d.written = s.written
  <2>1. "RECEIVING_FRAGMENT" \in Flags
    BY DEF Flags
  <2> QED BY <1>8, <1>9, <2>1, FlagSound
<1>11. Len(s.written) \in Nat
  BY WrittenSound
<1>12. \/ t = libwebsock_fail_connection(s, PROTOCOL_ERROR)
       \/ t = libwebsock_frame_act(s, f) /\ (~Is(s, "RECEIVING_FRAGMENT") \/ IsControl(f))
       \/ t = libwebsock_frame_act(u, f) /\ f.opcode = 0
       \/ t = c /\ Is(s, "RECEIVING_FRAGMENT")
       \/ t = d
  BY <1>2, <1>3, <1>5, <1>9 DEF FrameComplete
<1>13. CASE t = libwebsock_fail_connection(s, PROTOCOL_ERROR)
  BY <1>13, FailLinked
<1>14. CASE t = libwebsock_frame_act(s, f) /\ (~Is(s, "RECEIVING_FRAGMENT") \/ IsControl(f))
  BY <1>2, <1>14, ActSound
<1>15. CASE t = libwebsock_frame_act(u, f) /\ f.opcode = 0
  <2>1. Sound(t) /\ Linked(t) /\ Len(t.written) >= Len(u.written)
    BY <1>2, <1>4, <1>15, ActSound
  <2> QED BY <1>4, <2>1
<1>16. CASE t = c /\ Is(s, "RECEIVING_FRAGMENT")
  BY <1>1, <1>7, <1>8, <1>11, <1>16 DEF Linked, Is
<1>17. CASE t = d
  BY <1>1, <1>7, <1>10, <1>11, <1>17 DEF Linked, Is
<1> QED BY <1>12, <1>13, <1>14, <1>15, <1>16, <1>17

-----------------------------------------------------------------------------
(* The bytes of the client *)

LEMMA EncodeType ==
  ASSUME NEW f \in ClientFrame
  PROVE  Encode(f) \in Seq(Byte) /\ Len(Encode(f)) = Size(f) /\ Size(f) \in Nat
<1>1. /\ f.fin \in 0..1 /\ f.reserved \in 0..7 /\ f.opcode \in 0..15 /\ f.masked \in 0..1
      /\ f.key \in [1..MASK_LENGTH -> Byte] /\ f.payload \in ShortPayload
  BY DEF ClientFrame
<1>2. PICK p : p = f.payload
  OBVIOUS
<1>3. p \in Seq(Byte) /\ Len(p) \in 0..125
  <2>1. p \in Seq(Byte) /\ Len(p) <= 125
    BY <1>1, <1>2 DEF ShortPayload
  <2>2. PICK m : m = Len(p)
    OBVIOUS
  <2>3. m \in Nat /\ m <= 125
    BY <2>1, <2>2, LenProperties
  <2>4. m \in 0..125
    BY <2>3
  <2> QED BY <2>1, <2>2, <2>4
<1>4. PICK n \in 0..125 : n = Len(p)
  BY <1>3
<1>5. PICK a, b : a = 128 * f.fin + 16 * f.reserved + f.opcode /\ b = 128 * f.masked + n
  OBVIOUS
<1>6. a \in Byte /\ b \in Byte
  <2>1. PICK fin, masked, reserved, opcode :
          fin = f.fin /\ masked = f.masked /\ reserved = f.reserved /\ opcode = f.opcode
    OBVIOUS
  <2>2. fin \in 0..1 /\ masked \in 0..1 /\ reserved \in 0..7 /\ opcode \in 0..15
    BY <1>1, <2>1
  <2>3. a = 128 * fin + 16 * reserved + opcode /\ b = 128 * masked + n
    BY <1>5, <2>1
  <2> QED BY <2>2, <2>3 DEF Byte
<1>7. PICK head : head = <<a, b>>
  OBVIOUS
<1>8. head \in Seq(Byte) /\ Len(head) = 2
  BY <1>6, <1>7
<1>9. CASE f.masked = 0
  <2>1. Encode(f) = head \o p
    BY <1>2, <1>4, <1>5, <1>7, <1>9 DEF Encode
  <2>2. Size(f) = 2 + n
    BY <1>2, <1>4, <1>9 DEF Size, MASK_LENGTH
  <2>3. PICK r : r = head \o p
    OBVIOUS
  <2>4. r \in Seq(Byte) /\ Len(r) = Len(head) + Len(p)
    BY <1>3, <1>8, <2>3, ConcatProperties
  <2> QED BY <1>3, <1>4, <1>8, <2>1, <2>2, <2>3, <2>4
<1>10. CASE f.masked = 1
  <2>1. PICK key : key = f.key
    OBVIOUS
  <2>2. key \in [1..4 -> Byte]
    BY <1>1, <2>1 DEF MASK_LENGTH
  <2>3. key \in Seq(Byte) /\ Len(key) = 4
    <3>1. PICK m \in Nat : m = 4
      OBVIOUS
    <3>2. key \in [1..m -> Byte]
      BY <2>2, <3>1
    <3>3. key \in Seq(Byte) /\ Len(key) = m
      BY <3>2
    <3> QED BY <3>1, <3>3
  <2> DEFINE body == [i \in 1..n |-> Xor(p[i], key[((i - 1) % MASK_LENGTH) + 1])]
  <2>4. body \in Seq(Byte) /\ Len(body) = n
    <3>1. ASSUME NEW i \in 1..n
          PROVE  Xor(p[i], key[((i - 1) % MASK_LENGTH) + 1]) \in Byte
      <4>1. ((i - 1) % 4) + 1 \in 1..4
        OBVIOUS
      <4>2. p[i] \in Byte /\ key[((i - 1) % 4) + 1] \in Byte
        BY <1>3, <1>4, <2>2, <4>1, ElementOfSeq
      <4> QED BY <4>2, XorLemma DEF MASK_LENGTH
    <3>2. body \in [1..n -> Byte]
      BY <3>1
    <3> HIDE DEF body
    <3> QED BY <3>2
  <2>5. Encode(f) = head \o (key \o body)
    <3>1. DOMAIN p = 1..n
      BY <1>3, <1>4
    <3> QED BY <1>2, <1>4, <1>5, <1>7, <1>10, <2>1, <3>1 DEF Encode
  <2>6. Size(f) = 6 + n
    BY <1>2, <1>4, <1>10 DEF Size, MASK_LENGTH
  <2> HIDE DEF body
  <2>7. PICK r : r = key \o body
    OBVIOUS
  <2>8. r \in Seq(Byte) /\ Len(r) = Len(key) + Len(body)
    BY <2>3, <2>4, <2>7, ConcatProperties
  <2>9. PICK q : q = head \o r
    OBVIOUS
  <2>10. q \in Seq(Byte) /\ Len(q) = Len(head) + Len(r)
    BY <1>8, <2>8, <2>9, ConcatProperties
  <2>11. Len(q) = 6 + n /\ 6 + n \in Nat
    BY <1>8, <2>3, <2>4, <2>8, <2>10
  <2> QED BY <2>5, <2>6, <2>7, <2>9, <2>10, <2>11
<1> QED BY <1>1, <1>9, <1>10

AddSize(sum, f) == sum + Size(f)

Sizes == INSTANCE Folding WITH Op <- AddSize

LEMMA SizeOfFold ==
  ASSUME NEW s
  PROVE  SizeOf(s) = Sizes!Fold(0, s)
BY DEF SizeOf, AddSize, Sizes!Fold, Sizes!FoldLeft, Sizes!MapThenFoldSet, Sizes!Max,
       FoldLeft, MapThenFoldSet, Max

LEMMA SizeOfLemma ==
  /\ SizeOf(<<>>) = 0
  /\ \A s \in Seq(ClientFrame) : SizeOf(s) \in Nat
  /\ \A s \in Seq(ClientFrame), f \in ClientFrame : SizeOf(Append(s, f)) = SizeOf(s) + Size(f)
<1>1. \A f \in ClientFrame : Size(f) \in Nat
  BY EncodeType
<1>2. Sizes!FoldOver(Nat, ClientFrame, 0)
  BY <1>1 DEF Sizes!FoldOver, AddSize
<1>3. SizeOf(<<>>) = 0
  BY SizeOfFold, Sizes!FoldEmpty
<1>4. \A s \in Seq(ClientFrame) : SizeOf(s) \in Nat
  BY <1>2, SizeOfFold, Sizes!FoldType
<1>5. ASSUME NEW s \in Seq(ClientFrame), NEW f \in ClientFrame
      PROVE  SizeOf(Append(s, f)) = SizeOf(s) + Size(f)
  <2>1. Sizes!Fold(0, Append(s, f)) = AddSize(Sizes!Fold(0, s), f)
    BY <1>2, Sizes!FoldAppend
  <2> QED BY <2>1, SizeOfFold DEF AddSize
<1> QED BY <1>3, <1>4, <1>5

StreamOf(s) == FlattenSeq([i \in DOMAIN s |-> Encode(s[i])])

LEMMA StreamAppend ==
  ASSUME NEW s \in Seq(ClientFrame), NEW f \in ClientFrame
  PROVE  StreamOf(Append(s, f)) = StreamOf(s) \o Encode(f)
<1>1. PICK t : t = Append(s, f)
  OBVIOUS
<1>2. PICK n \in Nat : n = Len(s)
  BY LenProperties
<1>3. /\ DOMAIN s = 1..n /\ DOMAIN t = 1..n + 1 /\ t[n + 1] = f
      /\ \A i \in 1..n : t[i] = s[i] /\ s[i] \in ClientFrame
  BY <1>1, <1>2, AppendProperties, ElementOfSeq
<1> DEFINE p == [i \in DOMAIN s |-> Encode(s[i])]
           q == [i \in DOMAIN t |-> Encode(t[i])]
<1>4. p \in Seq(Seq(Byte)) /\ Len(p) = n
  <2>1. \A i \in 1..n : Encode(s[i]) \in Seq(Byte)
    BY <1>3, EncodeType
  <2>2. p \in [1..n -> Seq(Byte)]
    BY <1>3, <2>1
  <2> HIDE DEF p
  <2> QED BY <2>2
<1>5. q = Append(p, Encode(f))
  <2>1. q = [i \in 1..n + 1 |-> Encode(t[i])]
    BY <1>3
  <2>2. \A i \in 1..n : p[i] = Encode(s[i])
    BY <1>3
  <2>3. PICK e : e = Encode(f)
    OBVIOUS
  <2>4. e \in Seq(Byte)
    BY <2>3, EncodeType
  <2>5. \A i \in 1..n + 1 : i \in 1..n \/ i = n + 1
    OBVIOUS
  <2>6. \A i \in 1..n + 1 : Encode(t[i]) = IF i <= n THEN p[i] ELSE e
    BY <1>3, <2>2, <2>3, <2>5
  <2> HIDE DEF p
  <2>7. PICK r : r = Append(p, e)
    OBVIOUS
  <2>8. r = [i \in 1..n + 1 |-> IF i <= n THEN p[i] ELSE e]
    <3>1. r \in Seq(Seq(Byte)) /\ Len(r) = n + 1
      BY <1>4, <2>4, <2>7, AppendProperties
    <3>2. r = [i \in 1..n + 1 |-> r[i]]
      BY <3>1
    <3>3. r[n + 1] = e /\ \A i \in 1..n : r[i] = p[i]
      BY <1>4, <2>4, <2>7, AppendProperties
    <3>4. \A i \in 1..n + 1 : r[i] = IF i <= n THEN p[i] ELSE e
      BY <2>5, <3>3
    <3> QED BY <3>2, <3>4
  <2> HIDE DEF q
  <2> QED BY <2>1, <2>3, <2>6, <2>7, <2>8
<1>6. FlattenSeq(q) = FlattenSeq(p) \o Encode(f)
  <2> HIDE DEF p, q
  <2> QED BY <1>4, <1>5, EncodeType, FlattenAppend
<1> QED BY <1>1, <1>6 DEF StreamOf

LEMMA StreamType ==
  ASSUME NEW s \in Seq(ClientFrame)
  PROVE  StreamOf(s) \in Seq(Byte) /\ Len(StreamOf(s)) = SizeOf(s)
<1> DEFINE T == {t \in Seq(ClientFrame) : StreamOf(t) \in Seq(Byte) /\ Len(StreamOf(t)) = SizeOf(t)}
<1>1. <<>> \in T
  <2>1. PICK none : none = <<>>
    OBVIOUS
  <2>2. [i \in DOMAIN none |-> Encode(none[i])] = none
    BY <2>1
  <2>3. StreamOf(none) = none
    BY <2>1, <2>2, FlattenEmpty DEF StreamOf
  <2>4. none \in Seq(Byte) /\ none \in Seq(ClientFrame) /\ Len(none) = 0
    BY <2>1, EmptySeq
  <2> QED BY <2>1, <2>3, <2>4, SizeOfLemma
<1>2. ASSUME NEW t \in Seq(ClientFrame), NEW f \in ClientFrame, t \in T
      PROVE  Append(t, f) \in T
  <2>1. StreamOf(Append(t, f)) = StreamOf(t) \o Encode(f)
    BY StreamAppend
  <2>2. Encode(f) \in Seq(Byte) /\ Len(Encode(f)) = Size(f) /\ Size(f) \in Nat
    BY EncodeType
  <2>3. StreamOf(t) \o Encode(f) \in Seq(Byte)
        /\ Len(StreamOf(t) \o Encode(f)) = Len(StreamOf(t)) + Len(Encode(f))
    BY <1>2, <2>2, ConcatProperties
  <2>4. SizeOf(Append(t, f)) = SizeOf(t) + Size(f)
    BY SizeOfLemma
  <2>5. Append(t, f) \in Seq(ClientFrame)
    BY AppendProperties
  <2> QED BY <1>2, <2>1, <2>2, <2>3, <2>4, <2>5
<1> HIDE DEF T
<1>3. Seq(ClientFrame) \subseteq T
  BY <1>1, <1>2, Sizes!SeqInduction
<1> QED BY <1>3 DEF T

-----------------------------------------------------------------------------
(* The shape is kept *)

LEMMA BufferType ==
  ASSUME NEW q \in Seq(Byte)
  PROVE  Removed(q) \in Seq(Byte) /\ Rest(q) \in Seq(Byte)
<1>1. Len(q) \in Nat /\ BufSize \in Nat \ {0}
  BY LenProperties, WebSockAssumption
<1>2. PICK n \in 0..Len(q) : n = IF Len(q) < BufSize THEN Len(q) ELSE BufSize
  BY <1>1
<1>3. SubSeq(q, 1, n) \in Seq(Byte)
  BY <1>1
<1>4. SubSeq(q, BufSize + 1, Len(q)) \in Seq(Byte)
  BY <1>1
<1> QED BY <1>2, <1>3, <1>4 DEF Removed, Rest

LEMMA ScriptType ==
  ASSUME script \in Scripts
  PROVE  /\ script \in Seq(ClientFrame) /\ SizeOf(script) \in Nat
         /\ Stream \in Seq(Byte) /\ Len(Stream) = SizeOf(script)
<1>1. script \in Seq(ClientFrame)
  BY WebSockAssumption
<1>2. Stream = StreamOf(script)
  BY DEF Stream, StreamOf
<1> QED BY <1>1, <1>2, SizeOfLemma, StreamType

LEMMA RecvByteShape ==
  ASSUME Shape, HandleRecvByte
  PROVE  Shape'
<1>1. /\ conn = "open" /\ loop = "running" /\ buf # <<>>
      /\ UNCHANGED <<conn, loop, script, arrived, drained>>
  BY DEF HandleRecvByte
<1>2. Sound(state) /\ Linked(state) /\ buf \in Seq(Byte) /\ input \in Seq(Byte)
  BY <1>1 DEF Shape
<1>3. PICK f : f = Current(state)
  OBVIOUS
<1>4. GoodFrame(f)
  <2>1. CASE state.frames = <<>>
    BY <1>3, <2>1, StartFrames DEF Current
  <2>2. CASE state.frames # <<>>
    <3>1. Chain(state.frames) /\ Len(state.frames) \in Nat /\ Len(state.frames) > 0
      BY <1>2, <2>2, ChainFront DEF Sound
    <3>2. f = state.frames[Len(state.frames)] /\ Len(state.frames) \in 1..Len(state.frames)
      BY <1>3, <2>2, <3>1 DEF Current, Last
    <3> QED BY <3>1, <3>2 DEF Chain
  <2> QED BY <2>1, <2>2
<1>5. Head(buf) \in Byte
  BY <1>1, <1>2
<1>6. PICK taken, checked, acted :
        LET kept == WithCurrent(state, taken.frame)
            complete == taken.result # 0 /\ Complete(taken.frame)
        IN /\ taken = ByteTaken(Current(state), Head(buf))
           /\ checked = IF taken.result = -1
                        THEN libwebsock_fail_connection(kept, PROTOCOL_ERROR)
                        ELSE kept
           /\ acted = IF complete THEN FrameComplete(checked, taken.frame) ELSE checked
           /\ state' = acted
           /\ Buffers(Turn(acted, complete))
  BY Zenon DEF HandleRecvByte
<1>7. GoodFrame(taken.frame)
  <2>1. Reads(ByteTaken(f, Head(buf)), Append(f.raw, Head(buf)))
    BY <1>4, <1>5, ByteTakenGood
  <2> QED BY <1>3, <1>6, <2>1 DEF Reads
<1>8. PICK frames : \/ state.frames = <<>> /\ frames = <<taken.frame>>
                    \/ state.frames # <<>> /\ frames = Append(Front(state.frames), taken.frame)
  OBVIOUS
<1>9. /\ Chain(frames) /\ Len(frames) \in Nat /\ Len(frames) > 0
      /\ frames[Len(frames)] = taken.frame
      /\ Len(frames) > 1 <=> Len(state.frames) > 1
  <2>1. Chain(state.frames)
    BY <1>2 DEF Sound
  <2> QED BY <1>7, <1>8, <2>1, ChainReplaced
<1>10. PICK kept : kept = WithCurrent(state, taken.frame)
  OBVIOUS
<1>11. Sound(kept) /\ Linked(kept) /\ kept.frames = frames /\ kept.written = state.written
  <2>1. kept = [state EXCEPT !.frames = frames]
    BY <1>2, <1>8, <1>10 DEF WithCurrent, Sound, Fields
  <2>2. Sound(kept) /\ kept.flags = state.flags /\ kept.frames = frames
        /\ kept.written = state.written
    BY <1>2, <1>9, <2>1, ChainSound
  <2> QED BY <1>2, <1>9, <2>2 DEF Linked, Is
<1>12. /\ Sound(checked) /\ Linked(checked) /\ checked.frames = frames
       /\ Len(checked.written) >= Len(state.written)
  <2>1. CASE taken.result = -1
    <3>1. checked = libwebsock_fail_connection(kept, PROTOCOL_ERROR)
      BY <1>6, <1>10, <2>1
    <3> QED BY <1>11, <3>1, FailSound, FailLinked
  <2>2. CASE taken.result # -1
    <3>1. checked = kept
      BY <1>6, <1>10, <2>2
    <3>2. Len(state.written) \in Nat
      BY <1>2, WrittenSound
    <3> QED BY <1>11, <3>1, <3>2
  <2> QED BY <2>1, <2>2
<1>13. frames # <<>>
  BY <1>9
<1>14. /\ Sound(acted) /\ Linked(acted)
       /\ Len(acted.written) >= Len(checked.written)
  <2>1. CASE taken.result # 0 /\ Complete(taken.frame)
    <3>1. acted = FrameComplete(checked, taken.frame)
      BY <1>6, <2>1
    <3> QED BY <1>9, <1>12, <1>13, <2>1, <3>1, CompleteSound
  <2>2. CASE ~(taken.result # 0 /\ Complete(taken.frame))
    <3>1. acted = checked
      BY <1>6, <2>2
    <3>2. Len(checked.written) \in Nat
      BY <1>12, WrittenSound
    <3> QED BY <1>12, <3>1, <3>2
  <2> QED BY <2>1, <2>2
<1>15. drained \in 0..Len(acted.written)
  <2>1. /\ Len(state.written) \in Nat /\ Len(checked.written) \in Nat
        /\ Len(acted.written) \in Nat
    BY <1>2, <1>12, <1>14, WrittenSound
  <2>2. drained \in 0..Len(state.written)
    BY DEF Shape
  <2> QED BY <1>12, <1>14, <2>1, <2>2
<1>16. buf' \in Seq(Byte) /\ input' \in Seq(Byte)
  <2>1. PICK left : left = Turn(acted, taken.result # 0 /\ Complete(taken.frame))
                    /\ Buffers(left)
    BY <1>6
  <2>2. left \in Seq(Byte)
    <3>1. Tail(buf) \in Seq(Byte)
      BY <1>1, <1>2
    <3>2. PICK none : none = <<>>
      OBVIOUS
    <3>3. none \in Seq(Byte)
      BY <3>2, EmptySeq
    <3>4. left = none \/ left = Tail(buf)
      BY <2>1, <3>2 DEF Turn
    <3> QED BY <3>1, <3>3, <3>4
  <2> QED BY <1>2, <2>1, <2>2, BufferType DEF Buffers
<1>17. state' = acted
  BY <1>6
<1> QED BY <1>1, <1>14, <1>15, <1>16, <1>17 DEF Shape

LEMMA HandshakeShape ==
  ASSUME Shape, libwebsock_handshake
  PROVE  Shape'
<1>1. PICK k : HandshakeFails(k) \/ HandshakeFinish(k) \/ HandshakeGoesOn(k)
  BY DEF libwebsock_handshake
<1>2. /\ conn = "open" /\ UNCHANGED <<loop, script, arrived, input, buf, drained>>
      /\ state.readcb = "handshake"
  BY <1>1 DEF HandshakeFails, HandshakeFinish, HandshakeGoesOn, Dispatching
<1>3. Sound(state) /\ Linked(state)
  BY <1>2 DEF Shape
<1>4. CASE HandshakeGoesOn(k) \/ HandshakeFails(k)
  <2>1. /\ DOMAIN state' = Fields /\ state'.flags = state.flags
        /\ state'.readcb = state.readcb /\ state'.writecb = state.writecb
        /\ state'.frames = state.frames /\ state'.written = state.written
    BY <1>3, <1>4 DEF HandshakeGoesOn, HandshakeFails, Sound, Fields
  <2>2. Sound(state') /\ Linked(state')
    BY <1>3, <2>1 DEF Sound, Linked, Is
  <2>3. conn' = "open" \/ (conn' = "leaked" /\ HandshakeFails(k))
    BY <1>2, <1>4 DEF HandshakeGoesOn, HandshakeFails
  <2> QED BY <1>2, <2>1, <2>2, <2>3 DEF Shape
<1>5. CASE HandshakeFinish(k)
  <2>1. PICK t : t = Written(state, Response)
    OBVIOUS
  <2>2. /\ Sound(t) /\ t.flags = state.flags /\ t.frames = state.frames
        /\ Len(state.written) \in Nat /\ Len(t.written) = Len(state.written) + 1
    BY <1>3, <2>1, WrittenSound
  <2>3. state' = [t EXCEPT
                    !.data = NULL, !.readcb = "recv", !.writecb = "handle_send",
                    !.flags = (@ \ {"CONNECTING"}) \cup {"CONNECTED"},
                    !.calls = Append(@, <<"onopen">>)]
    BY <1>5, <2>1 DEF HandshakeFinish
  <2>4. /\ DOMAIN state' = Fields /\ state'.readcb = "recv" /\ state'.writecb = "handle_send"
        /\ state'.flags = (state.flags \ {"CONNECTING"}) \cup {"CONNECTED"}
        /\ state'.frames = state.frames /\ state'.written = t.written
    BY <2>2, <2>3 DEF Sound, Fields
  <2>5. state'.flags \subseteq Flags
    BY <1>3, <2>4 DEF Sound, Flags
  <2>6. Sound(state')
    BY <2>2, <2>4, <2>5 DEF Sound, Is
  <2>7. Linked(state')
    BY <1>3, <2>4 DEF Linked, Is
  <2>8. conn' = "open"
    BY <1>2, <1>5 DEF HandshakeFinish
  <2>9. drained \in 0..Len(state'.written)
    BY <2>2, <2>4 DEF Shape
  <2> QED BY <1>2, <2>6, <2>7, <2>8, <2>9 DEF Shape
<1> QED BY <1>1, <1>4, <1>5

LEMMA ShutdownShape ==
  ASSUME Shape, conn = "open", libwebsock_shutdown,
         drained' \in 0..Len(state.written), UNCHANGED <<loop, script, arrived, input, buf>>
  PROVE  Shape'
<1>1. Sound(state)
  BY DEF Shape
<1>2. /\ DOMAIN state' = Fields /\ state'.flags = state.flags
      /\ state'.readcb = state.readcb /\ state'.writecb = state.writecb
      /\ state'.frames = <<>> /\ state'.written = state.written
  BY <1>1 DEF libwebsock_shutdown, Sound, Fields
<1>3. Sound(state')
  BY <1>1, <1>2, ChainEmpty DEF Sound, Is
<1>4. conn' = "shut"
  BY DEF libwebsock_shutdown
<1> QED BY <1>2, <1>3, <1>4 DEF Shape

LEMMA NewStateShape ==
  ASSUME NEW writecb \in {"handle_send", "NULL"}, NEW s, s = NewState(writecb)
  PROVE  Sound(s) /\ Linked(s) /\ s.frames = <<>> /\ Len(s.written) = 0
<1>1. PICK none : none = <<>>
  OBVIOUS
<1>2. Chain(none) /\ IsSeq(none) /\ Len(none) = 0
  <2>1. none \in Seq({})
    BY <1>1
  <2> QED BY <1>1, <2>1, ChainEmpty DEF IsSeq
<1>3. /\ DOMAIN s = Fields /\ s.flags = {"CONNECTING"} /\ s.readcb = "handshake"
      /\ s.writecb = writecb /\ s.frames = none /\ s.written = none
  BY <1>1 DEF NewState, Fields
<1>4. s.flags \subseteq Flags
  BY <1>3 DEF Flags
<1> QED BY <1>1, <1>2, <1>3, <1>4 DEF Sound, Linked, Is

LEMMA ShapeStep ==
  ASSUME Shape, [Next]_vars
  PROVE  Shape'
<1>1. CASE /\ loop' \in {"unbound", "bound", "running", "exited"}
           /\ UNCHANGED <<conn, state, script, arrived, input, buf, drained>>
  BY <1>1 DEF Shape
<1>2. ASSUME NEW writecb \in {"handle_send", "NULL"}, AcceptWith(writecb)
      PROVE  Shape'
  <2>1. /\ conn' = "open" /\ state' = NewState(writecb) /\ drained = 0
        /\ UNCHANGED <<loop, script, arrived, input, buf, drained>>
    BY <1>2 DEF AcceptWith, Shape
  <2>2. Sound(state') /\ Linked(state') /\ Len(state'.written) = 0
    BY <2>1, NewStateShape
  <2> QED BY <2>1, <2>2 DEF Shape
<1>3. CASE libwebsock_handshake
  BY <1>3, HandshakeShape
<1>4. ASSUME NEW k \in 1..(SizeOf(script) - arrived), HandleRecv(k)
      PROVE  Shape'
  <2>1. /\ arrived' = arrived + k /\ UNCHANGED <<loop, conn, state, script, drained>>
        /\ buf' = Removed(SubSeq(Stream, arrived + 1, arrived + k))
        /\ input' = Rest(SubSeq(Stream, arrived + 1, arrived + k))
    BY <1>4 DEF HandleRecv
  <2>2. /\ arrived \in Nat /\ SizeOf(script) \in Nat
        /\ Stream \in Seq(Byte) /\ Len(Stream) = SizeOf(script)
    BY ScriptType DEF Shape
  <2>3. SubSeq(Stream, arrived + 1, arrived + k) \in Seq(Byte)
    <3>1. PICK q : q = Stream
      OBVIOUS
    <3>2. /\ q \in Seq(Byte) /\ Len(q) \in Nat /\ arrived \in Nat /\ k \in Nat \ {0}
          /\ arrived + k <= Len(q)
      BY <2>2, <3>1
    <3>3. SubSeq(q, arrived + 1, arrived + k) \in Seq(Byte)
      BY <3>2
    <3> QED BY <3>1, <3>3
  <2>4. arrived + k \in 0..SizeOf(script)
    BY <2>2
  <2> QED BY <2>1, <2>3, <2>4, BufferType DEF Shape
<1>5. CASE HandleRecvByte
  BY <1>5, RecvByteShape
<1>6. CASE HandleSend
  <2>1. /\ conn = "open" /\ drained' = Len(state.written)
        /\ UNCHANGED <<loop, script, arrived, input, buf>>
        /\ libwebsock_shutdown \/ UNCHANGED <<conn, state>>
    BY <1>6 DEF HandleSend, Dispatching
  <2>2. drained' \in 0..Len(state.written)
    BY <2>1, WrittenSound DEF Shape
  <2>3. CASE libwebsock_shutdown
    BY <2>1, <2>2, <2>3, ShutdownShape
  <2>4. CASE UNCHANGED <<conn, state>>
    BY <2>1, <2>2, <2>4 DEF Shape
  <2> QED BY <2>1, <2>3, <2>4
<1>7. CASE DoEvent
  <2>1. /\ conn = "open" /\ UNCHANGED <<loop, script, arrived, input, buf, drained>>
        /\ libwebsock_shutdown
    BY <1>7 DEF DoEvent, Dispatching
  <2>2. drained' \in 0..Len(state.written)
    BY <2>1 DEF Shape
  <2> QED BY <2>1, <2>2, ShutdownShape
<1>8. CASE libwebsock_close_with_reason
  <2>1. /\ conn = "open" /\ UNCHANGED <<loop, conn, script, arrived, input, buf, drained>>
    BY <1>8 DEF libwebsock_close_with_reason, Dispatching
  <2>2. Sound(state) /\ Linked(state)
    BY <2>1 DEF Shape
  <2>3. PICK t : t = Written(state, CloseFrame(GOING_AWAY))
    OBVIOUS
  <2>4. /\ Sound(t) /\ t.flags = state.flags /\ t.frames = state.frames
        /\ CloseWritten(t.written) /\ Len(state.written) \in Nat
        /\ Len(t.written) = Len(state.written) + 1
    BY <2>2, <2>3, WrittenSound, CloseFrameFirst
  <2>5. state' = [t EXCEPT !.flags = @ \cup {"SENT_CLOSE_FRAME"}]
    BY <1>8, <2>3 DEF libwebsock_close_with_reason
  <2>6. "SENT_CLOSE_FRAME" \in Flags
    BY DEF Flags
  <2>7. /\ Sound(state') /\ state'.flags = t.flags \cup {"SENT_CLOSE_FRAME"}
        /\ state'.frames = t.frames /\ state'.written = t.written
    BY <2>4, <2>5, <2>6, FlagSound
  <2>8. Linked(state')
    BY <2>2, <2>4, <2>7 DEF Linked, Is
  <2>9. drained \in 0..Len(state'.written)
    BY <2>4, <2>7 DEF Shape
  <2> QED BY <2>1, <2>7, <2>8, <2>9 DEF Shape
<1>9. CASE libwebsock_bind \/ libwebsock_bind_ssl_real \/ libwebsock_wait \/ Signal
  BY <1>1, <1>9 DEF libwebsock_bind, libwebsock_bind_ssl_real, libwebsock_wait, Signal
<1>10. CASE UNCHANGED vars
  <2>1. UNCHANGED <<loop, conn, state, script, arrived, input, buf, drained>>
    BY <1>10 DEF vars
  <2> QED BY <2>1 DEF Shape
<1> QED
  BY <1>2, <1>3, <1>4, <1>5, <1>6, <1>7, <1>8, <1>9, <1>10
  DEF Next, libwebsock_handle_accept, libwebsock_handle_accept_ssl

(* The types of what a connection holds; its frames were parsed from the   *)
(* bytes they hold and all but the last are complete; and a close frame    *)
(* was written when a connection should close that the application did not *)
(* close.                                                                  *)
THEOREM ShapeInvariant == Spec => []Shape
<1>1. Init => Shape
  <2> SUFFICES ASSUME Init PROVE Shape
    OBVIOUS
  <2>1. Sound(state) /\ state.frames = <<>> /\ Len(state.written) = 0
    BY NewStateShape DEF Init
  <2>2. PICK none : none = <<>>
    OBVIOUS
  <2>3. none \in Seq(Byte)
    BY <2>2, EmptySeq
  <2>4. 0 \in 0..SizeOf(script)
    BY ScriptType DEF Init
  <2> QED BY <2>1, <2>2, <2>3, <2>4 DEF Init, Shape
<1> QED BY <1>1, ShapeStep, PTL DEF Spec

(* The frames of a connection are those of its fragmented message and the  *)
(* one being received, and the bytes it has written and been sent are      *)
(* accounted for.                                                          *)
THEOREM TypeCorrect == Spec => []TypeOK
<1>1. Shape => TypeOK
  <2> SUFFICES ASSUME Shape PROVE TypeOK
    OBVIOUS
  <2>1. Sound(state)
    BY DEF Shape
  <2>2. \A i \in DOMAIN state.frames : state.frames[i] \in Frame
    <3>1. state.frames \in Seq(Frame)
      BY <2>1 DEF Sound, Chain
    <3> QED BY <3>1
  <2>3. \A i \in 1..Len(state.frames) - 1 : Complete(state.frames[i])
    BY <2>1 DEF Sound, Chain
  <2> QED BY <2>1, <2>2, <2>3 DEF TypeOK, Shape, Sound, Flags, Linked
<1> QED BY <1>1, ShapeInvariant, PTL

(* The library never hangs up on a client without a close frame, and not   *)
(* before all it wrote is on its way.                                      *)
THEOREM ClosedAfterClose == Spec => ClosedAfterCloseFrame
<1>1. ASSUME Shape, [Next]_vars
      PROVE  conn = "open" /\ conn' = "shut" /\ drained' # drained =>
               /\ \E i \in DOMAIN state.written : state.written[i][1] = 128 + WS_OPCODE_CLOSE
               /\ drained' = Len(state.written)
  <2> SUFFICES ASSUME conn = "open", conn' = "shut", drained' # drained
               PROVE  /\ \E i \in DOMAIN state.written :
                            state.written[i][1] = 128 + WS_OPCODE_CLOSE
                      /\ drained' = Len(state.written)
    OBVIOUS
  <2>1. HandleSend
    BY <1>1 DEF Next, vars, libwebsock_bind, libwebsock_bind_ssl_real, libwebsock_wait, Signal,
                libwebsock_handle_accept, libwebsock_handle_accept_ssl, AcceptWith,
                libwebsock_handshake, HandshakeFails, HandshakeFinish, HandshakeGoesOn,
                HandleRecv, HandleRecvByte, DoEvent, libwebsock_close_with_reason
  <2>2. Is(state, "SHOULD_CLOSE") /\ drained' = Len(state.written)
    BY <2>1 DEF HandleSend
  <2>3. CloseWritten(state.written) /\ IsSeq(state.written)
    BY <1>1, <2>2 DEF Shape, Sound
  <2>4. DOMAIN state.written = 1..Len(state.written)
    BY <2>3 DEF IsSeq
  <2> QED BY <2>2, <2>3, <2>4 DEF CloseWritten
<1> QED BY <1>1, ShapeInvariant, PTL DEF Spec, ClosedAfterCloseFrame


-----------------------------------------------------------------------------
(* What is heard of the frames of a client *)

Calls == {<<"onopen">>} \cup ({"onmessage"} \X (0..15) \X Seq(Byte))

Hearings ==
  [opcode : 0..15, parts : Seq(Byte), calls : Seq(Calls), written : Seq(Seq(Int)),
   answer : Seq(Seq(Int)), ended : BOOLEAN]

LEMMA SilenceType == Silence \in Hearings /\ ~Silence.ended
<1>1. PICK none, open, response :
        none = <<>> /\ open = <<<<"onopen">>>> /\ response = <<Response>>
  OBVIOUS
<1>2. none \in Seq(Byte) /\ none \in Seq(Seq(Int))
  BY <1>1, EmptySeq
<1>3. open \in Seq(Calls)
  <2>1. PICK e : e = <<"onopen">>
    OBVIOUS
  <2>2. e \in Calls
    BY <2>1 DEF Calls
  <2>3. open = <<e>>
    BY <1>1, <2>1
  <2> QED BY <2>2, <2>3
<1>4. response \in Seq(Seq(Int))
  <2>1. PICK r : r = Response
    OBVIOUS
  <2>2. r \in Seq(Int)
    BY <2>1 DEF Response
  <2>3. response = <<r>>
    BY <1>1, <2>1
  <2> QED BY <2>2, <2>3
<1>5. Silence = [opcode |-> 0, parts |-> none, calls |-> open, written |-> response,
                 answer |-> none, ended |-> FALSE]
  BY <1>1 DEF Silence
<1> QED BY <1>2, <1>3, <1>4, <1>5 DEF Hearings

LEMMA BytesAreInts == Seq(Byte) \subseteq Seq(Int)
<1>1. Byte \subseteq Int
  BY DEF Byte
<1> QED BY <1>1, SeqMonotonic

LEMMA CodeType ==
  ASSUME NEW code \in Int
  PROVE  Code(code) \in Seq(Int)
<1>1. PICK a, b : a = code \div 256 /\ b = code % 256
  OBVIOUS
<1>2. a \in Int /\ b \in Int
  BY <1>1
<1>3. Code(code) = <<a, b>>
  BY <1>1 DEF Code
<1> QED BY <1>2, <1>3

LEMMA CloseFrameType ==
  ASSUME NEW code \in Int
  PROVE  CloseFrame(code) \in Seq(Int)
<1>1. PICK c : c = Code(code)
  OBVIOUS
<1>2. c \in Seq(Int) /\ Len(c) \in Nat
  BY <1>1, CodeType, LenProperties
<1>3. PICK h : h = Header(WS_OPCODE_CLOSE, Len(c))
  OBVIOUS
<1>4. h \in Seq(Byte)
  <2>1. WS_OPCODE_CLOSE \in 0..15
    BY DEF WS_OPCODE_CLOSE
  <2> QED BY <1>2, <1>3, <2>1, HeaderType
<1>5. h \in Seq(Int)
  BY <1>4, BytesAreInts
<1>6. h \o c \in Seq(Int)
  BY <1>2, <1>5
<1> QED BY <1>1, <1>3, <1>6 DEF CloseFrame, libwebsock_send_fragment

LEMMA EndedType ==
  ASSUME NEW h \in Hearings, NEW answer \in Seq(Int)
  PROVE  /\ Ended(h, answer) \in Hearings /\ Ended(h, answer).ended
         /\ Ended(h, answer).calls = h.calls
<1>1. PICK a : a = <<answer>>
  OBVIOUS
<1>2. a \in Seq(Seq(Int))
  BY <1>1
<1>3. Ended(h, answer) = [h EXCEPT !.ended = TRUE, !.answer = a]
  BY <1>1 DEF Ended
<1> QED BY <1>2, <1>3 DEF Hearings

(* The frame is a whole control frame, or carries on the message.          *)
Alone(f) == ~Malformed(f) /\ f.opcode \in 8..10 /\ f.fin = 1

Carries(h, f) ==
  /\ ~Malformed(f)
  /\ IF h.opcode = 0 THEN f.opcode \in {WS_OPCODE_TEXT, WS_OPCODE_BINARY}
                     ELSE f.opcode = WS_OPCODE_CONTINUE

MessageOpcode(h, f) == IF h.opcode = 0 THEN f.opcode ELSE h.opcode

LEMMA HeardCases ==
  ASSUME NEW h, NEW f
  PROVE  /\ h.ended => Heard(h, f) = h
         /\ ~h.ended /\ Alone(f) /\ f.opcode = WS_OPCODE_CLOSE =>
              \E answer : /\ Heard(h, f) = Ended(h, answer)
                          /\ answer = <<136, Len(f.payload)>> \o AnswerToClose(f.payload)
         /\ ~h.ended /\ Alone(f) /\ f.opcode = WS_OPCODE_PING =>
              Heard(h, f) = [h EXCEPT !.written = Append(@, <<138, Len(f.payload)>> \o f.payload)]
         /\ ~h.ended /\ Alone(f) /\ f.opcode = WS_OPCODE_PONG => Heard(h, f) = h
         /\ ~h.ended /\ ~Alone(f) /\ Carries(h, f) /\ f.fin = 1 =>
              Heard(h, f) = Message(h, MessageOpcode(h, f), h.parts \o f.payload)
         /\ ~h.ended /\ ~Alone(f) /\ Carries(h, f) /\ f.fin # 1 =>
              Heard(h, f) = [h EXCEPT !.opcode = MessageOpcode(h, f), !.parts = h.parts \o f.payload]
         /\ ~h.ended /\ ~Alone(f) /\ ~Carries(h, f) =>
              Heard(h, f) = Ended(h, CloseFrame(PROTOCOL_ERROR))
<1>1. WS_OPCODE_PING # WS_OPCODE_CLOSE /\ WS_OPCODE_PONG # WS_OPCODE_CLOSE
      /\ WS_OPCODE_PONG # WS_OPCODE_PING
  BY DEF WS_OPCODE_CLOSE, WS_OPCODE_PING, WS_OPCODE_PONG
<1>2. CASE h.ended
  BY <1>2 DEF Heard
<1>3. CASE ~h.ended /\ Alone(f)
  <2>1. ~Malformed(f) /\ f.opcode \in 8..10 /\ f.fin = 1
    BY <1>3 DEF Alone
  <2>2. Heard(h, f) =
          CASE f.opcode = WS_OPCODE_CLOSE ->
                 Ended(h, <<136, Len(f.payload)>> \o AnswerToClose(f.payload))
            [] f.opcode = WS_OPCODE_PING ->
                 [h EXCEPT !.written = Append(@, <<138, Len(f.payload)>> \o f.payload)]
            [] OTHER -> h
    <3>1. ~(IF h.opcode = 0 THEN f.opcode \in {WS_OPCODE_TEXT, WS_OPCODE_BINARY}
                            ELSE f.opcode = WS_OPCODE_CONTINUE)
      BY <2>1 DEF WS_OPCODE_TEXT, WS_OPCODE_BINARY, WS_OPCODE_CONTINUE
    <3> QED BY <1>3, <2>1, <3>1 DEF Heard
  <2>3. CASE f.opcode = WS_OPCODE_CLOSE
    BY <1>1, <1>3, <2>2, <2>3, Zenon
  <2>4. CASE f.opcode = WS_OPCODE_PING
    BY <1>1, <1>3, <2>2, <2>4, Zenon
  <2>5. CASE f.opcode # WS_OPCODE_CLOSE /\ f.opcode # WS_OPCODE_PING
    BY <1>1, <1>3, <2>2, <2>5, Zenon
  <2> QED BY <2>3, <2>4, <2>5
<1>4. CASE ~h.ended /\ ~Alone(f) /\ Carries(h, f)
  <2>1. ~(~Malformed(f) /\ f.opcode \in 8..10 /\ f.fin = 1)
    BY <1>4 DEF Alone
  <2> QED BY <1>4, <2>1 DEF Heard, Carries, MessageOpcode
<1>5. CASE ~h.ended /\ ~Alone(f) /\ ~Carries(h, f)
  <2>1. ~(~Malformed(f) /\ f.opcode \in 8..10 /\ f.fin = 1)
    BY <1>5 DEF Alone
  <2>2. Heard(h, f) = Ended(h, CloseFrame(PROTOCOL_ERROR))
    BY <1>5, <2>1 DEF Heard, Carries
  <2> QED BY <1>5, <2>2
<1> QED BY <1>2, <1>3, <1>4, <1>5

LEMMA MessageOf ==
  ASSUME NEW h \in Hearings, NEW opcode \in 0..15, NEW payload \in Seq(Byte),
         NEW g, g = Message(h, opcode, payload)
  PROVE  /\ g \in Hearings
         /\ opcode = WS_OPCODE_TEXT /\ ~WellFormed(payload) =>
              g.ended /\ g.calls = h.calls
         /\ ~(opcode = WS_OPCODE_TEXT /\ ~WellFormed(payload)) =>
              /\ g.opcode = 0 /\ g.parts = <<>>
              /\ g.calls = Append(h.calls, <<"onmessage", opcode, payload>>)
<1>2. Len(payload) \in Nat
  BY LenProperties
<1>3. CASE opcode = WS_OPCODE_TEXT /\ ~WellFormed(payload)
  <2>1. g = Ended(h, CloseFrame(WRONG_TYPE))
    BY <1>3 DEF Message
  <2>2. WRONG_TYPE \in Int
    BY DEF WRONG_TYPE
  <2> QED BY <1>3, <2>1, <2>2, CloseFrameType, EndedType
<1>4. CASE ~(opcode = WS_OPCODE_TEXT /\ ~WellFormed(payload))
  <2>1. PICK none, call, echo : /\ none = <<>> /\ call = <<"onmessage", opcode, payload>>
                                /\ echo = Header(WS_OPCODE_TEXT, Len(payload)) \o payload
    OBVIOUS
  <2>2. g = [h EXCEPT !.opcode = 0, !.parts = none, !.calls = Append(@, call),
                      !.written = Append(@, echo)]
    BY <1>4, <2>1 DEF Message
  <2>3. none \in Seq(Byte)
    BY <2>1, EmptySeq
  <2>4. call \in Calls
    BY <2>1 DEF Calls
  <2>5. echo \in Seq(Int)
    <3>1. PICK header : header = Header(WS_OPCODE_TEXT, Len(payload))
      OBVIOUS
    <3>2. WS_OPCODE_TEXT \in 0..15
      BY DEF WS_OPCODE_TEXT
    <3>3. header \in Seq(Byte)
      BY <1>2, <3>1, <3>2, HeaderType
    <3>4. header \o payload \in Seq(Byte)
      BY <1>2, <3>3
    <3> QED BY <2>1, <3>1, <3>4, BytesAreInts
  <2>6. PICK calls, written : calls = Append(h.calls, call) /\ written = Append(h.written, echo)
    OBVIOUS
  <2>7. h.calls \in Seq(Calls) /\ h.written \in Seq(Seq(Int))
    BY DEF Hearings
  <2>8. calls \in Seq(Calls) /\ written \in Seq(Seq(Int))
    BY <2>4, <2>5, <2>6, <2>7, AppendProperties
  <2>9. g = [h EXCEPT !.opcode = 0, !.parts = none, !.calls = calls, !.written = written]
    BY <2>2, <2>6 DEF Hearings
  <2>10. g.opcode = 0 /\ g.parts = none /\ g.calls = calls
    BY <2>9 DEF Hearings
  <2>11. g \in Hearings
    <3>1. g = [opcode |-> 0, parts |-> none, calls |-> calls, written |-> written,
               answer |-> h.answer, ended |-> h.ended]
      BY <2>9 DEF Hearings
    <3>2. h.answer \in Seq(Seq(Int)) /\ h.ended \in BOOLEAN
      BY DEF Hearings
    <3> QED BY <2>3, <2>8, <3>1, <3>2 DEF Hearings
  <2> QED BY <1>4, <2>1, <2>6, <2>10, <2>11
<1> QED BY <1>3, <1>4

LEMMA ClientFrameType ==
  ASSUME NEW f \in ClientFrame
  PROVE  /\ f.fin \in 0..1 /\ f.reserved \in 0..7 /\ f.opcode \in 0..15 /\ f.masked \in 0..1
         /\ f.key \in [1..4 -> Byte]
         /\ f.payload \in Seq(Byte) /\ Len(f.payload) \in 0..125
<1>1. /\ f.fin \in 0..1 /\ f.reserved \in 0..7 /\ f.opcode \in 0..15 /\ f.masked \in 0..1
      /\ f.key \in [1..4 -> Byte]
      /\ f.payload \in ShortPayload
  BY DEF ClientFrame, MASK_LENGTH
<1>2. f.payload \in Seq(Byte) /\ Len(f.payload) <= 125
  BY <1>1 DEF ShortPayload
<1>3. PICK n : n = Len(f.payload)
  OBVIOUS
<1>4. n \in Nat /\ n <= 125
  BY <1>2, <1>3, LenProperties
<1>5. n \in 0..125
  BY <1>4
<1> QED BY <1>1, <1>2, <1>3, <1>5

LEMMA AnswerToCloseType ==
  ASSUME NEW payload \in Seq(Byte)
  PROVE  AnswerToClose(payload) \in Seq(Int)
<1>1. Len(payload) \in Nat /\ payload \in Seq(Int)
  BY LenProperties, BytesAreInts
<1>2. CASE Len(payload) < 2
  <2>1. ~(Len(payload) >= 2)
    BY <1>1, <1>2
  <2>2. AnswerToClose(payload) = payload
    BY <1>2, <2>1 DEF AnswerToClose
  <2> QED BY <1>1, <2>2
<1>3. CASE Len(payload) >= 2
  <2>1. PICK front, reason : front = SubSeq(payload, 1, 2)
                             /\ reason = SubSeq(payload, 3, Len(payload))
    OBVIOUS
  <2>2. front \in Seq(Byte) /\ reason \in Seq(Byte)
    BY <1>1, <1>3, <2>1
  <2>3. PICK code : code = BigEndian(front)
    OBVIOUS
  <2>4. code \in Int
    BY <2>2, <2>3, BigEndianType
  <2>5. \E n \in {PROTOCOL_ERROR, WRONG_TYPE, code} : AnswerToClose(payload) = Code(n) \o reason
    <3>1. ~(Len(payload) < 2)
      BY <1>1, <1>3
    <3>2. CASE code \notin GoodCodes
      <4>1. AnswerToClose(payload) = Code(PROTOCOL_ERROR) \o reason
        BY <1>3, <2>1, <2>3, <3>1, <3>2 DEF AnswerToClose
      <4> QED BY <4>1
    <3>3. CASE code \in GoodCodes
      <4>1. AnswerToClose(payload) =
              (IF WellFormed(reason) THEN Code(code) ELSE Code(WRONG_TYPE)) \o reason
        BY <1>3, <2>1, <2>3, <3>1, <3>3 DEF AnswerToClose
      <4> QED BY <4>1
    <3> QED BY <3>2, <3>3
  <2>6. PICK n \in Int : AnswerToClose(payload) = Code(n) \o reason
    BY <2>4, <2>5 DEF PROTOCOL_ERROR, WRONG_TYPE
  <2>7. PICK c : c = Code(n)
    OBVIOUS
  <2>8. c \in Seq(Int) /\ reason \in Seq(Int)
    BY <2>2, <2>7, CodeType, BytesAreInts
  <2>9. c \o reason \in Seq(Int)
    BY <2>8
  <2> QED BY <2>6, <2>7, <2>9
<1> QED BY <1>1, <1>2, <1>3

(* What is heard after one frame more.                                     *)
LEMMA HeardType ==
  ASSUME NEW h \in Hearings, NEW f \in ClientFrame
  PROVE  Heard(h, f) \in Hearings
<1>1. f.payload \in Seq(Byte) /\ Len(f.payload) \in Nat /\ f.opcode \in 0..15
  BY ClientFrameType, LenProperties
<1>2. PICK p, n : p = f.payload /\ n = Len(f.payload)
  OBVIOUS
<1>3. p \in Seq(Byte) /\ p \in Seq(Int) /\ n \in Int
  BY <1>1, <1>2, BytesAreInts
<1>4. h.parts \in Seq(Byte) /\ h.opcode \in 0..15
  BY DEF Hearings
<1>5. CASE h.ended
  <2>1. Heard(h, f) = h
    BY <1>5, HeardCases
  <2> QED BY <2>1
<1>6. CASE ~h.ended /\ Alone(f) /\ f.opcode = WS_OPCODE_CLOSE
  <2>1. PICK answer : /\ Heard(h, f) = Ended(h, answer)
                      /\ answer = <<136, Len(f.payload)>> \o AnswerToClose(f.payload)
    BY <1>6, HeardCases
  <2>2. PICK a, b : a = <<136, n>> /\ b = AnswerToClose(p)
    OBVIOUS
  <2>3. a \in Seq(Int) /\ b \in Seq(Int)
    BY <1>3, <2>2, AnswerToCloseType
  <2>4. answer = a \o b
    BY <1>2, <2>1, <2>2
  <2>5. answer \in Seq(Int)
    BY <2>3, <2>4
  <2> QED BY <2>1, <2>5, EndedType
<1>7. CASE ~h.ended /\ Alone(f) /\ f.opcode = WS_OPCODE_PING
  <2>1. PICK a : a = <<138, n>>
    OBVIOUS
  <2>2. PICK pong : pong = a \o p
    OBVIOUS
  <2>3. pong \in Seq(Int)
    BY <1>3, <2>1, <2>2
  <2>4. PICK written : written = Append(h.written, pong)
    OBVIOUS
  <2>5. written \in Seq(Seq(Int))
    <3>1. h.written \in Seq(Seq(Int))
      BY DEF Hearings
    <3> QED BY <2>3, <2>4, <3>1, AppendProperties
  <2>6. Heard(h, f) = [h EXCEPT !.written = Append(@, <<138, Len(f.payload)>> \o f.payload)]
    BY <1>7, HeardCases
  <2>7. Heard(h, f) = [h EXCEPT !.written = written]
    BY <1>2, <2>1, <2>2, <2>4, <2>6 DEF Hearings
  <2> QED BY <2>5, <2>7 DEF Hearings
<1>8. CASE ~h.ended /\ Alone(f) /\ f.opcode = WS_OPCODE_PONG
  BY <1>8, HeardCases
<1>9. CASE ~h.ended /\ ~Alone(f) /\ Carries(h, f)
  <2>1. PICK opcode \in 0..15 : opcode = MessageOpcode(h, f)
    BY <1>1, <1>4 DEF MessageOpcode
  <2>2. PICK parts : parts = h.parts \o f.payload
    OBVIOUS
  <2>3. parts \in Seq(Byte)
    BY <1>1, <1>4, <2>2
  <2>4. CASE f.fin = 1
    <3>1. Heard(h, f) = Message(h, opcode, parts)
      BY <1>9, <2>1, <2>2, <2>4, HeardCases
    <3> QED BY <2>3, <3>1, MessageOf
  <2>5. CASE f.fin # 1
    <3>1. Heard(h, f) = [h EXCEPT !.opcode = opcode, !.parts = parts]
      BY <1>9, <2>1, <2>2, <2>5, HeardCases
    <3> QED BY <2>3, <3>1 DEF Hearings
  <2> QED BY <2>4, <2>5
<1>10. CASE ~h.ended /\ ~Alone(f) /\ ~Carries(h, f)
  <2>1. Heard(h, f) = Ended(h, CloseFrame(PROTOCOL_ERROR))
    BY <1>10, HeardCases
  <2>2. CloseFrame(PROTOCOL_ERROR) \in Seq(Int)
    BY CloseFrameType DEF PROTOCOL_ERROR
  <2> QED BY <2>1, <2>2, EndedType
<1>11. Alone(f) => f.opcode \in {WS_OPCODE_CLOSE, WS_OPCODE_PING, WS_OPCODE_PONG}
  BY DEF Alone, WS_OPCODE_CLOSE, WS_OPCODE_PING, WS_OPCODE_PONG
<1> QED BY <1>5, <1>6, <1>7, <1>8, <1>9, <1>10, <1>11

-----------------------------------------------------------------------------
(* The first frames of a script *)

LEMMA FirstMore ==
  ASSUME NEW E, NEW s \in Seq(E), NEW k \in 0..Len(s)
  PROVE  /\ SubSeq(s, 1, 0) = <<>> /\ SubSeq(s, 1, Len(s)) = s
         /\ SubSeq(s, 1, k) \in Seq(E) /\ Len(SubSeq(s, 1, k)) = k
         /\ k < Len(s) => /\ s[k + 1] \in E /\ k + 1 \in 0..Len(s)
                          /\ SubSeq(s, 1, k + 1) = Append(SubSeq(s, 1, k), s[k + 1])
<1>1. PICK n \in Nat : n = Len(s) /\ k \in 0..n
  BY LenProperties
<1>2. \A i \in 1..n : s[i] \in E
  BY <1>1, ElementOfSeq
<1>3. PICK q : q = SubSeq(s, 1, k)
  OBVIOUS
<1>4. q \in Seq(E) /\ Len(q) = k /\ \A i \in 1..k : q[i] = s[i]
  BY <1>1, <1>2, <1>3
<1>5. SubSeq(s, 1, 0) = <<>>
  OBVIOUS
<1>6. SubSeq(s, 1, n) = s
  BY <1>1
<1>7. CASE k < n
  <2>1. k + 1 \in 1..n /\ k + 1 \in 0..n
    BY <1>1, <1>7
  <2>2. PICK r : r = SubSeq(s, 1, k + 1)
    OBVIOUS
  <2>3. r \in Seq(E) /\ Len(r) = k + 1 /\ \A i \in 1..k + 1 : r[i] = s[i]
    BY <1>1, <1>2, <2>1, <2>2
  <2>4. PICK t : t = Append(q, s[k + 1])
    OBVIOUS
  <2>5. /\ t \in Seq(E) /\ Len(t) = k + 1 /\ t[k + 1] = s[k + 1]
        /\ \A i \in 1..k : t[i] = q[i]
    BY <1>2, <1>4, <2>1, <2>4, AppendProperties
  <2>6. \A i \in 1..k + 1 : r[i] = t[i]
    <3>1. \A i \in 1..k + 1 : i \in 1..k \/ i = k + 1
      BY <1>1
    <3> QED BY <1>4, <2>3, <2>5, <3>1
  <2>7. r = t
    <3>1. Len(r) = Len(t) /\ \A i \in 1..Len(r) : r[i] = t[i]
      BY <2>3, <2>5, <2>6
    <3> QED BY <2>3, <2>5, <3>1, SeqEqual
  <2> QED BY <1>1, <1>2, <1>3, <1>4, <1>5, <1>6, <2>1, <2>2, <2>4, <2>7
<1>8. CASE ~(k < n)
  BY <1>1, <1>3, <1>4, <1>5, <1>6, <1>8
<1> QED BY <1>7, <1>8

Upto(s, k) == SizeOf(SubSeq(s, 1, k))

LEMMA UptoMore ==
  ASSUME NEW s \in Seq(ClientFrame), NEW k \in 0..Len(s)
  PROVE  /\ Upto(s, 0) = 0 /\ Upto(s, Len(s)) = SizeOf(s) /\ Upto(s, k) \in Nat
         /\ k < Len(s) => Upto(s, k + 1) = Upto(s, k) + Size(s[k + 1])
<1>1. /\ SubSeq(s, 1, 0) = <<>> /\ SubSeq(s, 1, Len(s)) = s
      /\ SubSeq(s, 1, k) \in Seq(ClientFrame)
  BY FirstMore
<1>2. Upto(s, 0) = 0 /\ Upto(s, Len(s)) = SizeOf(s) /\ Upto(s, k) \in Nat
  BY <1>1, SizeOfLemma DEF Upto
<1>3. ASSUME k < Len(s) PROVE Upto(s, k + 1) = Upto(s, k) + Size(s[k + 1])
  <2>1. PICK q, f : q = SubSeq(s, 1, k) /\ f = s[k + 1]
    OBVIOUS
  <2>2. f \in ClientFrame /\ SubSeq(s, 1, k + 1) = Append(q, f) /\ q \in Seq(ClientFrame)
    BY <1>3, <2>1, FirstMore
  <2>3. SizeOf(Append(q, f)) = SizeOf(q) + Size(f)
    BY <2>2, SizeOfLemma
  <2> QED BY <2>1, <2>2, <2>3 DEF Upto
<1> QED BY <1>2, <1>3

(* The bytes of a frame are where those of the frames before it end.       *)
LEMMA StreamAt ==
  ASSUME NEW s \in Seq(ClientFrame), NEW i \in 1..Len(s), NEW j \in 1..Size(s[i])
  PROVE  StreamOf(s)[Upto(s, i - 1) + j] = Encode(s[i])[j]
<1> DEFINE At(t, m, n) == StreamOf(t)[Upto(t, m - 1) + n] = Encode(t[m])[n]
           T == {t \in Seq(ClientFrame) : \A m \in 1..Len(t) : \A n \in 1..Size(t[m]) : At(t, m, n)}
<1>1. <<>> \in T
  <2>1. PICK none : none = <<>>
    OBVIOUS
  <2>2. none \in Seq(ClientFrame) /\ Len(none) = 0
    BY <2>1, EmptySeq
  <2>3. none \in T
    BY <2>2
  <2> QED BY <2>1, <2>3
<1>2. ASSUME NEW t \in Seq(ClientFrame), NEW f \in ClientFrame, t \in T
      PROVE  Append(t, f) \in T
  <2>1. PICK r, n : r = Append(t, f) /\ n = Len(t)
    OBVIOUS
  <2>2. /\ r \in Seq(ClientFrame) /\ Len(r) = n + 1 /\ r[n + 1] = f /\ n \in Nat
        /\ \A m \in 1..n : r[m] = t[m]
    BY <2>1, AppendProperties, LenProperties
  <2>3. StreamOf(r) = StreamOf(t) \o Encode(f)
    BY <2>1, StreamAppend
  <2>4. /\ StreamOf(t) \in Seq(Byte) /\ Len(StreamOf(t)) = Upto(t, n) /\ Upto(t, n) \in Nat
        /\ Encode(f) \in Seq(Byte) /\ Len(Encode(f)) = Size(f) /\ Size(f) \in Nat
    <3>1. n \in 0..Len(t)
      BY <2>1, <2>2
    <3> QED BY <2>1, <3>1, StreamType, EncodeType, UptoMore
  <2>5. \A m \in 0..n : SubSeq(r, 1, m) = SubSeq(t, 1, m)
    <3>1. TAKE m \in 0..n
    <3>2. PICK p, q : p = SubSeq(r, 1, m) /\ q = SubSeq(t, 1, m)
      OBVIOUS
    <3>3. m \in 0..Len(t) /\ m \in 0..Len(r)
      BY <2>1, <2>2
    <3>4. /\ p \in Seq(ClientFrame) /\ q \in Seq(ClientFrame) /\ Len(p) = m /\ Len(q) = m
          /\ \A a \in 1..m : p[a] = r[a] /\ q[a] = t[a]
      <4>1. p \in Seq(ClientFrame) /\ Len(p) = m
        BY <2>2, <3>2, <3>3, FirstMore
      <4>2. q \in Seq(ClientFrame) /\ Len(q) = m
        BY <3>2, <3>3, FirstMore
      <4>3. \A a \in 1..m : p[a] = r[a] /\ q[a] = t[a]
        BY <2>1, <2>2, <3>2, <3>3
      <4> QED BY <4>1, <4>2, <4>3
    <3>5. \A a \in 1..m : p[a] = q[a]
      BY <2>2, <3>3, <3>4
    <3>6. p = q
      BY <3>4, <3>5, SeqEqual
    <3> QED BY <3>2, <3>6
  <2>6. ASSUME NEW m \in 1..n + 1, NEW b \in 1..Size(r[m]) PROVE At(r, m, b)
    <3>1. PICK u, e : u = StreamOf(t) /\ e = Encode(f)
      OBVIOUS
    <3>2. /\ u \in Seq(Byte) /\ e \in Seq(Byte) /\ Len(u) = Upto(t, n) /\ Len(u) \in Nat
          /\ Len(e) = Size(f) /\ Len(e) \in Nat
      BY <2>4, <3>1
    <3>3. /\ \A a \in 1..Len(u) : (u \o e)[a] = u[a]
          /\ \A a \in 1..Len(e) : (u \o e)[Len(u) + a] = e[a]
      BY <3>2
    <3>4. CASE m = n + 1
      <4>1. m - 1 = n /\ n \in 0..n
        BY <2>2, <3>4
      <4>5. SubSeq(r, 1, n) = SubSeq(t, 1, n)
        BY <2>5, <4>1
      <4>6. Upto(r, n) = Upto(t, n) /\ r[m] = f
        BY <2>2, <3>4, <4>5 DEF Upto
      <4>2. b \in 1..Len(e)
        BY <3>2, <4>6
      <4>3. (u \o e)[Upto(t, n) + b] = e[b]
        BY <3>2, <3>3, <4>2
      <4> QED BY <2>3, <3>1, <4>1, <4>3, <4>6
    <3>5. CASE m # n + 1
      <4>1. m \in 1..n /\ m - 1 \in 0..n /\ m \in 0..n
        BY <2>2, <3>5
      <4>2. r[m] = t[m] /\ Upto(r, m - 1) = Upto(t, m - 1)
        BY <2>2, <2>5, <4>1 DEF Upto
      <4>3. At(t, m, b)
        BY <1>2, <2>1, <4>1, <4>2
      <4>4. Upto(t, m - 1) + b \in 1..Len(u)
        <5>1. PICK p : p = Upto(t, m - 1) + b
          OBVIOUS
        <5>2. Upto(t, m) = Upto(t, m - 1) + Size(t[m]) /\ Upto(t, m - 1) \in Nat
          <6>1. PICK l : l = m - 1
            OBVIOUS
          <6>2. l \in 0..Len(t) /\ l < Len(t) /\ l + 1 = m
            BY <2>1, <2>2, <4>1, <6>1
          <6>3. Upto(t, l) \in Nat /\ Upto(t, l + 1) = Upto(t, l) + Size(t[l + 1])
            BY <6>2, UptoMore
          <6> QED BY <6>1, <6>2, <6>3
        <5>3. Upto(t, m) <= Upto(t, n)
          <6> DEFINE P == {l \in 0..n : m <= l => Upto(t, m) <= Upto(t, l)}
          <6>1. 0 \in P
            BY <2>2, <4>1
          <6>2. ASSUME NEW l \in 1..n, l - 1 \in P PROVE l \in P
            <7>1. PICK k : k = l - 1
              OBVIOUS
            <7>2. k \in 0..Len(t) /\ k < Len(t) /\ k + 1 = l
              BY <2>1, <2>2, <7>1
            <7>3. Upto(t, k) \in Nat /\ Upto(t, k + 1) = Upto(t, k) + Size(t[k + 1])
              BY <7>2, UptoMore
            <7>4. Size(t[k + 1]) \in Nat
              <8>1. t[k + 1] \in ClientFrame
                BY <2>2, <7>2, ElementOfSeq
              <8> QED BY <8>1, EncodeType
            <7>5. Upto(t, k) <= Upto(t, l) /\ Upto(t, l) \in Nat
              BY <7>2, <7>3, <7>4
            <7>6. CASE m = l
              BY <7>5, <7>6
            <7>7. CASE m # l
              <8>1. m <= l => m <= k
                BY <4>1, <7>1, <7>2, <7>7
              <8>2. Upto(t, m) \in Nat
                <9>1. m \in 0..Len(t)
                  BY <2>1, <4>1
                <9> QED BY <9>1, UptoMore
              <8>3. m <= k => Upto(t, m) <= Upto(t, k)
                BY <6>2, <7>1
              <8> QED BY <7>3, <7>5, <8>1, <8>2, <8>3
            <7> QED BY <7>6, <7>7
          <6> HIDE DEF P
          <6>3. 0..n \subseteq P
            BY <2>2, <6>1, <6>2, Sizes!IntervalInduction
          <6>4. n \in P
            BY <2>2, <6>3
          <6> QED BY <4>1, <6>4 DEF P
        <5>4. b \in 1..Size(t[m])
          BY <4>2
        <5>5. Size(t[m]) \in Nat
          <6>1. t[m] \in ClientFrame
            BY <2>1, <2>2, <4>1, ElementOfSeq
          <6> QED BY <6>1, EncodeType
        <5>6. p \in 1..Upto(t, n)
          BY <2>4, <5>1, <5>2, <5>3, <5>4, <5>5
        <5> QED BY <3>2, <5>1, <5>6
      <4> QED BY <2>3, <3>1, <3>3, <4>2, <4>3, <4>4
    <3> QED BY <3>4, <3>5
  <2>7. \A m \in 1..Len(r) : \A b \in 1..Size(r[m]) : At(r, m, b)
    BY <2>2, <2>6
  <2> HIDE DEF At
  <2> QED BY <2>1, <2>2, <2>7
<1> HIDE DEF T
<1>3. Seq(ClientFrame) \subseteq T
  BY <1>1, <1>2, Sizes!SeqInduction
<1> QED BY <1>3 DEF T

-----------------------------------------------------------------------------
(* What is heard of the first frames of a script, and when *)

Hears == INSTANCE Folding WITH Op <- Heard

HeardOf(s, k) == FoldLeft(Heard, Silence, SubSeq(s, 1, k))

LEMMA HeardFold ==
  ASSUME NEW s
  PROVE  FoldLeft(Heard, Silence, s) = Hears!Fold(Silence, s)
BY DEF Hears!Fold, Hears!FoldLeft, Hears!MapThenFoldSet, Hears!Max,
       FoldLeft, MapThenFoldSet, Max

LEMMA HeardMore ==
  ASSUME NEW s \in Seq(ClientFrame), NEW k \in 0..Len(s)
  PROVE  /\ HeardOf(s, 0) = Silence /\ HeardOf(s, k) \in Hearings
         /\ k < Len(s) => HeardOf(s, k + 1) = Heard(HeardOf(s, k), s[k + 1])
<1>1. Hears!FoldOver(Hearings, ClientFrame, Silence)
  BY SilenceType, HeardType DEF Hears!FoldOver
<1>2. PICK q : q = SubSeq(s, 1, k)
  OBVIOUS
<1>3. q \in Seq(ClientFrame) /\ SubSeq(s, 1, 0) = <<>>
  BY <1>2, FirstMore
<1>4. HeardOf(s, 0) = Silence
  <2>1. PICK none : none = <<>>
    OBVIOUS
  <2>2. Hears!Fold(Silence, none) = Silence
    BY <2>1, Hears!FoldEmpty
  <2> QED BY <1>3, <2>1, <2>2, HeardFold DEF HeardOf
<1>5. HeardOf(s, k) \in Hearings
  <2>1. Hears!Fold(Silence, q) \in Hearings
    BY <1>1, <1>3, Hears!FoldType
  <2> QED BY <1>2, <2>1, HeardFold DEF HeardOf
<1>6. ASSUME k < Len(s) PROVE HeardOf(s, k + 1) = Heard(HeardOf(s, k), s[k + 1])
  <2>1. PICK f : f = s[k + 1]
    OBVIOUS
  <2>2. f \in ClientFrame /\ SubSeq(s, 1, k + 1) = Append(q, f)
    BY <1>2, <1>6, <2>1, FirstMore
  <2>3. Hears!Fold(Silence, Append(q, f)) = Heard(Hears!Fold(Silence, q), f)
    BY <1>1, <1>3, <2>2, Hears!FoldAppend
  <2> QED BY <1>2, <2>1, <2>2, <2>3, HeardFold DEF HeardOf
<1> QED BY <1>4, <1>5, <1>6

LEMMA EndedStays ==
  ASSUME NEW s \in Seq(ClientFrame), NEW k \in 0..Len(s), HeardOf(s, k).ended,
         NEW m \in k..Len(s)
  PROVE  HeardOf(s, m) = HeardOf(s, k)
<1>1. PICK n \in Nat : n = Len(s)
  BY LenProperties
<1> DEFINE T == {i \in 0..n : k <= i => HeardOf(s, i) = HeardOf(s, k)}
<1>2. 0 \in T
  <2>1. k <= 0 => k = 0
    BY <1>1
  <2> QED BY <1>1, <2>1
<1>3. ASSUME NEW i \in 1..n, i - 1 \in T PROVE i \in T
  <2>1. PICK j : j = i - 1
    OBVIOUS
  <2>2. j \in 0..Len(s) /\ j < Len(s) /\ j + 1 = i /\ (k <= i => k <= j \/ k = i)
    BY <1>1, <1>3, <2>1
  <2>3. CASE k <= j
    <3>1. HeardOf(s, j) = HeardOf(s, k)
      BY <1>3, <2>1, <2>3
    <3>2. HeardOf(s, i) = Heard(HeardOf(s, j), s[i])
      BY <2>2, HeardMore
    <3>3. HeardOf(s, j).ended
      BY <3>1
    <3>4. Heard(HeardOf(s, j), s[i]) = HeardOf(s, j)
      BY <3>3, HeardCases
    <3> QED BY <3>1, <3>2, <3>4
  <2>4. CASE ~(k <= j)
    BY <2>2, <2>4
  <2> QED BY <2>3, <2>4
<1> HIDE DEF T
<1>4. 0..n \subseteq T
  BY <1>1, <1>2, <1>3, Sizes!IntervalInduction
<1>5. m \in T
  BY <1>1, <1>4
<1> QED BY <1>5 DEF T

(* Bytes of a frame that are looked at until the next.                     *)
Span(f) == IF Malformed(f) THEN 3 ELSE Size(f)

LEMMA SpanLemma ==
  ASSUME NEW f \in ClientFrame
  PROVE  /\ Size(f) \in Nat /\ Size(f) >= 2 /\ Span(f) \in Nat /\ Span(f) >= 3
         /\ ~Malformed(f) => Size(f) = 6 + Len(f.payload) /\ Span(f) = Size(f)
                             /\ f.masked = 1 /\ f.reserved = 0
<1>1. PICK n, m : n = Len(f.payload) /\ m = f.masked
  OBVIOUS
<1>2. n \in Nat /\ m \in 0..1 /\ Size(f) = 2 + 4 * m + n
  BY <1>1, ClientFrameType DEF Size, MASK_LENGTH
<1>3. Size(f) \in Nat /\ Size(f) >= 2
  BY <1>2
<1>4. ~Malformed(f) => m = 1 /\ f.reserved = 0
  BY <1>1, <1>2 DEF Malformed
<1> QED BY <1>1, <1>2, <1>3, <1>4 DEF Span

LEMMA DecidedIs ==
  ASSUME script \in Scripts, NEW i \in 1..Len(script)
  PROVE  /\ Decided(i) = Upto(script, i - 1) + Span(script[i]) /\ Decided(i) \in Nat
         /\ i - 1 \in 0..Len(script) /\ script[i] \in ClientFrame
         /\ Upto(script, i) = Upto(script, i - 1) + Size(script[i])
<1>1. script \in Seq(ClientFrame) /\ Len(script) \in Nat /\ script[i] \in ClientFrame
  BY WebSockAssumption, LenProperties, ElementOfSeq
<1>2. PICK j : j = i - 1
  OBVIOUS
<1>3. j \in 0..Len(script) /\ j < Len(script) /\ j + 1 = i
  BY <1>1, <1>2
<1>4. Upto(script, j) \in Nat /\ Upto(script, j + 1) = Upto(script, j) + Size(script[j + 1])
  BY <1>1, <1>3, UptoMore
<1>5. Decided(i) = Upto(script, j) + Span(script[i])
  BY <1>2 DEF Decided, Upto, Span
<1>6. Span(script[i]) \in Nat
  BY <1>1, SpanLemma
<1> QED BY <1>1, <1>2, <1>3, <1>4, <1>5, <1>6

LEMMA DecidedIncreases ==
  ASSUME script \in Scripts, NEW i \in 1..Len(script), i + 1 \in 1..Len(script)
  PROVE  Decided(i) < Decided(i + 1)
<1>1. script \in Seq(ClientFrame) /\ Len(script) \in Nat
  BY WebSockAssumption, LenProperties
<1>2. PICK c, d, p, q, r : /\ c = script[i] /\ d = script[i + 1]
                           /\ p = Upto(script, i - 1) /\ q = Upto(script, i)
                           /\ r = i + 1
  OBVIOUS
<1>3. /\ Decided(i) = p + Span(c) /\ q = p + Size(c) /\ c \in ClientFrame
      /\ Decided(r) = q + Span(d) /\ d \in ClientFrame
  <2>1. r \in 1..Len(script) /\ r - 1 = i
    BY <1>1, <1>2
  <2>2. Decided(r) = Upto(script, r - 1) + Span(script[r]) /\ script[r] \in ClientFrame
    BY <2>1, DecidedIs
  <2> QED BY <1>2, <2>1, <2>2, DecidedIs
<1>4. /\ Span(c) \in Nat /\ Size(c) \in Nat /\ Size(c) >= 2 /\ (Span(c) = 3 \/ Span(c) = Size(c))
      /\ Span(d) \in Nat /\ Span(d) >= 3
  BY <1>3, SpanLemma DEF Span
<1>5. p \in Nat
  <2>1. i - 1 \in 0..Len(script)
    BY <1>1
  <2> QED BY <1>1, <1>2, <2>1, UptoMore
<1>6. PICK u, v, w, a, b : /\ u = Span(c) /\ v = Size(c) /\ w = Span(d)
                           /\ a = Decided(i) /\ b = Decided(i + 1)
  OBVIOUS
<1>7. a = p + u /\ b = p + v + w
  <2>1. a = p + u /\ q = p + v
    BY <1>3, <1>6
  <2>2. b = q + w
    BY <1>2, <1>3, <1>6
  <2> QED BY <2>1, <2>2
<1>8. u \in Nat /\ v \in Nat /\ v >= 2 /\ (u = 3 \/ u = v) /\ w \in Nat /\ w >= 3
  BY <1>4, <1>6
<1>9. a < b
  BY <1>5, <1>7, <1>8
<1> QED BY <1>6, <1>9

(* The frames decided are always the first ones.                           *)
LEMMA DecidedSet ==
  ASSUME script \in Scripts, NEW limit \in Int
  PROVE  \E m \in 0..Len(script) : {i \in DOMAIN script : Decided(i) <= limit} = 1..m
<1>1. PICK n \in Nat : n = Len(script) /\ DOMAIN script = 1..n
  BY WebSockAssumption, LenProperties
<1> DEFINE Early(j) == {i \in 1..j : Decided(i) <= limit}
           T == {j \in 0..n : \E m \in 0..j : Early(j) = 1..m}
<1>2. 0 \in T
  <2>1. Early(0) = 1..0
    OBVIOUS
  <2> QED BY <2>1
<1>3. ASSUME NEW j \in 1..n, j - 1 \in T PROVE j \in T
  <2>1. PICK k : k = j - 1
    OBVIOUS
  <2>2. k \in 0..n /\ k + 1 = j /\ j \in 1..Len(script)
    BY <1>1, <1>3, <2>1
  <2>3. PICK m \in 0..k : Early(k) = 1..m
    BY <1>3, <2>1
  <2>4. Decided(j) \in Nat
    BY <2>2, DecidedIs
  <2>5. CASE Decided(j) <= limit
    <3>1. k = 0 \/ Decided(k) <= limit
      <4>1. CASE k = 0
        BY <4>1
      <4>2. CASE k # 0
        <5>1. k \in 1..Len(script) /\ k + 1 \in 1..Len(script)
          BY <1>1, <2>2, <4>2
        <5>2. Decided(k) < Decided(j) /\ Decided(k) \in Nat
          BY <2>2, <5>1, DecidedIncreases, DecidedIs
        <5> QED BY <2>4, <2>5, <5>2
      <4> QED BY <4>1, <4>2
    <3>2. m = k
      <4>1. CASE k = 0
        BY <2>3, <4>1
      <4>2. CASE k # 0
        <5>1. k \in Early(k)
          BY <2>2, <3>1, <4>2
        <5> QED BY <2>2, <2>3, <5>1
      <4> QED BY <4>1, <4>2
    <3>3. \A i \in 1..j : i \in 1..k \/ i = j
      BY <2>2
    <3>4. Early(j) = 1..j
      <4>1. \A i \in 1..k : Decided(i) <= limit
        BY <2>3, <3>2
      <4> QED BY <2>5, <3>3, <4>1
    <3>5. j \in 0..j /\ j \in 0..n
      BY <1>1, <1>3
    <3> QED BY <3>4, <3>5
  <2>6. CASE ~(Decided(j) <= limit)
    <3>1. \A i \in 1..j : i \in 1..k \/ i = j
      BY <2>2
    <3>2. \A i \in 1..k : i \in 1..j
      BY <2>2
    <3>3. Early(j) = Early(k)
      BY <2>6, <3>1, <3>2
    <3>4. m \in 0..j /\ j \in 0..n
      BY <2>2, <2>3
    <3> QED BY <2>3, <3>3, <3>4
  <2> QED BY <2>5, <2>6
<1> HIDE DEF T
<1>4. 0..n \subseteq T
  BY <1>1, <1>2, <1>3, Sizes!IntervalInduction
<1>5. n \in T
  BY <1>4
<1> QED BY <1>1, <1>5 DEF T

(* What the client means with the bytes looked at.                         *)
LEMMA MeantIs ==
  ASSUME script \in Scripts, LookedAt \in Int
  PROVE  \E m \in 0..Len(script) :
           /\ Meant = HeardOf(script, m)
           /\ \A i \in 1..Len(script) : Decided(i) <= LookedAt <=> i <= m
<1>1. PICK m \in 0..Len(script) : {i \in DOMAIN script : Decided(i) <= LookedAt} = 1..m
  BY DecidedSet
<1>2. Len(script) \in Nat /\ DOMAIN script = 1..Len(script)
  BY WebSockAssumption, LenProperties
<1>3. Cardinality(1..m) = m
  <2>1. Cardinality(1..m) = IF 1 > m THEN 0 ELSE m - 1 + 1
    BY <1>1, <1>2, FS_Interval
  <2> QED BY <1>2, <2>1
<1>4. Meant = HeardOf(script, m)
  BY <1>1, <1>3 DEF Meant, HeardOf
<1>5. \A i \in 1..Len(script) : Decided(i) <= LookedAt <=> i <= m
  <2>1. TAKE i \in 1..Len(script)
  <2>2. Decided(i) <= LookedAt <=> i \in 1..m
    BY <1>1, <1>2
  <2>3. i \in 1..m <=> i <= m
    BY <1>2
  <2> QED BY <2>2, <2>3
<1> QED BY <1>4, <1>5

-----------------------------------------------------------------------------
(* The bytes of one frame of the client *)

LEMMA EncodeBytes ==
  ASSUME NEW c \in ClientFrame
  PROVE  /\ Encode(c)[1] = 128 * c.fin + 16 * c.reserved + c.opcode
         /\ Encode(c)[2] = 128 * c.masked + Len(c.payload)
         /\ c.masked = 1 =>
              /\ \A j \in 1..4 : Encode(c)[2 + j] = c.key[j]
              /\ \A i \in 1..Len(c.payload) :
                   Encode(c)[6 + i] = Xor(c.payload[i], c.key[((i - 1) % 4) + 1])
<1>1. PICK p, key, n : p = c.payload /\ key = c.key /\ n = Len(p)
  OBVIOUS
<1>2. /\ key \in [1..4 -> Byte] /\ p \in Seq(Byte) /\ n \in 0..125 /\ c.masked \in 0..1
      /\ DOMAIN p = 1..n
  BY <1>1, ClientFrameType, LenProperties
<1>3. PICK a, b : a = 128 * c.fin + 16 * c.reserved + c.opcode /\ b = 128 * c.masked + n
  OBVIOUS
<1>4. PICK head : head = <<a, b>>
  OBVIOUS
<1>5. PICK B : B = Byte \cup {a, b}
  OBVIOUS
<1>6. head \in Seq(B) /\ Len(head) = 2 /\ head[1] = a /\ head[2] = b
  BY <1>4, <1>5
<1>7. CASE c.masked = 0
  <2>1. Encode(c) = head \o p
    BY <1>1, <1>3, <1>4, <1>7 DEF Encode
  <2>2. p \in Seq(B)
    BY <1>2, <1>5, SeqMonotonic
  <2>3. PICK q : q = head \o p
    OBVIOUS
  <2>5. \A i \in 1..Len(head) : q[i] = head[i]
    <3>1. head \in Seq(B)
      BY <1>6
    <3> QED BY <2>2, <2>3, <3>1, ConcatAt
  <2>6. q[1] = a /\ q[2] = b
    BY <1>6, <2>5
  <2>4. Encode(c)[1] = a /\ Encode(c)[2] = b
    BY <2>1, <2>3, <2>6
  <2> QED BY <1>1, <1>3, <1>7, <2>4
<1>8. CASE c.masked = 1
  <2>1. key \in Seq(B) /\ Len(key) = 4
    <3>1. PICK m \in Nat : m = 4
      OBVIOUS
    <3>2. key \in [1..m -> B]
      BY <1>2, <1>5, <3>1
    <3>3. key \in Seq(B) /\ Len(key) = m
      BY <3>2
    <3> QED BY <3>1, <3>3
  <2> DEFINE body == [i \in 1..n |-> Xor(p[i], key[((i - 1) % 4) + 1])]
  <2>2. Encode(c) = head \o (key \o body)
    BY <1>1, <1>2, <1>3, <1>4, <1>8 DEF Encode, MASK_LENGTH
  <2>3. body \in Seq(B) /\ Len(body) = n
    <3>1. ASSUME NEW i \in 1..n PROVE Xor(p[i], key[((i - 1) % 4) + 1]) \in B
      <4>1. ((i - 1) % 4) + 1 \in 1..4
        OBVIOUS
      <4>2. p[i] \in Byte /\ key[((i - 1) % 4) + 1] \in Byte
        BY <1>2, <4>1, ElementOfSeq
      <4> QED BY <1>5, <4>2, XorLemma
    <3>2. body \in [1..n -> B]
      BY <3>1
    <3>3. n \in Nat
      BY <1>2
    <3> HIDE DEF body
    <3> QED BY <3>2, <3>3
  <2>4. \A i \in 1..n : body[i] = Xor(p[i], key[((i - 1) % 4) + 1])
    OBVIOUS
  <2> HIDE DEF body
  <2>5. PICK r : r = key \o body
    OBVIOUS
  <2>6. /\ r \in Seq(B) /\ Len(r) = 4 + n
        /\ \A j \in 1..4 : r[j] = key[j]
        /\ \A i \in 1..n : r[4 + i] = body[i]
    <3>1. /\ r \in Seq(B) /\ Len(r) = Len(key) + Len(body)
          /\ \A j \in 1..Len(key) : r[j] = key[j]
          /\ \A i \in 1..Len(body) : r[Len(key) + i] = body[i]
        <4>1. key \in Seq(B) /\ body \in Seq(B)
        BY <2>1, <2>3
      <4> QED BY <2>5, <4>1, ConcatAt
    <3> QED BY <2>1, <2>3, <3>1
  <2>7. PICK q : q = head \o r
    OBVIOUS
  <2>8. /\ \A i \in 1..2 : q[i] = head[i]
        /\ \A i \in 1..Len(r) : q[2 + i] = r[i]
    <3>1. /\ \A i \in 1..Len(head) : q[i] = head[i]
          /\ \A i \in 1..Len(r) : q[Len(head) + i] = r[i]
      <4>1. head \in Seq(B) /\ r \in Seq(B)
        BY <1>6, <2>6
      <4> QED BY <2>7, <4>1, ConcatAt
    <3> QED BY <1>6, <3>1
  <2>9. q[1] = a /\ q[2] = b
    BY <1>6, <2>8
  <2>10. ASSUME NEW j \in 1..4 PROVE q[2 + j] = key[j]
    <3>1. j \in 1..Len(r)
      BY <1>2, <2>6
    <3> QED BY <2>6, <2>8, <3>1
  <2>11. ASSUME NEW i \in 1..n PROVE q[6 + i] = Xor(p[i], key[((i - 1) % 4) + 1])
    <3>1. 4 + i \in 1..Len(r) /\ 2 + (4 + i) = 6 + i
      BY <1>2, <2>6
    <3> QED BY <2>4, <2>6, <2>8, <3>1
  <2>12. q = Encode(c)
    BY <2>2, <2>5, <2>7
  <2> QED BY <1>1, <1>3, <2>9, <2>10, <2>11, <2>12
<1> QED BY <1>2, <1>7, <1>8

LEMMA HeaderBits ==
  ASSUME NEW c \in ClientFrame
  PROVE  /\ Encode(c)[1] \in Byte /\ Encode(c)[2] \in Byte
         /\ Reserved(Encode(c)[1]) = c.reserved
         /\ Bit(Encode(c)[1], 7) = c.fin /\ Encode(c)[1] % 16 = c.opcode
         /\ Bit(Encode(c)[2], 7) = c.masked /\ Encode(c)[2] % 128 = Len(c.payload)
<1>1. PICK fin, reserved, opcode, masked, n :
        /\ fin = c.fin /\ reserved = c.reserved /\ opcode = c.opcode /\ masked = c.masked
        /\ n = Len(c.payload)
  OBVIOUS
<1>2. /\ fin \in 0..1 /\ reserved \in 0..7 /\ opcode \in 0..15 /\ masked \in 0..1
      /\ n \in 0..125
  BY <1>1, ClientFrameType
<1>3. PICK a, b : a = 128 * fin + 16 * reserved + opcode /\ b = 128 * masked + n
  OBVIOUS
<1>4. Encode(c)[1] = a /\ Encode(c)[2] = b
  BY <1>1, <1>3, EncodeBytes
<1>5. a \in Byte /\ b \in Byte
  BY <1>2, <1>3 DEF Byte
<1>6. a % 16 = opcode
  <2>1. a = 16 * (8 * fin + reserved) + opcode
    BY <1>2, <1>3
  <2> QED BY <1>2, <2>1
<1>7. (a \div 16) % 8 = reserved
  <2>1. a \div 16 = 8 * fin + reserved
    BY <1>2, <1>3
  <2>2. (8 * fin + reserved) % 8 = reserved
    BY <1>2
  <2> QED BY <2>1, <2>2
<1>8. Bit(a, 7) = fin
  <2>1. a \div 128 = fin
    BY <1>2, <1>3
  <2>2. fin % 2 = fin
    BY <1>2
  <2> QED BY <1>5, <2>1, <2>2, BitsOfByte
<1>9. Bit(b, 7) = masked
  <2>1. b \div 128 = masked
    BY <1>2, <1>3
  <2>2. masked % 2 = masked
    BY <1>2
  <2> QED BY <1>5, <2>1, <2>2, BitsOfByte
<1>10. b % 128 = n
  BY <1>2, <1>3
<1> QED BY <1>1, <1>4, <1>5, <1>6, <1>7, <1>8, <1>9, <1>10 DEF Reserved

-----------------------------------------------------------------------------
(* A frame that has received the first bytes of one of the client *)

Starting(f) == f.state = "sw_start" /\ f.raw = <<>>

PartOf(f, c, p) ==
  /\ Len(f.raw) = p
  /\ \A j \in 1..p : f.raw[j] = Encode(c)[j]
  /\ p <= 1 => f.state = "sw_start"
  /\ p = 2 => f.state = "sw_got_two"
  /\ p >= 3 => /\ f.mask_offset = 2 /\ f.fin = c.fin /\ f.opcode = c.opcode
               /\ f.payload_len_short = Len(c.payload)
  /\ p = 3 => f.state = "sw_got_short_len"
  /\ p >= 4 => f.payload_offset = 6 /\ f.payload_len = Len(c.payload)
  /\ p \in {4, 5} => f.state = "sw_got_full_len"
  /\ p >= 6 => f.state = "sw_loaded_mask" /\ \A j \in 1..4 : f.mask[j] = c.key[j]

LEMMA StartingPart ==
  ASSUME NEW f, GoodFrame(f), NEW c
  PROVE  Starting(f) <=> PartOf(f, c, 0)
<1>1. f.raw \in Seq(Byte)
  BY DEF GoodFrame, Frame
<1>2. Starting(f) => PartOf(f, c, 0)
  <2>1. SUFFICES ASSUME Starting(f) PROVE PartOf(f, c, 0)
    OBVIOUS
  <2>2. f.state = "sw_start" /\ Len(f.raw) = 0
    BY <2>1 DEF Starting
  <2> QED BY <2>2 DEF PartOf
<1>3. PartOf(f, c, 0) => Starting(f)
  <2>1. SUFFICES ASSUME PartOf(f, c, 0) PROVE Starting(f)
    OBVIOUS
  <2>2. Len(f.raw) = 0 /\ f.state = "sw_start"
    BY <2>1 DEF PartOf
  <2>3. f.raw = <<>>
    BY <1>1, <2>2, EmptySeq
  <2> QED BY <2>2, <2>3 DEF Starting
<1> QED BY <1>2, <1>3

Longer(g, f, c, p, b) ==
  /\ Len(g.raw) = p + 1 /\ g.raw \in Seq(Byte) /\ g.state = f.state
  /\ g.mask_offset = f.mask_offset /\ g.fin = f.fin /\ g.opcode = f.opcode
  /\ g.payload_len_short = f.payload_len_short /\ g.payload_offset = f.payload_offset
  /\ g.payload_len = f.payload_len /\ g.mask = f.mask /\ g \in Frame
  /\ \A j \in 1..p : g.raw[j] = Encode(c)[j]
  /\ b = Encode(c)[p + 1] => \A j \in 1..p + 1 : g.raw[j] = Encode(c)[j]

LEMMA OneByteMore ==
  ASSUME NEW c, NEW p \in Nat, NEW f, GoodFrame(f), PartOf(f, c, p), NEW b \in Byte,
         NEW g, g = [f EXCEPT !.raw = Append(@, b)]
  PROVE  Longer(g, f, c, p, b)
<1>1. /\ g \in Frame /\ Len(f.raw) \in Nat /\ Len(g.raw) = Len(f.raw) + 1
      /\ g.state = f.state /\ g.mask_offset = f.mask_offset
      /\ g.raw = Append(f.raw, b) /\ g.raw \in Seq(Byte)
  BY LongerFrame
<1>2. /\ g.fin = f.fin /\ g.opcode = f.opcode /\ g.payload_len = f.payload_len
      /\ g.payload_len_short = f.payload_len_short /\ g.payload_offset = f.payload_offset
      /\ g.mask = f.mask
  BY DEF GoodFrame, Frame
<1>3. Len(f.raw) = p /\ \A j \in 1..p : f.raw[j] = Encode(c)[j]
  BY DEF PartOf
<1>4. f.raw \in Seq(Byte)
  BY DEF GoodFrame, Frame
<1>5. g.raw[p + 1] = b /\ \A j \in 1..p : g.raw[j] = f.raw[j]
  BY <1>1, <1>3, <1>4, AppendProperties
<1>6. \A j \in 1..p + 1 : j \in 1..p \/ j = p + 1
  OBVIOUS
<1> QED BY <1>1, <1>2, <1>3, <1>5, <1>6 DEF Longer

LEMMA ShortLength == \A n \in 0..125 : n <= 125 /\ n # 126 /\ n # 127 /\ n < 126
OBVIOUS

(* Each byte of a frame is taken for what it is, and a malformed frame is  *)
(* noticed at its third.                                                   *)
LEMMA ByteTakenPart ==
  ASSUME NEW c \in ClientFrame, NEW p \in Nat, p < Span(c),
         NEW f, GoodFrame(f), PartOf(f, c, p), NEW b \in Byte,
         p < 2 \/ ~Malformed(c) => b = Encode(c)[p + 1],
         NEW r, r = ByteTaken(f, b)
  PROVE  /\ Malformed(c) /\ p = 2 => r.result = -1
         /\ ~(Malformed(c) /\ p = 2) =>
              /\ PartOf(r.frame, c, p + 1)
              /\ p + 1 < 6 => r.result = 0
              /\ p + 1 >= 6 => r.result = 1
<1>1. PICK g : g = [f EXCEPT !.raw = Append(@, b)]
  OBVIOUS
<1>2. /\ Len(g.raw) = p + 1 /\ g.raw \in Seq(Byte) /\ g.state = f.state
      /\ g.mask_offset = f.mask_offset /\ g.fin = f.fin /\ g.opcode = f.opcode
      /\ g.payload_len_short = f.payload_len_short /\ g.payload_offset = f.payload_offset
      /\ g.payload_len = f.payload_len /\ g.mask = f.mask /\ g \in Frame
      /\ \A j \in 1..p : g.raw[j] = Encode(c)[j]
      /\ b = Encode(c)[p + 1] => \A j \in 1..p + 1 : g.raw[j] = Encode(c)[j]
  <2>1. Longer(g, f, c, p, b)
    BY <1>1, OneByteMore
  <2> QED BY <2>1 DEF Longer
<1>3. f.state # "sw_loaded_mask" => r = libwebsock_read_header(g)
  BY <1>1 DEF ByteTaken
<1>4. Len(c.payload) \in 0..125
  BY ClientFrameType
<1>5. ~Malformed(c) \/ p <= 2
  BY DEF Span
<1>6. CASE p < 2
  <2>1. f.state = "sw_start" /\ \A j \in 1..p + 1 : g.raw[j] = Encode(c)[j]
    BY <1>2, <1>6 DEF PartOf
  <2>2. CASE p = 0
    <3>1. r = [frame |-> g, result |-> 0]
      <4>1. Len(g.raw) < 2 /\ g.state = "sw_start"
        BY <1>2, <2>1, <2>2
      <4> QED BY <1>3, <2>1, <4>1 DEF libwebsock_read_header
    <3>2. r.frame = g /\ r.result = 0
      BY <3>1
    <3>3. PartOf(g, c, 1)
      BY <1>2, <2>1, <2>2 DEF PartOf
    <3> QED BY <2>2, <3>2, <3>3
  <2>3. CASE p = 1
    <3>1. PICK h : h = [g EXCEPT !.state = "sw_got_two"]
      OBVIOUS
    <3>2. r = [frame |-> h, result |-> 0]
      <4>1. ~(Len(g.raw) < 2) /\ g.state = "sw_start"
        BY <1>2, <2>1, <2>3
      <4> QED BY <1>3, <2>1, <3>1, <4>1 DEF libwebsock_read_header
    <3>3. r.frame = h /\ r.result = 0
      BY <3>2
    <3>4. h.state = "sw_got_two" /\ h.raw = g.raw
      BY <1>2, <3>1 DEF Frame
    <3>5. PartOf(h, c, 2)
      BY <1>2, <2>1, <2>3, <3>4 DEF PartOf
    <3> QED BY <2>3, <3>3, <3>5
  <2> QED BY <1>6, <2>2, <2>3
<1>7. CASE p = 2
  <2>1. f.state = "sw_got_two"
    BY <1>7 DEF PartOf
  <2>2. g.raw[1] = Encode(c)[1] /\ g.raw[2] = Encode(c)[2]
    BY <1>2, <1>7
  <2>3. /\ Reserved(g.raw[1]) = c.reserved /\ Bit(g.raw[2], 7) = c.masked
        /\ Bit(g.raw[1], 7) = c.fin /\ g.raw[1] % 16 = c.opcode
        /\ g.raw[2] % 128 = Len(c.payload)
    BY <2>2, HeaderBits
  <2>4. CASE Malformed(c)
    <3>1. Reserved(g.raw[1]) # 0 \/ Bit(g.raw[2], 7) = 0
      BY <2>3, <2>4 DEF Malformed
    <3>2. r = [frame |-> g, result |-> -1]
      BY <1>2, <1>3, <2>1, <3>1 DEF libwebsock_read_header
    <3>3. r.result = -1
      BY <3>2
    <3> QED BY <1>7, <2>4, <3>3
  <2>5. CASE ~Malformed(c)
    <3>1. ~(Reserved(g.raw[1]) # 0 \/ Bit(g.raw[2], 7) = 0)
      BY <2>3, <2>5 DEF Malformed
    <3>2. PICK h : h = [g EXCEPT !.mask_offset = 2,
                                 !.fin = Bit(g.raw[1], 7),
                                 !.opcode = g.raw[1] % 16,
                                 !.payload_len_short = g.raw[2] % 128,
                                 !.state = "sw_got_short_len"]
      OBVIOUS
    <3>3. r = [frame |-> h, result |-> 0]
      BY <1>2, <1>3, <2>1, <3>1, <3>2 DEF libwebsock_read_header
    <3>4. r.frame = h /\ r.result = 0
      BY <3>3
    <3>5. /\ h.mask_offset = 2 /\ h.fin = c.fin /\ h.opcode = c.opcode
          /\ h.payload_len_short = Len(c.payload) /\ h.state = "sw_got_short_len"
          /\ h.raw = g.raw
      BY <1>2, <2>3, <3>2 DEF Frame
    <3>6. \A j \in 1..3 : g.raw[j] = Encode(c)[j]
      BY <1>2, <1>7, <2>5
    <3>7. PartOf(h, c, 3)
      BY <1>2, <1>7, <3>5, <3>6 DEF PartOf
    <3> QED BY <1>7, <2>5, <3>4, <3>7
  <2> QED BY <2>4, <2>5
<1>8. CASE p > 2
  <2>1. ~Malformed(c) /\ \A j \in 1..p + 1 : g.raw[j] = Encode(c)[j]
    BY <1>2, <1>5, <1>8
  <2>2. /\ f.mask_offset = 2 /\ f.fin = c.fin /\ f.opcode = c.opcode
        /\ f.payload_len_short = Len(c.payload)
    BY <1>8 DEF PartOf
  <2>3. CASE p = 3
    <3>1. f.state = "sw_got_short_len"
      BY <2>3 DEF PartOf
    <3>2. PICK h : h = KnownLength(g, 0, g.payload_len_short)
      OBVIOUS
    <3>3. r = [frame |-> h, result |-> 0]
      <4>1. /\ g.payload_len_short # 126 /\ g.payload_len_short # 127
            /\ g.payload_len_short < 126
        <5>1. PICK n \in 0..125 : n = Len(c.payload)
          BY <1>4
        <5>2. g.payload_len_short = n
          BY <1>2, <2>2, <5>1
        <5>3. n # 126 /\ n # 127 /\ n < 126
          BY ShortLength
        <5> QED BY <5>2, <5>3, Zenon
      <4> QED BY <1>2, <1>3, <3>1, <3>2, <4>1 DEF libwebsock_read_header
    <3>4. r.frame = h /\ r.result = 0
      BY <3>3
    <3>5. /\ h.mask_offset = 2 /\ h.fin = c.fin /\ h.opcode = c.opcode
          /\ h.payload_len_short = Len(c.payload) /\ h.state = "sw_got_full_len"
          /\ h.payload_len = Len(c.payload) /\ h.payload_offset = 6
          /\ h.raw = g.raw
      BY <1>2, <2>2, <3>2 DEF KnownLength, Frame, MASK_LENGTH
    <3>6. PartOf(h, c, 4)
      BY <1>2, <2>1, <2>3, <3>5 DEF PartOf
    <3> QED BY <2>3, <3>4, <3>6
  <2>4. CASE p = 4
    <3>1. f.state = "sw_got_full_len" /\ f.payload_offset = 6 /\ f.payload_len = Len(c.payload)
      BY <2>4 DEF PartOf
    <3>2. ~(Len(g.raw) >= g.mask_offset + MASK_LENGTH)
      BY <1>2, <2>2, <2>4 DEF MASK_LENGTH
    <3>3. r = [frame |-> g, result |-> 0]
      BY <1>2, <1>3, <3>1, <3>2 DEF libwebsock_read_header
    <3>4. r.frame = g /\ r.result = 0
      BY <3>3
    <3>5. PartOf(g, c, 5)
      BY <1>2, <2>1, <2>2, <2>4, <3>1 DEF PartOf
    <3> QED BY <2>4, <3>4, <3>5
  <2>5. CASE p = 5
    <3>1. f.state = "sw_got_full_len" /\ f.payload_offset = 6 /\ f.payload_len = Len(c.payload)
      BY <2>5 DEF PartOf
    <3>2. Len(g.raw) >= g.mask_offset + MASK_LENGTH
      BY <1>2, <2>2, <2>5 DEF MASK_LENGTH
    <3>3. PICK mask : mask = SubSeq(g.raw, 3, 6)
      OBVIOUS
    <3>4. PICK h : h = [g EXCEPT !.mask = mask, !.state = "sw_loaded_mask"]
      OBVIOUS
    <3>5. g.mask_offset + 1 = 3 /\ g.mask_offset + MASK_LENGTH = 6
      BY <1>2, <2>2 DEF MASK_LENGTH
    <3>6. r = [frame |-> h, result |-> 1]
      BY <1>2, <1>3, <3>1, <3>2, <3>3, <3>4, <3>5 DEF libwebsock_read_header
    <3>7. r.frame = h /\ r.result = 1
      BY <3>6
    <3>8. /\ h.mask_offset = 2 /\ h.fin = c.fin /\ h.opcode = c.opcode
          /\ h.payload_len_short = Len(c.payload) /\ h.state = "sw_loaded_mask"
          /\ h.payload_len = Len(c.payload) /\ h.payload_offset = 6
          /\ h.raw = g.raw /\ h.mask = mask
      BY <1>2, <2>2, <3>1, <3>4 DEF Frame
    <3>9. \A j \in 1..4 : mask[j] = c.key[j]
      <4>1. TAKE j \in 1..4
      <4>2. Len(g.raw) = 6 /\ g.raw \in Seq(Byte)
        BY <1>2, <2>5
      <4>3. mask[j] = g.raw[2 + j]
        <5>1. PICK q : q = g.raw
          OBVIOUS
        <5>2. q \in Seq(Byte) /\ Len(q) = 6 /\ mask = SubSeq(q, 3, 6)
          BY <3>3, <4>2, <5>1
        <5>3. mask[j] = q[3 + j - 1]
          BY <5>2
        <5>4. 3 + j - 1 = 2 + j
          OBVIOUS
        <5> QED BY <5>1, <5>3, <5>4
      <4>4. 2 + j \in 1..p + 1
        BY <2>5
      <4>5. c.masked = 1
        BY <2>1, SpanLemma
      <4> QED BY <2>1, <4>3, <4>4, <4>5, EncodeBytes
    <3>10. PartOf(h, c, 6)
      BY <1>2, <2>1, <2>5, <3>8, <3>9 DEF PartOf
    <3> QED BY <2>5, <3>7, <3>10
  <2>6. CASE p >= 6
    <3>1. /\ f.state = "sw_loaded_mask" /\ \A j \in 1..4 : f.mask[j] = c.key[j]
          /\ f.payload_offset = 6 /\ f.payload_len = Len(c.payload)
      BY <2>6 DEF PartOf
    <3>2. r = [frame |-> g, result |-> 1]
      BY <1>1, <3>1 DEF ByteTaken
    <3>3. r.frame = g /\ r.result = 1
      BY <3>2
    <3>4. PartOf(g, c, p + 1)
      BY <1>2, <2>1, <2>2, <2>6, <3>1 DEF PartOf
    <3> QED BY <2>6, <3>3, <3>4
  <2> QED BY <1>8, <2>3, <2>4, <2>5, <2>6
<1> QED BY <1>6, <1>7, <1>8

(* When all its bytes are there, it says what the client said.             *)
LEMMA WholeFrame ==
  ASSUME NEW c \in ClientFrame, ~Malformed(c), NEW p \in Nat, p <= Size(c), p >= 6,
         NEW f, GoodFrame(f), PartOf(f, c, p)
  PROVE  /\ Complete(f) <=> p = Size(c)
         /\ p = Size(c) => /\ f.fin = c.fin /\ f.opcode = c.opcode
                           /\ f.payload_len = Len(c.payload) /\ f.state = "sw_loaded_mask"
                           /\ Unmasked(f) = c.payload
<1>1. /\ f.fin = c.fin /\ f.opcode = c.opcode /\ f.payload_offset = 6
      /\ f.payload_len = Len(c.payload) /\ f.state = "sw_loaded_mask"
      /\ Len(f.raw) = p /\ \A j \in 1..4 : f.mask[j] = c.key[j]
      /\ \A j \in 1..p : f.raw[j] = Encode(c)[j]
  BY DEF PartOf
<1>2. /\ Size(c) = 6 + Len(c.payload) /\ c.masked = 1 /\ Len(c.payload) \in Nat
      /\ c.payload \in Seq(Byte) /\ c.key \in [1..4 -> Byte]
  BY SpanLemma, ClientFrameType
<1>3. Complete(f) <=> p = Size(c)
  BY <1>1, <1>2 DEF Complete
<1>4. ASSUME p = Size(c) PROVE Unmasked(f) = c.payload
  <2>1. PICK n \in Nat, q \in Seq(Byte) : n = Len(c.payload) /\ q = c.payload
    BY <1>2
  <2>2. ASSUME NEW i \in 1..n
        PROVE  Xor(f.raw[f.payload_offset + i], f.mask[((i - 1) % MASK_LENGTH) + 1]) = q[i]
    <3>1. PICK j \in 1..4 : j = ((i - 1) % 4) + 1
      OBVIOUS
    <3>2. 6 + i \in 1..p
      BY <1>2, <1>4, <2>1
    <3>3. f.raw[6 + i] = Xor(q[i], c.key[j])
      BY <1>1, <1>2, <2>1, <3>1, <3>2, EncodeBytes
    <3>4. q[i] \in Byte /\ c.key[j] \in Byte
      BY <1>2, <2>1, ElementOfSeq
    <3>5. Xor(Xor(q[i], c.key[j]), c.key[j]) = q[i]
      BY <3>4, XorLemma
    <3>6. f.payload_offset + i = 6 + i
      BY <1>1
    <3>7. f.mask[j] = c.key[j]
      BY <1>1
    <3> QED BY <3>1, <3>3, <3>5, <3>6, <3>7 DEF MASK_LENGTH
  <2>3. Unmasked(f) = [i \in 1..n |-> q[i]]
    BY <1>1, <2>1, <2>2 DEF Unmasked
  <2>4. q = [i \in 1..n |-> q[i]]
    BY <1>2, <2>1
  <2> QED BY <2>1, <2>3, <2>4
<1> QED BY <1>1, <1>3, <1>4

-----------------------------------------------------------------------------
(* What the functions of the library do to the calls *)

LEMMA WrittenCalls ==
  ASSUME NEW s, DOMAIN s = Fields, NEW bytes, NEW t, t = Written(s, bytes)
  PROVE  DOMAIN t = Fields /\ t.calls = s.calls /\ t.flags = s.flags /\ t.frames = s.frames
BY DEF Written, Fields

LEMMA FailCalls ==
  ASSUME NEW s, DOMAIN s = Fields, NEW code, NEW t, t = libwebsock_fail_connection(s, code)
  PROVE  /\ DOMAIN t = Fields /\ t.calls = s.calls /\ t.frames = s.frames
         /\ t.flags = s.flags \cup {"SHOULD_CLOSE"}
<1>1. PICK u : u = Written(s, CloseFrame(code))
  OBVIOUS
<1>2. DOMAIN u = Fields /\ u.calls = s.calls /\ u.flags = s.flags /\ u.frames = s.frames
  BY <1>1, WrittenCalls
<1>3. t = [u EXCEPT !.flags = @ \cup {"SHOULD_CLOSE"}]
  BY <1>1 DEF libwebsock_fail_connection
<1> QED BY <1>2, <1>3 DEF Fields

LEMMA CloseCalls ==
  ASSUME NEW s, DOMAIN s = Fields, NEW payload, NEW t, t = CloseReceived(s, payload)
  PROVE  DOMAIN t = Fields /\ t.calls = s.calls
<1>1. PICK u : u = Closing(s, payload)
  OBVIOUS
<1>2. DOMAIN u = Fields /\ u.calls = s.calls
  BY <1>1 DEF Closing, Fields
<1>3. t = u \/ t = Written(u, libwebsock_send_fragment(WS_OPCODE_CLOSE,
                                CloseAnswer(u.close_info, payload)))
  BY <1>1 DEF CloseReceived
<1> QED BY <1>2, <1>3, WrittenCalls

LEMMA FramesCalls ==
  ASSUME NEW s, DOMAIN s = Fields, NEW frames, NEW t, t = [s EXCEPT !.frames = frames]
  PROVE  DOMAIN t = Fields /\ t.calls = s.calls /\ t.flags = s.flags /\ t.frames = frames
BY DEF Fields

LEMMA FlagsCalls ==
  ASSUME NEW s, DOMAIN s = Fields, NEW flags, NEW t, t = [s EXCEPT !.flags = flags]
  PROVE  DOMAIN t = Fields /\ t.calls = s.calls /\ t.flags = flags /\ t.frames = s.frames
BY DEF Fields

(* The frame of a control frame starts again in its place.                 *)
LEMMA ControlCalls ==
  ASSUME NEW s, DOMAIN s = Fields, NEW f \in Frame,
         NEW t, t = libwebsock_handle_control_frame(s, f)
  PROVE  /\ DOMAIN t = Fields /\ t.calls = s.calls
         /\ \E h : Starting(h) /\ t.frames = Append(Front(s.frames), h)
         /\ f.payload_len <= 125 /\ f.opcode \in {WS_OPCODE_PING, WS_OPCODE_PONG} =>
              t.flags = s.flags
<1>1. PICK u : u = libwebsock_default_control_callback(s, f)
  OBVIOUS
<1>2. PICK shift : shift = IF f.payload_len > 125 THEN 0 ELSE 4
  OBVIOUS
<1>3. PICK h : h = [f EXCEPT !.payload_offset = @ - shift, !.state = "sw_start", !.raw = <<>>]
  OBVIOUS
<1>4. Starting(h)
  BY <1>3 DEF Starting, Frame
<1>5. PICK frames : frames = Append(Front(s.frames), h)
  OBVIOUS
<1>6. t = [u EXCEPT !.frames = frames]
  BY <1>1, <1>2, <1>3, <1>5 DEF libwebsock_handle_control_frame
<1>7. PICK v, w, x : /\ v = libwebsock_fail_connection(s, PROTOCOL_ERROR)
                     /\ w = CloseReceived(s, Unmasked(f))
                     /\ x = Written(s, libwebsock_send_fragment(WS_OPCODE_PONG, Unmasked(f)))
  OBVIOUS
<1>8. /\ DOMAIN v = Fields /\ v.calls = s.calls
      /\ DOMAIN w = Fields /\ w.calls = s.calls
      /\ DOMAIN x = Fields /\ x.calls = s.calls /\ x.flags = s.flags
  <2>1. DOMAIN v = Fields /\ v.calls = s.calls
    BY <1>7, FailCalls
  <2>2. DOMAIN w = Fields /\ w.calls = s.calls
    BY <1>7, CloseCalls
  <2>3. DOMAIN x = Fields /\ x.calls = s.calls /\ x.flags = s.flags
    BY <1>7, WrittenCalls
  <2> QED BY <2>1, <2>2, <2>3
<1>9. u \in {v, w, x, s}
  BY <1>1, <1>7 DEF libwebsock_default_control_callback
<1>10. DOMAIN u = Fields /\ u.calls = s.calls
  BY <1>8, <1>9
<1>11. ASSUME f.payload_len <= 125, f.opcode \in {WS_OPCODE_PING, WS_OPCODE_PONG}
       PROVE  u.flags = s.flags
  <2>1. f.payload_len \in Int
    BY DEF Frame
  <2>2. ~(f.payload_len > 125)
    BY <1>11, <2>1
  <2>3. u \in {x, s}
    BY <1>1, <1>7, <1>11, <2>2
    DEF libwebsock_default_control_callback, WS_OPCODE_PING, WS_OPCODE_PONG, WS_OPCODE_CLOSE
  <2> QED BY <1>8, <2>3
<1>12. DOMAIN t = Fields /\ t.calls = u.calls /\ t.flags = u.flags /\ t.frames = frames
  BY <1>6, <1>10, FramesCalls
<1> QED BY <1>4, <1>5, <1>10, <1>11, <1>12

LEMMA MessageCalls ==
  ASSUME NEW s, DOMAIN s = Fields, NEW opcode, NEW payload, NEW t, t = onmessage(s, opcode, payload)
  PROVE  /\ DOMAIN t = Fields /\ t.flags = s.flags /\ t.frames = s.frames
         /\ t.calls = Append(s.calls, <<"onmessage", opcode, payload>>)
<1>1. PICK calls : calls = Append(s.calls, <<"onmessage", opcode, payload>>)
  OBVIOUS
<1>2. PICK u : u = [s EXCEPT !.calls = calls]
  OBVIOUS
<1>3. DOMAIN u = Fields /\ u.flags = s.flags /\ u.frames = s.frames /\ u.calls = calls
  BY <1>2 DEF Fields
<1>4. u = [s EXCEPT !.calls = Append(@, <<"onmessage", opcode, payload>>)]
  BY <1>1, <1>2
<1>5. t = Written(u, libwebsock_send_fragment(WS_OPCODE_TEXT, UpToZero(payload)))
  BY <1>4 DEF onmessage
<1> QED BY <1>1, <1>3, <1>5, WrittenCalls

Payloads(q) == FlattenSeq([i \in DOMAIN q |-> Unmasked(q[i])])

LEMMA DispatchCalls ==
  ASSUME NEW s, DOMAIN s = Fields, NEW t, t = libwebsock_dispatch_message(s),
         NEW opcode, opcode = s.frames[1].opcode, NEW payload, payload = Payloads(s.frames)
  PROVE  /\ DOMAIN t = Fields
         /\ opcode = WS_OPCODE_TEXT /\ ~validate_utf8_sequence(payload) => t.calls = s.calls
         /\ ~(opcode = WS_OPCODE_TEXT /\ ~validate_utf8_sequence(payload)) =>
              /\ t.calls = Append(s.calls, <<"onmessage", opcode, payload>>)
              /\ t.flags = s.flags /\ t.frames = <<>>
<1>1. PICK none : none = <<>>
  OBVIOUS
<1>2. PICK gone : gone = [s EXCEPT !.frames = none]
  OBVIOUS
<1>3. DOMAIN gone = Fields /\ gone.calls = s.calls /\ gone.flags = s.flags /\ gone.frames = none
  BY <1>2, FramesCalls
<1>4. t = IF opcode = WS_OPCODE_TEXT /\ ~validate_utf8_sequence(payload)
          THEN libwebsock_fail_connection(gone, WRONG_TYPE)
          ELSE onmessage(gone, opcode, payload)
  BY <1>1, <1>2 DEF libwebsock_dispatch_message, Payloads
<1>5. CASE opcode = WS_OPCODE_TEXT /\ ~validate_utf8_sequence(payload)
  <2>1. t = libwebsock_fail_connection(gone, WRONG_TYPE)
    BY <1>4, <1>5
  <2>2. DOMAIN t = Fields /\ t.calls = gone.calls
    BY <1>3, <2>1, FailCalls
  <2> QED BY <1>3, <1>5, <2>2
<1>6. CASE ~(opcode = WS_OPCODE_TEXT /\ ~validate_utf8_sequence(payload))
  <2>1. t = onmessage(gone, opcode, payload)
    BY <1>4, <1>6
  <2>2. /\ DOMAIN t = Fields /\ t.flags = gone.flags /\ t.frames = gone.frames
        /\ t.calls = Append(gone.calls, <<"onmessage", opcode, payload>>)
    BY <1>3, <2>1, MessageCalls
  <2> QED BY <1>1, <1>3, <1>6, <2>2
<1> QED BY <1>5, <1>6

(* However it ends, a frame makes one call at most.                        *)
OneCallMore(s, t) ==
  /\ DOMAIN t = Fields
  /\ t.calls = s.calls \/ \E call : t.calls = Append(s.calls, call)

LEMMA ActCalls ==
  ASSUME NEW s, DOMAIN s = Fields, NEW f \in Frame, NEW t, t = libwebsock_frame_act(s, f)
  PROVE  /\ OneCallMore(s, t)
         /\ f.opcode \notin {WS_OPCODE_TEXT, WS_OPCODE_BINARY, WS_OPCODE_CONTINUE} =>
              t.calls = s.calls
<1>1. PICK u, v, w : /\ u = libwebsock_handle_control_frame(s, f)
                     /\ v = libwebsock_dispatch_message(s)
                     /\ w = libwebsock_fail_connection(s, PROTOCOL_ERROR)
  OBVIOUS
<1>2. DOMAIN u = Fields /\ u.calls = s.calls
  BY <1>1, ControlCalls
<1>3. OneCallMore(s, v)
  <2>1. PICK opcode, payload : opcode = s.frames[1].opcode /\ payload = Payloads(s.frames)
    OBVIOUS
  <2> QED BY <1>1, <2>1, DispatchCalls DEF OneCallMore
<1>4. DOMAIN w = Fields /\ w.calls = s.calls
  BY <1>1, FailCalls
<1>5. t \in {u, v, w}
      /\ (f.opcode \notin {WS_OPCODE_TEXT, WS_OPCODE_BINARY, WS_OPCODE_CONTINUE} => t \in {u, w})
  BY <1>1 DEF libwebsock_frame_act
<1> QED BY <1>2, <1>3, <1>4, <1>5 DEF OneCallMore

LEMMA CompleteCalls ==
  ASSUME NEW s, DOMAIN s = Fields, NEW f \in Frame, NEW t, t = FrameComplete(s, f)
  PROVE  OneCallMore(s, t)
<1>1. PICK flags : flags = s.flags \ {"RECEIVING_FRAGMENT"}
  OBVIOUS
<1>2. PICK u : u = [s EXCEPT !.flags = flags]
  OBVIOUS
<1>3. DOMAIN u = Fields /\ u.calls = s.calls
  BY <1>2, FlagsCalls
<1>4. PICK frames : frames = Append(s.frames, ZeroFrame)
  OBVIOUS
<1>5. PICK c : c = Chained(s)
  OBVIOUS
<1>6. DOMAIN c = Fields /\ c.calls = s.calls
  <2>1. c = [s EXCEPT !.frames = frames]
    BY <1>4, <1>5 DEF Chained
  <2> QED BY <2>1, FramesCalls
<1>7. PICK more : more = c.flags \cup {"RECEIVING_FRAGMENT"}
  OBVIOUS
<1>8. PICK d : d = [c EXCEPT !.flags = more]
  OBVIOUS
<1>9. DOMAIN d = Fields /\ d.calls = s.calls
  BY <1>6, <1>8, FlagsCalls
<1>10. PICK x, y, z : /\ x = libwebsock_frame_act(s, f) /\ y = libwebsock_frame_act(u, f)
                      /\ z = libwebsock_fail_connection(s, PROTOCOL_ERROR)
  OBVIOUS
<1>11. OneCallMore(s, x) /\ OneCallMore(u, y)
  BY <1>3, <1>10, ActCalls
<1>12. DOMAIN z = Fields /\ z.calls = s.calls
  BY <1>10, FailCalls
<1>13. t \in {x, y, c, d, z}
  <2>1. u = [s EXCEPT !.flags = @ \ {"RECEIVING_FRAGMENT"}]
    BY <1>1, <1>2
  <2>2. d = [c EXCEPT !.flags = @ \cup {"RECEIVING_FRAGMENT"}]
    BY <1>7, <1>8
  <2> QED BY <1>5, <1>10, <2>1, <2>2 DEF FrameComplete
<1> QED BY <1>3, <1>6, <1>9, <1>11, <1>12, <1>13 DEF OneCallMore

-----------------------------------------------------------------------------
(* The chain of frames, and the fragments before the current one *)

LEMMA FrontOf ==
  ASSUME NEW E, NEW q \in Seq(E), NEW e \in E, NEW r, r = Append(q, e)
  PROVE  r # <<>> /\ Front(r) = q /\ Last(r) = e
<1>1. PICK n \in Nat : n = Len(q)
  BY LenProperties
<1>2. r \in Seq(E) /\ Len(r) = n + 1 /\ r[n + 1] = e /\ \A i \in 1..n : r[i] = q[i]
  BY <1>1, AppendProperties
<1>3. PICK p : p = SubSeq(r, 1, n)
  OBVIOUS
<1>4. p \in Seq(E) /\ Len(p) = n /\ \A i \in 1..n : p[i] = r[i]
  BY <1>2, <1>3
<1>5. p = q
  BY <1>1, <1>2, <1>4, SeqEqual
<1>6. Len(r) - 1 = n
  BY <1>2
<1>7. r # <<>>
  BY <1>2
<1> QED BY <1>2, <1>3, <1>5, <1>6, <1>7 DEF Front, Last

LEMMA FrontAndLast ==
  ASSUME NEW E, NEW q \in Seq(E), q # <<>>
  PROVE  /\ Front(q) \in Seq(E) /\ q = Append(Front(q), q[Len(q)]) /\ q[Len(q)] \in E
         /\ Len(q) \in Nat /\ Len(q) > 0 /\ Len(Front(q)) = Len(q) - 1
         /\ Last(q) = q[Len(q)]
<1>1. PICK n \in Nat : Len(q) = n + 1
  <2>1. Len(q) \in Nat /\ Len(q) # 0
    BY LenProperties, EmptySeq
  <2>2. Len(q) - 1 \in Nat /\ Len(q) = (Len(q) - 1) + 1
    BY <2>1
  <2> QED BY <2>2
<1>2. \A i \in 1..n + 1 : q[i] \in E
  BY <1>1, ElementOfSeq
<1>3. PICK p : p = SubSeq(q, 1, n)
  OBVIOUS
<1>4. p \in Seq(E) /\ Len(p) = n /\ \A i \in 1..n : p[i] = q[i]
  BY <1>1, <1>2, <1>3
<1>5. PICK r : r = Append(p, q[n + 1])
  OBVIOUS
<1>6. q[n + 1] \in E
  BY <1>2
<1>7. r \in Seq(E) /\ Len(r) = n + 1 /\ r[n + 1] = q[n + 1] /\ \A i \in 1..n : r[i] = p[i]
  BY <1>4, <1>5, <1>6, AppendProperties
<1>8. \A i \in 1..n + 1 : r[i] = q[i]
  <2>1. \A i \in 1..n + 1 : i \in 1..n \/ i = n + 1
    OBVIOUS
  <2> QED BY <1>4, <1>7, <2>1
<1>9. r = q
  BY <1>1, <1>7, <1>8, SeqEqual
<1>10. Len(q) - 1 = n
  BY <1>1
<1>11. Front(q) = p
  BY <1>3, <1>10 DEF Front
<1> QED BY <1>1, <1>4, <1>5, <1>6, <1>9, <1>10, <1>11 DEF Last

Behind(s) == IF s.frames = <<>> THEN <<>> ELSE Front(s.frames)

(* Frames with their payloads. *)
Whole(q) == q \in Seq(Frame) /\ \A i \in 1..Len(q) : Unmasked(q[i]) \in Seq(Byte)

LEMMA NoPayloads == Whole(<<>>) /\ Payloads(<<>>) = <<>>
<1>1. PICK none : none = <<>>
  OBVIOUS
<1>2. none \in Seq(Frame) /\ Len(none) = 0
  BY <1>1, EmptySeq
<1>3. Whole(none)
  BY <1>2 DEF Whole
<1>4. [i \in DOMAIN none |-> Unmasked(none[i])] = none
  BY <1>1
<1>5. Payloads(none) = none
  BY <1>1, <1>4, FlattenEmpty DEF Payloads
<1> QED BY <1>1, <1>3, <1>5

LEMMA PayloadsAppend ==
  ASSUME NEW q, Whole(q), NEW f \in Frame, Unmasked(f) \in Seq(Byte), NEW r, r = Append(q, f)
  PROVE  /\ Whole(r) /\ Payloads(r) = Payloads(q) \o Unmasked(f) /\ Payloads(q) \in Seq(Byte)
         /\ r # <<>> /\ r[1] = IF q = <<>> THEN f ELSE q[1]
<1>1. PICK n \in Nat : n = Len(q)
  BY LenProperties DEF Whole
<1>2. q \in Seq(Frame) /\ DOMAIN q = 1..n /\ \A i \in 1..n : Unmasked(q[i]) \in Seq(Byte)
  BY <1>1, LenProperties DEF Whole
<1>3. /\ r \in Seq(Frame) /\ Len(r) = n + 1 /\ r[n + 1] = f /\ DOMAIN r = 1..n + 1
      /\ \A i \in 1..n : r[i] = q[i]
  BY <1>1, <1>2, AppendProperties, LenProperties
<1>4. \A i \in 1..n + 1 : i \in 1..n \/ i = n + 1
  OBVIOUS
<1>5. Whole(r)
  BY <1>2, <1>3, <1>4 DEF Whole
<1>6. PICK e : e = Unmasked(f)
  OBVIOUS
<1> DEFINE u == [i \in DOMAIN q |-> Unmasked(q[i])]
           v == [i \in DOMAIN r |-> Unmasked(r[i])]
<1>7. u \in Seq(Seq(Byte)) /\ Len(u) = n /\ \A i \in 1..n : u[i] = Unmasked(q[i])
  <2>1. u \in [1..n -> Seq(Byte)] /\ \A i \in 1..n : u[i] = Unmasked(q[i])
    BY <1>2
  <2> HIDE DEF u
  <2> QED BY <2>1
<1>8. v \in Seq(Seq(Byte)) /\ Len(v) = n + 1 /\ \A i \in 1..n + 1 : v[i] = Unmasked(r[i])
  <2>1. \A i \in 1..n + 1 : Unmasked(r[i]) \in Seq(Byte)
    BY <1>2, <1>3, <1>4
  <2>2. v \in [1..n + 1 -> Seq(Byte)] /\ \A i \in 1..n + 1 : v[i] = Unmasked(r[i])
    BY <1>3, <2>1
  <2> HIDE DEF v
  <2>3. v \in Seq(Seq(Byte)) /\ Len(v) = n + 1
    <3>1. PICK m \in Nat : m = n + 1
      OBVIOUS
    <3>2. v \in [1..m -> Seq(Byte)]
      BY <2>2, <3>1
    <3>3. v \in Seq(Seq(Byte)) /\ Len(v) = m
      BY <3>2
    <3> QED BY <3>1, <3>3
  <2> QED BY <2>2, <2>3
<1>9. Payloads(q) = FlattenSeq(u) /\ Payloads(r) = FlattenSeq(v)
  BY DEF Payloads
<1> HIDE DEF u, v
<1>10. PICK w : w = Append(u, e)
  OBVIOUS
<1>11. w \in Seq(Seq(Byte)) /\ Len(w) = n + 1 /\ w[n + 1] = e /\ \A i \in 1..n : w[i] = u[i]
  BY <1>6, <1>7, <1>10, AppendProperties
<1>12. w = v
  <2>1. \A i \in 1..n + 1 : w[i] = v[i]
    BY <1>3, <1>4, <1>6, <1>7, <1>8, <1>11
  <2> QED BY <1>8, <1>11, <2>1, SeqEqual
<1>13. FlattenSeq(Append(u, e)) = FlattenSeq(u) \o e /\ FlattenSeq(u) \in Seq(Byte)
  BY <1>6, <1>7, FlattenAppend, FlattenType
<1>14. r # <<>> /\ r[1] = IF q = <<>> THEN f ELSE q[1]
  <2>1. CASE q = <<>>
    <3>1. n = 0
      BY <1>1, <2>1
    <3> QED BY <1>3, <2>1, <3>1
  <2>2. CASE q # <<>>
    <3>1. n # 0
      BY <1>1, <1>2, <2>2, EmptySeq
    <3>2. 1 \in 1..n
      BY <3>1
    <3> QED BY <1>3, <2>2, <3>2
  <2> QED BY <2>1, <2>2
<1> QED BY <1>5, <1>6, <1>9, <1>10, <1>12, <1>13, <1>14

-----------------------------------------------------------------------------
(* A connection that has heard what its client said so far *)

Agrees(s, h) ==
  /\ ~Is(s, "SHOULD_CLOSE")
  /\ Is(s, "RECEIVING_FRAGMENT") <=> h.opcode # 0
  /\ s.calls = h.calls
  /\ Whole(Behind(s)) /\ h.parts = Payloads(Behind(s))
  /\ Behind(s) = <<>> <=> h.opcode = 0
  /\ Behind(s) # <<>> => Behind(s)[1].opcode = h.opcode

(* Nothing said is lost, and nothing is heard twice, when a frame is       *)
(* complete.  One that ends the connection may still be delivered: a text  *)
(* that is none only behind a zero.                                        *)
Answered(t, g) ==
  /\ t.calls = g.calls \/ (g.ended /\ \E call : t.calls = Append(g.calls, call))
  /\ ~g.ended => Agrees(t, g) /\ Starting(Current(t))

(* Nothing more is heard, or a message is.                                 *)
Stopped(g, h) == g.ended /\ g.calls = h.calls

Spoken(g, h, opcode, payload) ==
  /\ g.opcode = 0 /\ g.parts = <<>>
  /\ g.calls = Append(h.calls, <<"onmessage", opcode, payload>>)

LEMMA EndedCalls ==
  ASSUME NEW h \in Hearings, NEW answer
  PROVE  Stopped(Ended(h, answer), h)
<1>1. PICK a : a = <<answer>>
  OBVIOUS
<1>2. PICK g : g = [h EXCEPT !.ended = TRUE, !.answer = a]
  OBVIOUS
<1>3. g = Ended(h, answer)
  BY <1>1, <1>2 DEF Ended
<1>4. g.ended /\ g.calls = h.calls
  BY <1>2 DEF Hearings
<1> QED BY <1>3, <1>4 DEF Stopped

LEMMA MessageStops ==
  ASSUME NEW h \in Hearings, NEW opcode, NEW payload,
         opcode = WS_OPCODE_TEXT, ~WellFormed(payload)
  PROVE  Stopped(Message(h, opcode, payload), h)
<1>1. Message(h, opcode, payload) = Ended(h, CloseFrame(WRONG_TYPE))
  BY DEF Message
<1> QED BY <1>1, EndedCalls

LEMMA MessageSpeaks ==
  ASSUME NEW h \in Hearings, NEW opcode, NEW payload,
         ~(opcode = WS_OPCODE_TEXT /\ ~WellFormed(payload))
  PROVE  Spoken(Message(h, opcode, payload), h, opcode, payload)
<1>1. PICK call, none : call = <<"onmessage", opcode, payload>> /\ none = <<>>
  OBVIOUS
<1>2. PICK calls, written : /\ calls = Append(h.calls, call)
                            /\ written = Append(h.written,
                                               Header(WS_OPCODE_TEXT, Len(payload)) \o payload)
  OBVIOUS
<1>3. PICK g : g = Message(h, opcode, payload)
  OBVIOUS
<1>4. g = [h EXCEPT !.opcode = 0, !.parts = none, !.calls = calls, !.written = written]
  BY <1>1, <1>2, <1>3 DEF Message, Hearings
<1>5. g.opcode = 0 /\ g.parts = none /\ g.calls = calls
  BY <1>4 DEF Hearings
<1> QED BY <1>1, <1>2, <1>3, <1>5 DEF Spoken

LEMMA AloneAgrees ==
  ASSUME NEW h \in Hearings, ~h.ended, NEW c \in ClientFrame, Alone(c), NEW g, g = Heard(h, c),
         NEW s, DOMAIN s = Fields, s.frames \in Seq(Frame), s.frames # <<>>, Agrees(s, h),
         NEW f \in Frame, f.opcode = c.opcode, f.payload_len = Len(c.payload),
         NEW t, t = libwebsock_handle_control_frame(s, f)
  PROVE  Answered(t, g)
<1>1. s.calls = h.calls
  BY DEF Agrees
<1>2. PICK e : Starting(e) /\ t.frames = Append(Front(s.frames), e)
  BY ControlCalls
<1>3. /\ t.calls = s.calls
      /\ f.payload_len <= 125 /\ f.opcode \in {WS_OPCODE_PING, WS_OPCODE_PONG} =>
           t.flags = s.flags
  BY ControlCalls
<1>4. f.payload_len <= 125
  <2>1. Len(c.payload) \in 0..125
    BY ClientFrameType
  <2> QED BY <2>1, ShortLength
<1>5. CASE c.opcode = WS_OPCODE_CLOSE
  <2>1. PICK answer : /\ Heard(h, c) = Ended(h, answer)
                      /\ answer = <<136, Len(c.payload)>> \o AnswerToClose(c.payload)
    BY <1>5, HeardCases
  <2>2. Stopped(g, h)
    BY <2>1, EndedCalls
  <2> QED BY <1>1, <1>3, <2>2 DEF Answered, Stopped
<1>6. CASE c.opcode \in {WS_OPCODE_PING, WS_OPCODE_PONG}
  <2>1. g.opcode = h.opcode /\ g.parts = h.parts /\ g.calls = h.calls
    <3>1. CASE c.opcode = WS_OPCODE_PING
      <4>1. PICK written : written = Append(h.written, <<138, Len(c.payload)>> \o c.payload)
        OBVIOUS
      <4>2. g = [h EXCEPT !.written = Append(@, <<138, Len(c.payload)>> \o c.payload)]
        BY <3>1, HeardCases
      <4>3. g = [h EXCEPT !.written = written]
        BY <4>1, <4>2 DEF Hearings
      <4> QED BY <4>3 DEF Hearings
    <3>2. CASE c.opcode = WS_OPCODE_PONG
      <4>1. g = h
        BY <3>2, HeardCases
      <4> QED BY <4>1
    <3> QED BY <1>6, <3>1, <3>2
  <2>2. t.flags = s.flags
    BY <1>3, <1>4, <1>6
  <2>3. PICK E : E = Frame \cup {e}
    OBVIOUS
  <2>4. PICK q : q = Front(s.frames)
    OBVIOUS
  <2>5. q \in Seq(Frame)
    BY <2>4, FrontAndLast
  <2>6. q \in Seq(E) /\ e \in E
    BY <2>3, <2>5, SeqMonotonic
  <2>7. t.frames # <<>> /\ Front(t.frames) = q /\ Last(t.frames) = e
    BY <1>2, <2>4, <2>6, FrontOf
  <2>8. Behind(t) = Behind(s) /\ Current(t) = e
    BY <2>4, <2>7 DEF Behind, Current
  <2> QED BY <1>1, <1>2, <1>3, <2>1, <2>2, <2>8 DEF Answered, Agrees, Is
<1>7. c.opcode \in {WS_OPCODE_CLOSE, WS_OPCODE_PING, WS_OPCODE_PONG}
  BY DEF Alone, WS_OPCODE_CLOSE, WS_OPCODE_PING, WS_OPCODE_PONG
<1> QED BY <1>5, <1>6, <1>7

LEMMA StartingFrames == Starting(ZeroFrame) /\ Starting(FirstFrame)
BY DEF Starting, ZeroFrame, FirstFrame

Called(t, s, opcode, payload) ==
  /\ t.calls = Append(s.calls, <<"onmessage", opcode, payload>>)
  /\ t.flags = s.flags /\ t.frames = <<>>

LEMMA DispatchCalled ==
  ASSUME NEW s, DOMAIN s = Fields, NEW t, t = libwebsock_dispatch_message(s),
         NEW opcode, opcode = s.frames[1].opcode, NEW payload, payload = Payloads(s.frames),
         ~(opcode = WS_OPCODE_TEXT /\ ~validate_utf8_sequence(payload))
  PROVE  Called(t, s, opcode, payload)
BY DispatchCalls DEF Called

(* The message ends with the frame.                                        *)
LEMMA DispatchAgrees ==
  ASSUME NEW h \in Hearings, NEW opcode \in 0..15, NEW payload \in Seq(Byte),
         NEW g, g = Message(h, opcode, payload), ~h.ended,
         NEW s, DOMAIN s = Fields, ~Is(s, "SHOULD_CLOSE"), ~Is(s, "RECEIVING_FRAGMENT"),
         s.calls = h.calls, s.frames[1].opcode = opcode, Payloads(s.frames) = payload,
         NEW t, t = libwebsock_dispatch_message(s)
  PROVE  Answered(t, g)
<1>1. WellFormed(payload) => validate_utf8_sequence(payload)
  BY ValidLemma, WellFormedText
<1>2. PICK o, p : o = s.frames[1].opcode /\ p = Payloads(s.frames)
  OBVIOUS
<1>3. o = opcode /\ p = payload
  BY <1>2
<1>4. CASE opcode = WS_OPCODE_TEXT /\ ~validate_utf8_sequence(payload)
  <2>1. Stopped(g, h)
    BY <1>1, <1>4, MessageStops
  <2>2. t.calls = s.calls
    BY <1>2, <1>3, <1>4, DispatchCalls
  <2> QED BY <2>1, <2>2 DEF Answered, Stopped
<1>5. ASSUME ~(opcode = WS_OPCODE_TEXT /\ ~validate_utf8_sequence(payload))
      PROVE  /\ t.calls = Append(s.calls, <<"onmessage", o, p>>)
             /\ t.flags = s.flags /\ t.frames = <<>>
  <2>1. ~(o = WS_OPCODE_TEXT /\ ~validate_utf8_sequence(p))
    BY <1>3, <1>5
  <2>2. Called(t, s, o, p)
    BY <1>2, <2>1, DispatchCalled
  <2> QED BY <2>2 DEF Called
<1>6. CASE opcode = WS_OPCODE_TEXT /\ validate_utf8_sequence(payload) /\ ~WellFormed(payload)
  <2>1. Stopped(g, h)
    BY <1>6, MessageStops
  <2>2. t.calls = Append(s.calls, <<"onmessage", o, p>>)
    BY <1>5, <1>6
  <2> QED BY <2>1, <2>2 DEF Answered, Stopped
<1>7. CASE ~(opcode = WS_OPCODE_TEXT /\ ~WellFormed(payload))
  <2>1. Spoken(g, h, opcode, payload)
    BY <1>7, MessageSpeaks
  <2>2. /\ t.calls = Append(s.calls, <<"onmessage", o, p>>)
        /\ t.flags = s.flags /\ t.frames = <<>>
    BY <1>1, <1>5, <1>7
  <2>3. Behind(t) = <<>> /\ Current(t) = FirstFrame
    BY <2>2 DEF Behind, Current
  <2>4. Agrees(t, g)
    BY <1>3, <2>1, <2>2, <2>3, NoPayloads DEF Agrees, Is, Spoken
  <2>5. t.calls = g.calls
    BY <1>3, <2>1, <2>2 DEF Spoken
  <2> QED BY <2>3, <2>4, <2>5, StartingFrames DEF Answered
<1> QED BY <1>1, <1>4, <1>6, <1>7

FrameJoined(r, q, f) ==
  /\ Whole(r) /\ Payloads(r) = Payloads(q) \o Unmasked(f)
  /\ Payloads(q) \in Seq(Byte) /\ r # <<>> /\ r[1] = IF q = <<>> THEN f ELSE q[1]

LEMMA FrameJoinedLemma ==
  ASSUME NEW q, Whole(q), NEW f \in Frame, Unmasked(f) \in Seq(Byte), NEW r, r = Append(q, f)
  PROVE  FrameJoined(r, q, f)
BY PayloadsAppend DEF FrameJoined

LEMMA CarriesAgrees ==
  ASSUME NEW h \in Hearings, ~h.ended, NEW c \in ClientFrame, ~Alone(c), Carries(h, c),
         NEW g, g = Heard(h, c),
         NEW s, DOMAIN s = Fields, s.frames \in Seq(Frame), s.frames # <<>>, Agrees(s, h),
         NEW f \in Frame, f = s.frames[Len(s.frames)],
         f.fin = c.fin, f.opcode = c.opcode, Unmasked(f) = c.payload,
         NEW t, t = FrameComplete(s, f)
  PROVE  Answered(t, g)
<1>1. PICK b : b = Front(s.frames)
  OBVIOUS
<1>2. s.frames = Append(b, f) /\ b \in Seq(Frame) /\ Behind(s) = b
  BY <1>1, FrontAndLast DEF Behind
<1>3. /\ ~Is(s, "SHOULD_CLOSE") /\ (Is(s, "RECEIVING_FRAGMENT") <=> h.opcode # 0)
      /\ s.calls = h.calls
      /\ Whole(b) /\ h.parts = Payloads(b)
      /\ (b = <<>> <=> h.opcode = 0) /\ (b # <<>> => b[1].opcode = h.opcode)
  BY <1>2 DEF Agrees
<1>4. c.payload \in Seq(Byte) /\ c.opcode \in 0..15 /\ c.fin \in 0..1
  BY ClientFrameType
<1>5. PICK frames : frames = s.frames
  OBVIOUS
<1>6. /\ Whole(frames) /\ Payloads(frames) = Payloads(b) \o Unmasked(f)
      /\ frames # <<>> /\ frames[1] = IF b = <<>> THEN f ELSE b[1]
  <2>1. frames = Append(b, f) /\ Unmasked(f) \in Seq(Byte)
    BY <1>2, <1>4, <1>5
  <2>2. Whole(b)
    BY <1>3
  <2>3. FrameJoined(frames, b, f)
    BY <2>1, <2>2, FrameJoinedLemma
  <2> QED BY <2>3 DEF FrameJoined
<1>7. PICK opcode, payload : opcode = MessageOpcode(h, c) /\ payload = h.parts \o c.payload
  OBVIOUS
<1>8. frames[1].opcode = opcode /\ opcode # 0 /\ opcode \in 0..15
  <2>1. CASE h.opcode = 0
    <3>1. opcode = c.opcode /\ c.opcode \in {WS_OPCODE_TEXT, WS_OPCODE_BINARY}
      BY <1>7, <2>1 DEF MessageOpcode, Carries
    <3>2. frames[1] = f
      BY <1>3, <1>6, <2>1
    <3> QED BY <1>4, <3>1, <3>2 DEF WS_OPCODE_TEXT, WS_OPCODE_BINARY
  <2>2. CASE h.opcode # 0
    <3>1. opcode = h.opcode /\ h.opcode \in 0..15
      BY <1>7, <2>2 DEF MessageOpcode, Hearings
    <3>2. frames[1] = b[1]
      BY <1>3, <1>6, <2>2
    <3> QED BY <1>3, <2>2, <3>1, <3>2
  <2> QED BY <2>1, <2>2
<1>9. Payloads(frames) = payload /\ payload \in Seq(Byte)
  <2>1. h.parts \in Seq(Byte)
    BY DEF Hearings
  <2>2. h.parts \o c.payload \in Seq(Byte)
    BY <1>4, <2>1
  <2> QED BY <1>3, <1>6, <1>7, <2>2
<1>10. IF h.opcode = 0 THEN c.opcode \in {WS_OPCODE_TEXT, WS_OPCODE_BINARY}
                       ELSE c.opcode = WS_OPCODE_CONTINUE
  BY DEF Carries
<1>11. CASE c.fin = 1
  <2>1. g = Message(h, opcode, payload)
    BY <1>7, <1>11, HeardCases
  <2>2. PICK flags : flags = s.flags \ {"RECEIVING_FRAGMENT"}
    OBVIOUS
  <2>3. PICK u : u = [s EXCEPT !.flags = flags]
    OBVIOUS
  <2>4. DOMAIN u = Fields /\ u.calls = s.calls /\ u.flags = flags /\ u.frames = s.frames
    BY <2>3, FlagsCalls
  <2>5. ~Is(u, "SHOULD_CLOSE") /\ ~Is(u, "RECEIVING_FRAGMENT")
    BY <1>3, <2>2, <2>4 DEF Is
  <2>6. u = [s EXCEPT !.flags = @ \ {"RECEIVING_FRAGMENT"}]
    BY <2>2, <2>3
  <2>7. CASE h.opcode = 0
    <3>1. f.opcode \in {WS_OPCODE_TEXT, WS_OPCODE_BINARY} /\ f.fin = 1
          /\ ~Is(s, "RECEIVING_FRAGMENT")
      BY <1>3, <1>10, <1>11, <2>7
    <3>2. t = libwebsock_frame_act(s, f)
      BY <3>1 DEF FrameComplete, WS_OPCODE_TEXT, WS_OPCODE_BINARY
    <3>3. t = libwebsock_dispatch_message(s)
      BY <3>1, <3>2 DEF libwebsock_frame_act, WS_OPCODE_TEXT, WS_OPCODE_BINARY, WS_OPCODE_CONTINUE,
                        WS_OPCODE_CLOSE, WS_OPCODE_PING, WS_OPCODE_PONG
    <3>4. s.frames[1].opcode = opcode /\ Payloads(s.frames) = payload
      BY <1>5, <1>8, <1>9
    <3> QED BY <1>3, <1>8, <1>9, <2>1, <3>1, <3>3, <3>4, DispatchAgrees
  <2>8. CASE h.opcode # 0
    <3>1. f.opcode = 0 /\ f.fin = 1 /\ Is(s, "RECEIVING_FRAGMENT")
      BY <1>3, <1>10, <1>11, <2>8 DEF WS_OPCODE_CONTINUE
    <3>2. t = libwebsock_frame_act(u, f)
      BY <2>6, <3>1 DEF FrameComplete, IsControl
    <3>3. t = libwebsock_dispatch_message(u)
      BY <3>1, <3>2 DEF libwebsock_frame_act, WS_OPCODE_TEXT, WS_OPCODE_BINARY, WS_OPCODE_CONTINUE,
                        WS_OPCODE_CLOSE, WS_OPCODE_PING, WS_OPCODE_PONG
    <3>4. /\ u.frames[1].opcode = opcode /\ Payloads(u.frames) = payload
          /\ u.calls = h.calls
      BY <1>3, <1>5, <1>8, <1>9, <2>4
    <3> QED BY <1>8, <1>9, <2>1, <2>4, <2>5, <3>3, <3>4, DispatchAgrees
  <2> QED BY <2>7, <2>8
<1>12. CASE c.fin # 1
  <2>1. g = [h EXCEPT !.opcode = opcode, !.parts = payload]
    BY <1>7, <1>12, HeardCases
  <2>2. g.opcode = opcode /\ g.parts = payload /\ g.calls = h.calls
    BY <2>1 DEF Hearings
  <2>3. PICK longer : longer = Append(frames, ZeroFrame)
    OBVIOUS
  <2>4. PICK u : u = [s EXCEPT !.frames = longer]
    OBVIOUS
  <2>5. /\ DOMAIN u = Fields /\ u.calls = s.calls /\ u.flags = s.flags /\ u.frames = longer
        /\ u = Chained(s)
    BY <1>5, <2>3, <2>4, FramesCalls DEF Chained
  <2>6. PICK flags : flags = u.flags \cup {"RECEIVING_FRAGMENT"}
    OBVIOUS
  <2>7. PICK v : v = [u EXCEPT !.flags = flags]
    OBVIOUS
  <2>8. DOMAIN v = Fields /\ v.calls = u.calls /\ v.flags = flags /\ v.frames = u.frames
    BY <2>5, <2>7, FlagsCalls
  <2>9. f.fin = 0
    BY <1>4, <1>12
  <2>10. \/ h.opcode = 0 /\ t = v
         \/ h.opcode # 0 /\ t = u
    <3>1. v = [Chained(s) EXCEPT !.flags = @ \cup {"RECEIVING_FRAGMENT"}]
      BY <2>5, <2>6, <2>7
    <3>2. CASE h.opcode = 0
      <4>1. f.opcode \in {WS_OPCODE_TEXT, WS_OPCODE_BINARY} /\ ~Is(s, "RECEIVING_FRAGMENT")
        BY <1>3, <1>10, <3>2
      <4>2. t = v
        <5>1. f.fin # 1 /\ f.opcode # 0 /\ ~IsControl(f)
          BY <2>9, <4>1 DEF IsControl, WS_OPCODE_TEXT, WS_OPCODE_BINARY
        <5> QED BY <2>9, <3>1, <4>1, <5>1 DEF FrameComplete
      <4> QED BY <3>2, <4>2
    <3>3. CASE h.opcode # 0
      <4>1. f.opcode = 0 /\ Is(s, "RECEIVING_FRAGMENT")
        BY <1>3, <1>10, <3>3 DEF WS_OPCODE_CONTINUE
      <4>2. t = u
        BY <2>5, <2>9, <4>1 DEF FrameComplete
      <4> QED BY <3>3, <4>2
    <3> QED BY <3>2, <3>3
  <2>11. t.calls = s.calls /\ t.frames = longer /\ t.flags = s.flags \cup {"RECEIVING_FRAGMENT"}
    <3>1. CASE h.opcode = 0 /\ t = v
      BY <2>5, <2>6, <2>8, <3>1
    <3>2. CASE h.opcode # 0 /\ t = u
      BY <1>3, <2>5, <3>2 DEF Is
    <3> QED BY <2>10, <3>1, <3>2
  <2>12. Behind(t) = frames /\ Current(t) = ZeroFrame
    <3>1. frames \in Seq(Frame) /\ ZeroFrame \in Frame
      BY <1>5, StartFrames DEF GoodFrame
    <3>2. longer # <<>> /\ Front(longer) = frames /\ Last(longer) = ZeroFrame
      BY <2>3, <3>1, FrontOf
    <3> QED BY <2>11, <3>2 DEF Behind, Current
  <2>13. Agrees(t, g)
    <3>1. ~Is(t, "SHOULD_CLOSE") /\ Is(t, "RECEIVING_FRAGMENT")
      BY <1>3, <2>11 DEF Is
    <3> QED BY <1>3, <1>6, <1>8, <1>9, <2>2, <2>11, <2>12, <3>1 DEF Agrees
  <2>14. t.calls = g.calls
    BY <1>3, <2>2, <2>11
  <2> QED BY <2>12, <2>13, <2>14, StartingFrames DEF Answered
<1> QED BY <1>11, <1>12

LEMMA OtherAgrees ==
  ASSUME NEW h \in Hearings, ~h.ended, NEW c \in ClientFrame, ~Alone(c), ~Carries(h, c),
         ~Malformed(c), NEW g, g = Heard(h, c),
         NEW s, DOMAIN s = Fields, Agrees(s, h),
         NEW f \in Frame, f.fin = c.fin, f.opcode = c.opcode,
         NEW t, t = FrameComplete(s, f)
  PROVE  Answered(t, g)
<1>1. Stopped(g, h)
  <2>1. g = Ended(h, CloseFrame(PROTOCOL_ERROR))
    BY HeardCases
  <2> QED BY <2>1, EndedCalls
<1>2. s.calls = h.calls /\ (Is(s, "RECEIVING_FRAGMENT") <=> h.opcode # 0)
  BY DEF Agrees
<1>3. /\ f.opcode \in 8..10 => f.fin # 1
      /\ h.opcode = 0 => f.opcode \notin {WS_OPCODE_TEXT, WS_OPCODE_BINARY}
      /\ h.opcode # 0 => f.opcode # 0
  BY DEF Alone, Carries, WS_OPCODE_CONTINUE
<1>4. f.opcode \in 0..15
  BY DEF Frame
<1>5. t.calls = s.calls
  <2>1. CASE t = libwebsock_frame_act(s, f) /\ f.opcode # 0 /\ f.fin = 1
    <3>1. CASE Is(s, "RECEIVING_FRAGMENT")
      <4>1. CASE IsControl(f)
        <5>1. f.opcode \notin {WS_OPCODE_TEXT, WS_OPCODE_BINARY, WS_OPCODE_CONTINUE}
          BY <4>1, <1>4 DEF IsControl, WS_OPCODE_TEXT, WS_OPCODE_BINARY, WS_OPCODE_CONTINUE
        <5> QED BY <2>1, <5>1, ActCalls
      <4>2. CASE ~IsControl(f)
        <5>1. t = libwebsock_fail_connection(s, PROTOCOL_ERROR)
          BY <2>1, <3>1, <4>2 DEF FrameComplete
        <5> QED BY <5>1, FailCalls
      <4> QED BY <4>1, <4>2
    <3>2. CASE ~Is(s, "RECEIVING_FRAGMENT")
      <4>1. f.opcode \notin {WS_OPCODE_TEXT, WS_OPCODE_BINARY, WS_OPCODE_CONTINUE}
        BY <1>2, <1>3, <2>1, <3>2 DEF WS_OPCODE_CONTINUE
      <4> QED BY <2>1, <4>1, ActCalls
    <3> QED BY <3>1, <3>2
  <2>2. CASE t = libwebsock_fail_connection(s, PROTOCOL_ERROR)
    BY <2>2, FailCalls
  <2>3. CASE t = [Chained(s) EXCEPT !.flags = @ \cup {"RECEIVING_FRAGMENT"}]
    <3>1. PICK frames, u : frames = Append(s.frames, ZeroFrame) /\ u = [s EXCEPT !.frames = frames]
      OBVIOUS
    <3>2. u = Chained(s)
      <4>1. Chained(s) = [s EXCEPT !.frames = Append(s.frames, ZeroFrame)]
        BY DEF Chained, Fields
      <4> QED BY <3>1, <4>1
    <3>3. DOMAIN u = Fields /\ u.calls = s.calls
      BY <3>1, FramesCalls
    <3>4. PICK flags : flags = u.flags \cup {"RECEIVING_FRAGMENT"}
      OBVIOUS
    <3>5. t = [u EXCEPT !.flags = flags]
      BY <2>3, <3>2, <3>3, <3>4 DEF Fields
    <3>6. t.calls = u.calls
      BY <3>3, <3>5, FlagsCalls
    <3> QED BY <3>3, <3>6
  <2>4. \/ t = libwebsock_frame_act(s, f) /\ f.opcode # 0 /\ f.fin = 1
        \/ t = libwebsock_fail_connection(s, PROTOCOL_ERROR)
        \/ t = [Chained(s) EXCEPT !.flags = @ \cup {"RECEIVING_FRAGMENT"}]
    <3>1. CASE Is(s, "RECEIVING_FRAGMENT")
      <4>1. f.opcode # 0
        BY <1>2, <1>3, <3>1
      <4>2. CASE f.fin = 1 /\ IsControl(f)
        BY <3>1, <4>1, <4>2 DEF FrameComplete
      <4>3. CASE ~(f.fin = 1 /\ IsControl(f))
        BY <3>1, <4>1, <4>3 DEF FrameComplete
      <4> QED BY <4>2, <4>3
    <3>2. CASE ~Is(s, "RECEIVING_FRAGMENT")
      <4>1. CASE f.fin = 1 /\ f.opcode # 0
        BY <3>2, <4>1 DEF FrameComplete
      <4>2. CASE f.fin # 1 /\ f.fin = 0 /\ f.opcode # 0 /\ ~IsControl(f)
        BY <3>2, <4>2 DEF FrameComplete
      <4>3. CASE ~(f.fin = 1 /\ f.opcode # 0) /\ ~(f.fin = 0 /\ f.opcode # 0 /\ ~IsControl(f))
        BY <3>2, <4>3 DEF FrameComplete
      <4>4. f.fin \in 0..1
        BY DEF Frame
      <4> QED BY <4>1, <4>2, <4>3, <4>4
    <3> QED BY <3>1, <3>2
  <2> QED BY <2>1, <2>2, <2>3, <2>4
<1> QED BY <1>1, <1>2, <1>5 DEF Answered, Stopped

LEMMA CompleteAgrees ==
  ASSUME NEW h \in Hearings, ~h.ended, NEW c \in ClientFrame, ~Malformed(c),
         NEW g, g = Heard(h, c),
         NEW s, DOMAIN s = Fields, s.frames \in Seq(Frame), s.frames # <<>>, Agrees(s, h),
         NEW f \in Frame, f = s.frames[Len(s.frames)],
         f.fin = c.fin, f.opcode = c.opcode, f.payload_len = Len(c.payload),
         Unmasked(f) = c.payload,
         NEW t, t = FrameComplete(s, f)
  PROVE  Answered(t, g)
<1>1. CASE Alone(c)
  <2>1. f.fin = 1 /\ f.opcode \in 8..10
    BY <1>1 DEF Alone
  <2>2. f.opcode # 0 /\ IsControl(f)
        /\ f.opcode \in {WS_OPCODE_CLOSE, WS_OPCODE_PING, WS_OPCODE_PONG}
        /\ f.opcode \notin {WS_OPCODE_TEXT, WS_OPCODE_BINARY, WS_OPCODE_CONTINUE}
    BY <2>1 DEF IsControl, WS_OPCODE_CLOSE, WS_OPCODE_PING, WS_OPCODE_PONG,
                WS_OPCODE_TEXT, WS_OPCODE_BINARY, WS_OPCODE_CONTINUE
  <2>3. t = libwebsock_frame_act(s, f)
    BY <2>1, <2>2 DEF FrameComplete
  <2>4. t = libwebsock_handle_control_frame(s, f)
    BY <2>2, <2>3 DEF libwebsock_frame_act
  <2> QED BY <1>1, <2>4, AloneAgrees
<1>2. CASE ~Alone(c) /\ Carries(h, c)
  BY <1>2, CarriesAgrees
<1>3. CASE ~Alone(c) /\ ~Carries(h, c)
  BY <1>3, OtherAgrees
<1> QED BY <1>1, <1>2, <1>3

-----------------------------------------------------------------------------
(* The bytes that have arrived and are not looked at *)

LEMMA Refilled ==
  ASSUME NEW q \in Seq(Byte)
  PROVE  /\ Removed(q) \in Seq(Byte) /\ Rest(q) \in Seq(Byte)
         /\ Removed(q) \o Rest(q) = q
         /\ Removed(q) = <<>> => q = <<>> /\ Rest(q) = <<>>
<1>1. Len(q) \in Nat /\ BufSize \in Nat /\ BufSize > 0
  BY WebSockAssumption, LenProperties
<1>2. CASE Len(q) < BufSize
  <2>1. PICK r, e : r = SubSeq(q, 1, Len(q)) /\ e = SubSeq(q, BufSize + 1, Len(q))
    OBVIOUS
  <2>2. r = q
    BY <2>1, FirstMore, <1>1
  <2>3. e = <<>>
    BY <1>1, <1>2, <2>1
  <2>4. Removed(q) = r /\ Rest(q) = e
    BY <1>2, <2>1 DEF Removed, Rest
  <2>5. q \o <<>> = q /\ <<>> \in Seq(Byte)
    BY EmptySeq
  <2> QED BY <2>2, <2>3, <2>4, <2>5
<1>3. CASE ~(Len(q) < BufSize)
  <2>1. PICK r, e : r = SubSeq(q, 1, BufSize) /\ e = SubSeq(q, BufSize + 1, Len(q))
    OBVIOUS
  <2>2. r \in Seq(Byte) /\ Len(r) = BufSize /\ \A i \in 1..BufSize : r[i] = q[i]
    BY <1>1, <1>3, <2>1
  <2>3. e \in Seq(Byte) /\ Len(e) = Len(q) - BufSize
        /\ \A i \in 1..Len(q) - BufSize : e[i] = q[BufSize + i]
    BY <1>1, <1>3, <2>1
  <2>4. PICK z : z = r \o e
    OBVIOUS
  <2>5. /\ z \in Seq(Byte) /\ Len(z) = Len(r) + Len(e)
        /\ \A i \in 1..Len(r) : z[i] = r[i]
        /\ \A i \in 1..Len(e) : z[Len(r) + i] = e[i]
    <3>1. r \in Seq(Byte) /\ e \in Seq(Byte)
      BY <2>2, <2>3
    <3> QED BY <2>4, <3>1, ConcatAt
  <2>6. Len(z) = Len(q)
    BY <1>1, <2>2, <2>3, <2>5
  <2>7. \A i \in 1..Len(q) : z[i] = q[i]
    <3> SUFFICES ASSUME NEW i \in 1..Len(q)
                 PROVE  z[i] = q[i]
      OBVIOUS
    <3>1. CASE i <= BufSize
      BY <1>1, <2>2, <2>5, <3>1
    <3>2. CASE i > BufSize
      <4>1. PICK k : k = i - BufSize
        OBVIOUS
      <4>2. k \in 1..Len(e) /\ i = BufSize + k
        BY <1>1, <2>3, <3>2, <4>1
      <4>3. z[BufSize + k] = e[k] /\ e[k] = q[BufSize + k]
        BY <2>2, <2>3, <2>5, <4>2
      <4> QED BY <4>2, <4>3
    <3> QED BY <1>1, <3>1, <3>2
  <2>8. z = q
    BY <2>5, <2>6, <2>7, SeqEqual
  <2>9. Removed(q) = r /\ Rest(q) = e
    BY <1>3, <2>1 DEF Removed, Rest
  <2>10. r # <<>>
    BY <1>1, <2>2
  <2> QED BY <2>2, <2>3, <2>4, <2>8, <2>9, <2>10
<1> QED BY <1>2, <1>3

(* Whether the local buffer was filled again does not show.                *)
Passed(b, i, left, c, j) ==
  /\ c \in Seq(Byte) /\ j \in Seq(Byte) /\ c \o j = left \o i
  /\ c = <<>> => j = <<>>
  /\ Len(c) + Len(j) = Len(left) + Len(i)
  /\ Len(b) \in Nat /\ Len(i) \in Nat /\ Len(left) \in Nat /\ Len(c) \in Nat /\ Len(j) \in Nat

LEMMA BuffersPass ==
  ASSUME NEW b \in Seq(Byte), NEW i \in Seq(Byte), NEW left \in Seq(Byte), NEW c, NEW j,
         IF left = <<>> THEN c = Removed(i) /\ j = Rest(i) ELSE c = left /\ j = i
  PROVE  Passed(b, i, left, c, j)
<1>1. c \in Seq(Byte) /\ j \in Seq(Byte) /\ c \o j = left \o i /\ (c = <<>> => j = <<>>)
  <2>1. CASE left = <<>>
    <3>1. left \o i = i
      BY <2>1
    <3> QED BY <2>1, <3>1, Refilled
  <2>2. CASE left # <<>>
    BY <2>2
  <2> QED BY <2>1, <2>2
<1>2. PICK z : z = c \o j
  OBVIOUS
<1>3. Len(z) = Len(c) + Len(j) /\ Len(c) \in Nat /\ Len(j) \in Nat
  BY <1>1, <1>2, ConcatAt
<1>4. Len(z) = Len(left) + Len(i) /\ Len(left) \in Nat /\ Len(i) \in Nat
  BY <1>1, <1>2, ConcatAt
<1>5. Len(b) \in Nat
  BY LenProperties
<1> QED BY <1>1, <1>3, <1>4, <1>5 DEF Passed

LEMMA TailAt ==
  ASSUME NEW b \in Seq(Byte), b # <<>>, NEW i \in Seq(Byte)
  PROVE  /\ Tail(b) \in Seq(Byte) /\ Len(Tail(b)) = Len(b) - 1 /\ Head(b) = b[1] /\ b[1] \in Byte
         /\ Head(b) = (b \o i)[1]
         /\ \A j \in 1..Len(b) + Len(i) - 1 : (Tail(b) \o i)[j] = (b \o i)[j + 1]
<1>1. PICK t : t = Tail(b)
  OBVIOUS
<1>2. /\ Len(b) \in Nat /\ Len(b) > 0 /\ Len(i) \in Nat
      /\ t \in Seq(Byte) /\ Len(t) = Len(b) - 1 /\ Head(b) = b[1] /\ b[1] \in Byte
      /\ \A j \in 1..Len(t) : t[j] = b[j + 1]
  BY <1>1, HeadTailProperties, LenProperties, EmptySeq
<1>3. PICK y, z : y = t \o i /\ z = b \o i
  OBVIOUS
<1>4. /\ \A j \in 1..Len(t) : y[j] = t[j]
      /\ \A j \in 1..Len(i) : y[Len(t) + j] = i[j]
  BY <1>2, <1>3, ConcatAt
<1>5. /\ \A j \in 1..Len(b) : z[j] = b[j]
      /\ \A j \in 1..Len(i) : z[Len(b) + j] = i[j]
  BY <1>2, <1>3, ConcatAt
<1>6. \A j \in 1..Len(b) + Len(i) - 1 : y[j] = z[j + 1]
  <2> SUFFICES ASSUME NEW j \in 1..Len(b) + Len(i) - 1
               PROVE  y[j] = z[j + 1]
    OBVIOUS
  <2>1. CASE j <= Len(t)
    <3>1. j \in 1..Len(t) /\ j + 1 \in 1..Len(b)
      BY <1>2, <2>1
    <3> QED BY <1>2, <1>4, <1>5, <3>1
  <2>2. CASE j > Len(t)
    <3>1. PICK k : k = j - Len(t)
      OBVIOUS
    <3>2. k \in 1..Len(i) /\ j = Len(t) + k /\ j + 1 = Len(b) + k
      BY <1>2, <2>2, <3>1
    <3> QED BY <1>4, <1>5, <3>2
  <2> QED BY <1>2, <2>1, <2>2
<1>7. 1 \in 1..Len(b)
  BY <1>2
<1>8. z[1] = b[1]
  BY <1>5, <1>7
<1> QED BY <1>1, <1>2, <1>3, <1>6, <1>8

-----------------------------------------------------------------------------
(* Where a connection is in what its client says *)

(* k frames of the client c are heard, and the bytes looked at of the next *)
(* one are its first bytes.                                                *)
Follows(c, s, waiting, looked, k) ==
  /\ k \in 0..Len(c) /\ ~HeardOf(c, k).ended
  /\ Agrees(s, HeardOf(c, k))
  /\ k > 0 => Upto(c, k - 1) + Span(c[k]) <= looked
  /\ \A j \in 1..Len(waiting) : waiting[j] = StreamOf(c)[looked + j]
  /\ k = Len(c) => looked = Upto(c, k) /\ Starting(Current(s))
  /\ k # Len(c) => /\ looked - Upto(c, k) \in 0..Span(c[k + 1]) - 1
                   /\ PartOf(Current(s), c[k + 1], looked - Upto(c, k))

Grows(calls, more) ==
  /\ IsSeq(calls) /\ IsSeq(more) /\ Len(calls) <= Len(more)
  /\ \A i \in 1..Len(calls) : more[i] = calls[i]

(* The k-th frame has ended the connection.                                *)
Ends(c, s, looked, k) ==
  /\ k \in 1..Len(c) /\ HeardOf(c, k).ended
  /\ Upto(c, k - 1) + Span(c[k]) <= looked
  /\ Grows(HeardOf(c, k).calls, s.calls)

LEMMA GrowsMore ==
  ASSUME NEW calls, NEW more, Grows(calls, more), NEW e
  PROVE  Grows(calls, Append(more, e))
<1>1. /\ IsSeq(Append(more, e)) /\ Len(more) \in Nat
      /\ Len(Append(more, e)) = Len(more) + 1
      /\ \A i \in 1..Len(more) : Append(more, e)[i] = more[i]
  BY AppendLemma DEF Grows
<1>2. Len(calls) \in Nat
  BY AppendLemma DEF Grows
<1> QED BY <1>1, <1>2 DEF Grows

LEMMA GrowsItself ==
  ASSUME NEW calls, IsSeq(calls)
  PROVE  Grows(calls, calls)
<1>1. Len(calls) \in Nat
  BY AppendLemma
<1> QED BY <1>1 DEF Grows

LEMMA GrowsOneCall ==
  ASSUME NEW calls, NEW s, Grows(calls, s.calls), NEW t, OneCallMore(s, t)
  PROVE  Grows(calls, t.calls)
<1>1. CASE t.calls = s.calls
  BY <1>1
<1>2. CASE \E call : t.calls = Append(s.calls, call)
  BY <1>2, GrowsMore
<1> QED BY <1>1, <1>2 DEF OneCallMore

LEMMA CurrentGood ==
  ASSUME NEW s, Chain(s.frames)
  PROVE  GoodFrame(Current(s))
<1>1. CASE s.frames = <<>>
  BY <1>1, StartFrames DEF Current
<1>2. CASE s.frames # <<>>
  <2>1. Len(s.frames) \in Nat /\ Len(s.frames) > 0
    BY <1>2, ChainFront
  <2>2. Current(s) = s.frames[Len(s.frames)] /\ Len(s.frames) \in 1..Len(s.frames)
    BY <1>2, <2>1 DEF Current, Last
  <2> QED BY <2>1, <2>2 DEF Chain
<1> QED BY <1>1, <1>2

(* The current frame with a byte more.                                     *)
LEMMA KeptAgrees ==
  ASSUME NEW s, DOMAIN s = Fields, Chain(s.frames), NEW f, GoodFrame(f),
         NEW t, t = WithCurrent(s, f)
  PROVE  /\ DOMAIN t = Fields /\ t.calls = s.calls /\ t.flags = s.flags
         /\ Chain(t.frames) /\ t.frames # <<>> /\ t.frames \in Seq(Frame)
         /\ f = t.frames[Len(t.frames)] /\ Current(t) = f /\ Behind(t) = Behind(s)
<1>1. PICK frames : \/ s.frames = <<>> /\ frames = <<f>>
                    \/ s.frames # <<>> /\ frames = Append(Front(s.frames), f)
  OBVIOUS
<1>2. /\ Chain(frames) /\ Len(frames) \in Nat /\ Len(frames) > 0
      /\ frames[Len(frames)] = f
  BY <1>1, ChainReplaced
<1>3. t = [s EXCEPT !.frames = frames]
  BY <1>1 DEF WithCurrent, Fields
<1>4. DOMAIN t = Fields /\ t.calls = s.calls /\ t.flags = s.flags /\ t.frames = frames
  BY <1>3, FramesCalls
<1>5. frames # <<>> /\ frames \in Seq(Frame)
  BY <1>2 DEF Chain
<1>6. Current(t) = f
  BY <1>2, <1>4, <1>5 DEF Current, Last
<1>7. Behind(t) = Behind(s)
  <2>1. CASE s.frames = <<>>
    <3>1. frames = <<f>>
      BY <1>1, <2>1
    <3>2. Front(frames) = <<>>
      BY <3>1 DEF Front
    <3> QED BY <1>4, <1>5, <2>1, <3>2 DEF Behind
  <2>2. CASE s.frames # <<>>
    <3>1. PICK q : q = Front(s.frames)
      OBVIOUS
    <3>2. q \in Seq(Frame)
      <4>1. s.frames \in Seq(Frame)
        BY DEF Chain
      <4> QED BY <2>2, <3>1, <4>1, FrontAndLast
    <3>3. f \in Frame /\ frames = Append(q, f)
      BY <1>1, <2>2, <3>1 DEF GoodFrame
    <3>4. Front(frames) = q
      BY <3>2, <3>3, FrontOf
    <3> QED BY <1>4, <1>5, <2>2, <3>1, <3>4 DEF Behind
  <2> QED BY <2>1, <2>2
<1> QED BY <1>2, <1>4, <1>5, <1>6, <1>7

LEMMA SameAgrees ==
  ASSUME NEW s, NEW h, Agrees(s, h), NEW t,
         t.calls = s.calls, t.flags = s.flags, Behind(t) = Behind(s)
  PROVE  Agrees(t, h)
BY DEF Agrees, Is

(* A byte is taken from what waits, and a complete frame is acted upon.    *)
Took(s, b, taken, acted) ==
  LET kept == WithCurrent(s, taken.frame)
      complete == taken.result # 0 /\ Complete(taken.frame)
      checked == IF taken.result = -1
                 THEN libwebsock_fail_connection(kept, PROTOCOL_ERROR) ELSE kept
  IN /\ taken = ByteTaken(Current(s), b)
     /\ acted = IF complete THEN FrameComplete(checked, taken.frame) ELSE checked

LEMMA MalformedStops ==
  ASSUME NEW c \in Seq(ClientFrame), NEW k \in 0..Len(c), k < Len(c),
         ~HeardOf(c, k).ended, Malformed(c[k + 1])
  PROVE  Stopped(HeardOf(c, k + 1), HeardOf(c, k))
<1>1. PICK h, f : h = HeardOf(c, k) /\ f = c[k + 1]
  OBVIOUS
<1>2. h \in Hearings /\ HeardOf(c, k + 1) = Heard(h, f)
  BY <1>1, HeardMore
<1>3. ~Alone(f) /\ ~Carries(h, f)
  BY <1>1 DEF Alone, Carries
<1>4. Heard(h, f) = Ended(h, CloseFrame(PROTOCOL_ERROR))
  BY <1>1, <1>3, HeardCases
<1>5. Stopped(Ended(h, CloseFrame(PROTOCOL_ERROR)), h)
  BY <1>2, EndedCalls
<1> QED BY <1>1, <1>2, <1>4, <1>5

(* A malformed header ends the connection.                                 *)
LEMMA ByteRefused ==
  ASSUME NEW c \in Seq(ClientFrame), NEW k, NEW looked \in Nat, NEW s, NEW waiting,
         Follows(c, s, waiting, looked, k), k < Len(c), DOMAIN s = Fields, Chain(s.frames),
         Malformed(c[k + 1]), looked - Upto(c, k) = 2,
         NEW b, NEW taken, NEW acted, Took(s, b, taken, acted),
         GoodFrame(taken.frame), taken.result = -1
  PROVE  Ends(c, acted, looked + 1, k + 1)
<1>1. PICK h, g : h = HeardOf(c, k) /\ g = HeardOf(c, k + 1)
  OBVIOUS
<1>2. k \in 0..Len(c) /\ ~h.ended /\ s.calls = h.calls
  BY <1>1 DEF Follows, Agrees
<1>3. g.ended /\ g.calls = h.calls
  BY <1>1, <1>2, MalformedStops DEF Stopped
<1>4. h \in Hearings
  BY <1>1, <1>2, HeardMore
<1>5. PICK f : f = taken.frame
  OBVIOUS
<1>6. PICK kept, checked : /\ kept = WithCurrent(s, f)
                           /\ checked = libwebsock_fail_connection(kept, PROTOCOL_ERROR)
  OBVIOUS
<1>7. DOMAIN kept = Fields /\ kept.calls = s.calls
  BY <1>5, <1>6, KeptAgrees
<1>8. DOMAIN checked = Fields /\ checked.calls = kept.calls
  BY <1>6, <1>7, FailCalls
<1>9. acted = checked \/ acted = FrameComplete(checked, f)
  BY <1>5, <1>6 DEF Took
<1>10. OneCallMore(checked, acted)
  <2>1. CASE acted = checked
    BY <1>8, <2>1 DEF OneCallMore
  <2>2. CASE acted = FrameComplete(checked, f)
    <3>1. f \in Frame
      BY <1>5 DEF GoodFrame
    <3> QED BY <1>8, <2>2, <3>1, CompleteCalls
  <2> QED BY <1>9, <2>1, <2>2
<1>11. Grows(g.calls, checked.calls)
  <2>1. IsSeq(g.calls)
    BY <1>3, <1>4 DEF Hearings, IsSeq
  <2> QED BY <1>2, <1>3, <1>7, <1>8, <2>1, GrowsItself
<1>12. Grows(g.calls, acted.calls)
  BY <1>10, <1>11, GrowsOneCall
<1>13. Upto(c, k) + Span(c[k + 1]) <= looked + 1
  <2>1. Upto(c, k) \in Nat
    BY <1>2, UptoMore
  <2> QED BY <2>1 DEF Span
<1>14. Len(c) \in Nat
  BY LenProperties
<1>15. k + 1 \in 1..Len(c) /\ k + 1 - 1 = k
  BY <1>2, <1>14
<1>16. PICK m, l : m = k + 1 /\ l = looked + 1
  OBVIOUS
<1>17. m \in 1..Len(c) /\ HeardOf(c, m).ended
  BY <1>1, <1>3, <1>15, <1>16
<1>18. Upto(c, m - 1) + Span(c[m]) <= l
  <2>1. m - 1 = k
    BY <1>2, <1>14, <1>16
  <2> QED BY <1>13, <1>16, <2>1
<1>19. Grows(HeardOf(c, m).calls, acted.calls)
  BY <1>1, <1>12, <1>16
<1>20. Ends(c, acted, l, m)
  BY <1>17, <1>18, <1>19 DEF Ends
<1> QED BY <1>16, <1>20

(* The frame goes on.                                                      *)
LEMMA ByteMore ==
  ASSUME NEW c \in Seq(ClientFrame), NEW k, NEW looked \in Nat, NEW s, NEW waiting,
         Follows(c, s, waiting, looked, k), k < Len(c), DOMAIN s = Fields, Chain(s.frames),
         NEW p, p = looked - Upto(c, k), p + 1 < Span(c[k + 1]),
         NEW b, NEW taken, NEW acted, Took(s, b, taken, acted),
         GoodFrame(taken.frame), taken.result # -1,
         PartOf(taken.frame, c[k + 1], p + 1), taken.result = 0 \/ ~Complete(taken.frame),
         NEW left, \A j \in 1..Len(left) : left[j] = StreamOf(c)[looked + 1 + j]
  PROVE  Follows(c, acted, left, looked + 1, k)
<1>1. acted = WithCurrent(s, taken.frame)
  BY DEF Took
<1>2. acted.calls = s.calls /\ acted.flags = s.flags /\ Current(acted) = taken.frame
      /\ Behind(acted) = Behind(s)
  BY <1>1, KeptAgrees
<1>3. k \in 0..Len(c) /\ ~HeardOf(c, k).ended /\ Agrees(s, HeardOf(c, k))
      /\ (k > 0 => Upto(c, k - 1) + Span(c[k]) <= looked)
      /\ p \in 0..Span(c[k + 1]) - 1
  BY DEF Follows
<1>4. Agrees(acted, HeardOf(c, k))
  BY <1>2, <1>3, SameAgrees
<1>5. Upto(c, k) \in Nat
  BY <1>3, UptoMore
<1>6. c[k + 1] \in ClientFrame
  BY <1>3, FirstMore
<1>7. Span(c[k + 1]) \in Nat
  BY <1>6, SpanLemma
<1>8. looked + 1 - Upto(c, k) = p + 1 /\ p + 1 \in 0..Span(c[k + 1]) - 1
  BY <1>3, <1>5, <1>7
<1>9. k > 0 => Upto(c, k - 1) + Span(c[k]) <= looked + 1
  <2> SUFFICES ASSUME k > 0
               PROVE  Upto(c, k - 1) + Span(c[k]) <= looked + 1
    OBVIOUS
  <2>1. k - 1 \in 0..Len(c) /\ k - 1 < Len(c) /\ k - 1 + 1 = k
    BY <1>3
  <2>2. Upto(c, k - 1) \in Nat /\ c[k - 1 + 1] \in ClientFrame
    BY <2>1, UptoMore, FirstMore
  <2>3. Span(c[k]) \in Nat
    BY <2>1, <2>2, SpanLemma
  <2> QED BY <1>3, <2>2, <2>3
<1>10. k # Len(c)
  <2>1. Len(c) \in Nat
    BY LenProperties
  <2> QED BY <1>3, <2>1
<1>11. PICK l : l = looked + 1
  OBVIOUS
<1>12. k > 0 => Upto(c, k - 1) + Span(c[k]) <= l
  BY <1>9, <1>11
<1>13. \A j \in 1..Len(left) : left[j] = StreamOf(c)[l + j]
  BY <1>11
<1>14. l - Upto(c, k) \in 0..Span(c[k + 1]) - 1
       /\ PartOf(Current(acted), c[k + 1], l - Upto(c, k))
  <2>1. PICK d : d = l - Upto(c, k)
    OBVIOUS
  <2>2. d = p + 1
    BY <1>5, <1>11, <2>1
  <2> QED BY <1>2, <1>8, <2>1, <2>2
<1>16. Follows(c, acted, left, l, k)
  BY <1>3, <1>4, <1>10, <1>12, <1>13, <1>14 DEF Follows
<1> QED BY <1>11, <1>16

(* The frame is complete: it is heard.                                     *)
LEMMA ByteCompletes ==
  ASSUME NEW c \in Seq(ClientFrame), NEW k, NEW looked \in Nat, NEW s, NEW waiting,
         Follows(c, s, waiting, looked, k), k < Len(c), DOMAIN s = Fields, Chain(s.frames),
         ~Malformed(c[k + 1]), NEW p, p = looked - Upto(c, k), p + 1 = Size(c[k + 1]),
         NEW b, NEW taken, NEW acted, Took(s, b, taken, acted),
         GoodFrame(taken.frame), taken.result = 1,
         PartOf(taken.frame, c[k + 1], p + 1), Chain(acted.frames),
         NEW left, \A j \in 1..Len(left) : left[j] = StreamOf(c)[looked + 1 + j]
  PROVE  Follows(c, acted, left, looked + 1, k + 1) \/ Ends(c, acted, looked + 1, k + 1)
<1>1. PICK h, e, f, m, l : /\ h = HeardOf(c, k) /\ e = c[k + 1] /\ f = taken.frame
                           /\ m = k + 1 /\ l = looked + 1
  OBVIOUS
<1>2. k \in 0..Len(c) /\ ~h.ended /\ Agrees(s, h)
  BY <1>1 DEF Follows
<1>3. /\ k \in Nat /\ Len(c) \in Nat /\ m \in 1..Len(c) /\ m - 1 = k /\ l \in Nat
      /\ e \in ClientFrame /\ Upto(c, k) \in Nat
  <2>1. Len(c) \in Nat
    BY LenProperties
  <2>2. k \in Nat /\ m \in 1..Len(c) /\ m - 1 = k /\ l \in Nat
    BY <1>1, <1>2, <2>1
  <2>3. e \in ClientFrame
    BY <1>1, <1>2, FirstMore
  <2>4. Upto(c, k) \in Nat
    BY <1>2, UptoMore
  <2> QED BY <2>1, <2>2, <2>3, <2>4
<1>4. h \in Hearings /\ HeardOf(c, m) = Heard(h, e)
  BY <1>1, <1>2, HeardMore
<1>5. /\ ~Malformed(e) /\ Size(e) \in Nat /\ Size(e) = 6 + Len(e.payload) /\ Span(e) = Size(e)
      /\ Len(e.payload) \in Nat
  <2>1. ~Malformed(e)
    BY <1>1
  <2>2. e.payload \in Seq(Byte)
    BY <1>3, ClientFrameType
  <2> QED BY <1>3, <2>1, <2>2, SpanLemma, LenProperties
<1>6. p + 1 \in Nat /\ p + 1 <= Size(e) /\ p + 1 >= 6 /\ p + 1 = Size(e)
      /\ l = Upto(c, k) + Span(e)
  <2>1. p + 1 = Size(e)
    BY <1>1
  <2>2. l = Upto(c, k) + Size(e)
    BY <1>1, <1>3, <1>5, <2>1
  <2> QED BY <1>5, <2>1, <2>2
<1>7. /\ Complete(f) /\ f.fin = e.fin /\ f.opcode = e.opcode
      /\ f.payload_len = Len(e.payload) /\ Unmasked(f) = e.payload
  <2>1. PICK size : size = p + 1
    OBVIOUS
  <2>2. size \in Nat /\ size <= Size(e) /\ size >= 6 /\ size = Size(e)
    BY <1>6, <2>1
  <2>3. PartOf(f, e, size) /\ GoodFrame(f)
    BY <1>1, <2>1
  <2> QED BY <1>3, <1>5, <2>2, <2>3, WholeFrame
<1>8. PICK kept : kept = WithCurrent(s, f)
  OBVIOUS
<1>9. /\ DOMAIN kept = Fields /\ kept.calls = s.calls /\ kept.flags = s.flags
      /\ kept.frames # <<>> /\ kept.frames \in Seq(Frame)
      /\ f = kept.frames[Len(kept.frames)] /\ Behind(kept) = Behind(s)
  BY <1>1, <1>8, KeptAgrees
<1>10. Agrees(kept, h)
  BY <1>2, <1>9, SameAgrees
<1>11. acted = FrameComplete(kept, f)
  BY <1>1, <1>7, <1>8 DEF Took
<1>12. PICK g : g = HeardOf(c, m)
  OBVIOUS
<1>13. Answered(acted, g)
  <2>1. g = Heard(h, e)
    BY <1>4, <1>12
  <2>2. f \in Frame
    BY <1>1 DEF GoodFrame
  <2> QED BY <1>2, <1>3, <1>4, <1>5, <1>7, <1>9, <1>10, <1>11, <2>1, <2>2, CompleteAgrees
<1>14. Upto(c, m - 1) + Span(c[m]) <= l
  <2>1. Span(c[m]) = Span(e)
    BY <1>1
  <2> QED BY <1>3, <1>5, <1>6, <2>1
<1>15. CASE g.ended
  <2>1. g \in Hearings
    <3>1. m \in 0..Len(c)
      BY <1>3
    <3> QED BY <1>12, <3>1, HeardMore
  <2>2. Grows(g.calls, acted.calls)
    <3>1. IsSeq(g.calls)
      BY <2>1 DEF Hearings, IsSeq
    <3>2. Grows(g.calls, g.calls)
      BY <3>1, GrowsItself
    <3>3. \A call : Grows(g.calls, Append(g.calls, call))
      BY <3>2, GrowsMore
    <3> QED BY <1>13, <3>2, <3>3 DEF Answered
  <2>3. Ends(c, acted, l, m)
    BY <1>3, <1>12, <1>14, <1>15, <2>2 DEF Ends
  <2> QED BY <1>1, <2>3
<1>16. CASE ~g.ended
  <2>1. Agrees(acted, g) /\ Starting(Current(acted))
    BY <1>13, <1>16 DEF Answered
  <2>2. l = Upto(c, m)
    <3>1. Upto(c, k + 1) = Upto(c, k) + Size(c[k + 1])
      BY <1>2, UptoMore
    <3> QED BY <1>1, <1>5, <1>6, <3>1
  <2>3. \A j \in 1..Len(left) : left[j] = StreamOf(c)[l + j]
    BY <1>1
  <2>4. m # Len(c) => /\ l - Upto(c, m) \in 0..Span(c[m + 1]) - 1
                      /\ PartOf(Current(acted), c[m + 1], l - Upto(c, m))
    <3> SUFFICES ASSUME m # Len(c)
                 PROVE  /\ l - Upto(c, m) \in 0..Span(c[m + 1]) - 1
                        /\ PartOf(Current(acted), c[m + 1], l - Upto(c, m))
      OBVIOUS
    <3>1. m \in 0..Len(c) /\ m < Len(c)
      BY <1>3
    <3>2. c[m + 1] \in ClientFrame
      BY <3>1, FirstMore
    <3>3. Span(c[m + 1]) \in Nat /\ Span(c[m + 1]) >= 3
      BY <3>2, SpanLemma
    <3>4. l - Upto(c, m) = 0
      BY <1>3, <2>2
    <3>5. PartOf(Current(acted), c[m + 1], 0)
      BY <2>1, CurrentGood, StartingPart
    <3> QED BY <3>3, <3>4, <3>5
  <2>5. m \in 0..Len(c)
    BY <1>3
  <2>6. Follows(c, acted, left, l, m)
    BY <1>12, <1>14, <1>16, <2>1, <2>2, <2>3, <2>4, <2>5 DEF Follows
  <2> QED BY <1>1, <2>6
<1> QED BY <1>15, <1>16

(* A byte of the client is heard once.                                     *)
LEMMA ByteHeard ==
  ASSUME NEW c \in Seq(ClientFrame), NEW k, NEW looked \in Nat, NEW s, NEW waiting,
         Follows(c, s, waiting, looked, k), DOMAIN s = Fields, Chain(s.frames),
         Len(waiting) \in Nat, Len(waiting) > 0, looked + Len(waiting) <= SizeOf(c),
         NEW b \in Byte, b = waiting[1],
         NEW taken, NEW acted, Took(s, b, taken, acted), Chain(acted.frames),
         NEW left, Len(left) = Len(waiting) - 1,
         \A j \in 1..Len(left) : left[j] = waiting[j + 1]
  PROVE  \E m : Follows(c, acted, left, looked + 1, m) \/ Ends(c, acted, looked + 1, m)
<1>1. /\ k \in 0..Len(c)
      /\ \A j \in 1..Len(waiting) : waiting[j] = StreamOf(c)[looked + j]
      /\ k = Len(c) => looked = Upto(c, k)
  BY DEF Follows
<1>2. Len(c) \in Nat
  BY LenProperties
<1>3. Upto(c, k) \in Nat /\ Upto(c, Len(c)) = SizeOf(c)
  BY <1>1, UptoMore
<1>4. k < Len(c)
  <2>1. k # Len(c)
    BY <1>1, <1>3
  <2> QED BY <1>1, <1>2, <2>1
<1>5. PICK e, p, f : e = c[k + 1] /\ p = looked - Upto(c, k) /\ f = Current(s)
  OBVIOUS
<1>6. e \in ClientFrame
  BY <1>1, <1>4, <1>5, FirstMore
<1>7. /\ Size(e) \in Nat /\ Size(e) >= 2 /\ Span(e) \in Nat /\ Span(e) >= 3
      /\ ~Malformed(e) => Size(e) = 6 + Len(e.payload) /\ Span(e) = Size(e)
                          /\ Len(e.payload) \in Nat
  <2>1. e.payload \in Seq(Byte)
    BY <1>6, ClientFrameType
  <2> QED BY <1>6, <2>1, SpanLemma, LenProperties
<1>8. p \in 0..Span(e) - 1 /\ PartOf(f, e, p)
  <2>1. k # Len(c)
    BY <1>2, <1>4, <1>1
  <2> QED BY <1>5, <2>1 DEF Follows
<1>9. p \in Nat /\ p < Span(e) /\ looked = Upto(c, k) + p
  BY <1>3, <1>5, <1>7, <1>8
<1>10. GoodFrame(f)
  BY <1>5, CurrentGood
<1>11. \A j \in 1..Len(left) : left[j] = StreamOf(c)[looked + 1 + j]
  <2> SUFFICES ASSUME NEW j \in 1..Len(left)
               PROVE  left[j] = StreamOf(c)[looked + 1 + j]
    OBVIOUS
  <2>1. j + 1 \in 1..Len(waiting) /\ looked + 1 + j = looked + (j + 1)
    OBVIOUS
  <2>2. waiting[j + 1] = StreamOf(c)[looked + (j + 1)]
    BY <1>1, <2>1
  <2> QED BY <2>1, <2>2
<1>12. p < 2 \/ ~Malformed(e) => b = Encode(e)[p + 1]
  <2> SUFFICES ASSUME p < 2 \/ ~Malformed(e)
               PROVE  b = Encode(e)[p + 1]
    OBVIOUS
  <2>1. PICK i, j : i = k + 1 /\ j = p + 1
    OBVIOUS
  <2>2. i \in 1..Len(c) /\ i - 1 = k
    BY <1>1, <1>2, <1>4, <2>1
  <2>3. j \in 1..Size(c[i])
    <3>1. p + 1 <= Size(e)
      BY <1>7, <1>9
    <3>2. PICK size : size = Size(e)
      OBVIOUS
    <3>3. j \in 1..size
      BY <1>7, <1>9, <2>1, <3>1, <3>2
    <3>4. c[i] = e
      BY <1>5, <2>1
    <3> QED BY <3>2, <3>3, <3>4
  <2>4. StreamOf(c)[Upto(c, i - 1) + j] = Encode(c[i])[j]
    BY <2>2, <2>3, StreamAt
  <2>5. Upto(c, i - 1) + j = looked + 1
    <3>1. Upto(c, i - 1) = Upto(c, k)
      BY <2>2
    <3> QED BY <1>3, <1>9, <2>1, <3>1
  <2>6. b = StreamOf(c)[looked + 1]
    <3>1. 1 \in 1..Len(waiting)
      OBVIOUS
    <3> QED BY <1>1, <3>1
  <2> QED BY <1>5, <2>1, <2>4, <2>5, <2>6
<1>13. taken = ByteTaken(f, b)
  BY <1>5 DEF Took
<1>14. GoodFrame(taken.frame)
  <2>1. Reads(ByteTaken(f, b), Append(f.raw, b))
    BY <1>10, ByteTakenGood
  <2> QED BY <1>13, <2>1 DEF Reads
<1>15. /\ Malformed(e) /\ p = 2 => taken.result = -1
       /\ ~(Malformed(e) /\ p = 2) =>
            /\ PartOf(taken.frame, e, p + 1)
            /\ p + 1 < 6 => taken.result = 0
            /\ p + 1 >= 6 => taken.result = 1
  BY <1>6, <1>8, <1>9, <1>10, <1>12, <1>13, ByteTakenPart
<1>16. CASE Malformed(e) /\ p = 2
  <2>1. Ends(c, acted, looked + 1, k + 1)
    BY <1>4, <1>5, <1>14, <1>15, <1>16, ByteRefused
  <2> QED BY <2>1
<1>17. CASE ~(Malformed(e) /\ p = 2) /\ p + 1 < Span(e)
  <2>1. taken.result = 0 \/ ~Complete(taken.frame)
    <3>1. CASE p + 1 < 6
      BY <1>15, <1>17, <3>1
    <3>2. CASE p + 1 >= 6
      <4>1. ~Malformed(e)
        BY <1>9, <1>17, <3>2 DEF Span
      <4>2. PICK size : size = p + 1
        OBVIOUS
      <4>3. size \in Nat /\ size >= 6 /\ size < Size(e) /\ PartOf(taken.frame, e, size)
        BY <1>7, <1>9, <1>15, <1>17, <3>2, <4>1, <4>2
      <4>4. size <= Size(e) /\ size # Size(e)
        BY <1>7, <4>3
      <4> QED BY <1>6, <1>14, <4>1, <4>3, <4>4, WholeFrame
    <3> QED BY <1>9, <3>1, <3>2
  <2>2. taken.result # -1
    BY <1>9, <1>15, <1>17
  <2>3. PartOf(taken.frame, c[k + 1], p + 1) /\ p + 1 < Span(c[k + 1])
    BY <1>5, <1>15, <1>17
  <2>4. Follows(c, acted, left, looked + 1, k)
    BY <1>4, <1>5, <1>11, <1>14, <2>1, <2>2, <2>3, ByteMore
  <2> QED BY <2>4
<1>18. CASE ~(Malformed(e) /\ p = 2) /\ p + 1 = Span(e)
  <2>1. ~Malformed(e) /\ p + 1 = Size(e) /\ p + 1 >= 6
    <3>1. ~Malformed(e)
      <4>1. Malformed(e) => Span(e) = 3
        BY DEF Span
      <4> QED BY <1>9, <1>18, <4>1
    <3> QED BY <1>7, <1>18, <3>1
  <2>2. taken.result = 1 /\ PartOf(taken.frame, c[k + 1], p + 1)
    BY <1>5, <1>15, <1>18, <2>1
  <2>3. ~Malformed(c[k + 1]) /\ p + 1 = Size(c[k + 1])
    BY <1>5, <2>1
  <2>4. Follows(c, acted, left, looked + 1, k + 1) \/ Ends(c, acted, looked + 1, k + 1)
    BY <1>4, <1>5, <1>11, <1>14, <2>2, <2>3, ByteCompletes
  <2> QED BY <2>4
<1> QED BY <1>7, <1>9, <1>16, <1>17, <1>18

-----------------------------------------------------------------------------
(* A server hears what its client says *)

(* Nothing is received before the handshake is finished.                   *)
Waits(s) ==
  /\ s.frames = <<>>
  /\ ~Is(s, "SHOULD_CLOSE") /\ ~Is(s, "RECEIVING_FRAGMENT") /\ ~Is(s, "CONNECTED")

Heeds(c, s, waiting, looked) ==
  \E k : Follows(c, s, waiting, looked, k) \/ Ends(c, s, looked, k)

Hearing ==
  /\ buf = <<>> => input = <<>>
  /\ LookedAt \in Nat
  /\ conn \in {"none", "open"} /\ ~Is(state, "CONNECTED") =>
       arrived = 0 /\ buf = <<>> /\ Waits(state)
  /\ Serving => Heeds(script, state, buf \o input, LookedAt)

(* What else changes of a connection does not touch what it has heard.     *)
LEMMA HeedsKept ==
  ASSUME NEW c, NEW s, NEW waiting, NEW looked, Heeds(c, s, waiting, looked),
         NEW t, t.calls = s.calls, t.frames = s.frames,
         Is(t, "SHOULD_CLOSE") <=> Is(s, "SHOULD_CLOSE"),
         Is(t, "RECEIVING_FRAGMENT") <=> Is(s, "RECEIVING_FRAGMENT")
  PROVE  Heeds(c, t, waiting, looked)
<1>1. PICK k : Follows(c, s, waiting, looked, k) \/ Ends(c, s, looked, k)
  BY DEF Heeds
<1>2. CASE Follows(c, s, waiting, looked, k)
  <2>1. Behind(t) = Behind(s) /\ Current(t) = Current(s)
    BY DEF Behind, Current
  <2>2. PICK h : h = HeardOf(c, k)
    OBVIOUS
  <2>3. Agrees(s, h)
    BY <1>2, <2>2 DEF Follows
  <2>4. Agrees(t, h)
    BY <2>1, <2>3 DEF Agrees
  <2>5. Follows(c, t, waiting, looked, k)
    BY <1>2, <2>1, <2>2, <2>4 DEF Follows
  <2> QED BY <2>5 DEF Heeds
<1>3. CASE Ends(c, s, looked, k)
  <2>1. Ends(c, t, looked, k)
    BY <1>3 DEF Ends
  <2> QED BY <2>1 DEF Heeds
<1> QED BY <1>1, <1>2, <1>3

(* With the handshake, nothing of the script is heard yet.                 *)
LEMMA OpenHeeds ==
  ASSUME NEW c \in Seq(ClientFrame), NEW s, Waits(s),
         NEW t, t.frames = s.frames, t.calls = <<<<"onopen">>>>,
         ~Is(t, "SHOULD_CLOSE"), ~Is(t, "RECEIVING_FRAGMENT"),
         NEW waiting, waiting = <<>>
  PROVE  Heeds(c, t, waiting, 0)
<1>1. /\ Len(c) \in Nat /\ 0 \in 0..Len(c)
  BY LenProperties
<1>2. HeardOf(c, 0) = Silence /\ Upto(c, 0) = 0
  BY <1>1, HeardMore, UptoMore
<1>3. PICK h, f : h = Silence /\ f = Current(t)
  OBVIOUS
<1>4. ~h.ended /\ h.opcode = 0 /\ h.calls = <<<<"onopen">>>> /\ h.parts = <<>>
  BY <1>3, SilenceType DEF Silence
<1>5. Behind(t) = <<>> /\ f = FirstFrame
  BY <1>3 DEF Behind, Current, Waits
<1>6. Agrees(t, h)
  BY <1>4, <1>5, NoPayloads DEF Agrees
<1>7. Starting(f) /\ GoodFrame(f)
  BY <1>5, StartingFrames, StartFrames
<1>8. 0 # Len(c) => 0 \in 0..Span(c[1]) - 1 /\ PartOf(f, c[1], 0)
  <2> SUFFICES ASSUME 0 # Len(c)
               PROVE  0 \in 0..Span(c[1]) - 1 /\ PartOf(f, c[1], 0)
    OBVIOUS
  <2>1. c[1] \in ClientFrame
    BY <1>1
  <2>2. Span(c[1]) \in Nat /\ Span(c[1]) >= 3
    BY <2>1, SpanLemma
  <2>3. PartOf(f, c[1], 0)
    BY <1>7, StartingPart
  <2> QED BY <2>2, <2>3
<1>9. \A j \in 1..Len(waiting) : FALSE
  <2>1. Len(waiting) = 0
    OBVIOUS
  <2> QED BY <2>1
<1>10. PICK zero : zero = 0
  OBVIOUS
<1>11. zero + 1 = 1 /\ zero - Upto(c, zero) = 0
  BY <1>2, <1>10
<1>12. zero # Len(c) => /\ zero - Upto(c, zero) \in 0..Span(c[zero + 1]) - 1
                        /\ PartOf(f, c[zero + 1], zero - Upto(c, zero))
  BY <1>8, <1>10, <1>11
<1>13. Follows(c, t, waiting, zero, zero)
  BY <1>1, <1>2, <1>3, <1>4, <1>6, <1>7, <1>9, <1>10, <1>12 DEF Follows
<1> QED BY <1>10, <1>13 DEF Heeds

LEMMA HandshakeHears ==
  ASSUME Shape, IInv, Hearing, libwebsock_handshake
  PROVE  Hearing'
<1>1. PICK k : HandshakeFails(k) \/ HandshakeFinish(k) \/ HandshakeGoesOn(k)
  BY DEF libwebsock_handshake
<1>2. /\ Fresh(state) /\ conn = "open" /\ buf = <<>>
      /\ UNCHANGED <<script, arrived, input, buf>>
  BY <1>1 DEF IInv, Opened, HandshakeFails, HandshakeFinish, HandshakeGoesOn, Dispatching
<1>3. LookedAt' = LookedAt
  BY <1>2 DEF LookedAt
<1>4. ~Is(state, "CONNECTED") /\ Waits(state) /\ arrived = 0 /\ input = <<>>
  BY <1>2 DEF Hearing, Fresh, Is
<1>5. LookedAt \in Nat /\ (buf = <<>> => input = <<>>)
  BY DEF Hearing
<1>6. CASE HandshakeFails(k)
  <2>1. conn' = "leaked"
    BY <1>6 DEF HandshakeFails
  <2> QED BY <1>2, <1>3, <1>5, <2>1 DEF Hearing, Serving
<1>7. CASE HandshakeGoesOn(k)
  <2>1. conn' = conn /\ state' = [state EXCEPT !.data = state.data \o SubSeq(request, 1, k)]
    BY <1>7 DEF HandshakeGoesOn
  <2>2. state'.frames = state.frames /\ state'.flags = state.flags
    BY <1>2, <2>1 DEF Fresh, Fields
  <2>3. Waits(state') /\ ~Is(state', "CONNECTED")
    BY <1>4, <2>2 DEF Waits, Is
  <2> QED BY <1>2, <1>3, <1>4, <1>5, <2>3 DEF Hearing, Serving
<1>8. CASE HandshakeFinish(k)
  <2>1. PICK t : t = Written(state, Response)
    OBVIOUS
  <2>2. DOMAIN t = Fields /\ t.calls = <<>> /\ t.flags = state.flags /\ t.frames = state.frames
    BY <1>2, <2>1 DEF Written, Fresh, Fields
  <2>3. state' = [t EXCEPT
                    !.data = NULL, !.readcb = "recv", !.writecb = "handle_send",
                    !.flags = (@ \ {"CONNECTING"}) \cup {"CONNECTED"},
                    !.calls = Append(@, <<"onopen">>)]
    BY <1>8, <2>1 DEF HandshakeFinish
  <2>4. /\ state'.flags = (state.flags \ {"CONNECTING"}) \cup {"CONNECTED"}
        /\ state'.frames = state.frames /\ state'.calls = Append(<<>>, <<"onopen">>)
    BY <2>2, <2>3 DEF Fields
  <2>5. Append(<<>>, <<"onopen">>) = <<<<"onopen">>>>
    OBVIOUS
  <2>6. /\ ~Is(state', "SHOULD_CLOSE") /\ ~Is(state', "RECEIVING_FRAGMENT")
        /\ Is(state', "CONNECTED")
    BY <1>4, <2>4 DEF Waits, Is
  <2>7. script \in Seq(ClientFrame)
    BY ScriptType DEF Shape
  <2>8. PICK waiting, looked : waiting = (buf \o input)' /\ looked = LookedAt'
    OBVIOUS
  <2>9. waiting = <<>> /\ looked = 0
    <3>1. waiting = <<>> \o <<>>
      BY <1>2, <1>4, <2>8
    <3>2. LookedAt = 0
      <4>1. Len(buf) = 0 /\ Len(input) = 0
        BY <1>2, <1>4
      <4>2. arrived = 0
        BY <1>4
      <4> QED BY <4>1, <4>2 DEF LookedAt
    <3>3. <<>> \o <<>> = <<>>
      OBVIOUS
    <3>4. looked = 0
      BY <1>3, <2>8, <3>2
    <3> QED BY <3>1, <3>3, <3>4
  <2>10. Heeds(script, state', waiting, 0)
    BY <1>4, <2>4, <2>5, <2>6, <2>7, <2>9, OpenHeeds
  <2>11. Heeds(script, state, buf \o input, LookedAt)'
    BY <1>2, <2>8, <2>9, <2>10
  <2> QED BY <1>2, <1>3, <1>5, <2>6, <2>11 DEF Hearing
<1> QED BY <1>1, <1>6, <1>7, <1>8

(* What arrives comes behind what is looked at.                            *)
LEMMA RecvHears ==
  ASSUME Shape, IInv, Hearing, NEW k \in 1..(SizeOf(script) - arrived), HandleRecv(k)
  PROVE  Hearing'
<1>1. /\ conn = "open" /\ buf = <<>> /\ arrived' = arrived + k /\ state.readcb = "recv"
      /\ UNCHANGED <<conn, state, script>>
      /\ buf' = Removed(SubSeq(Stream, arrived + 1, arrived + k))
      /\ input' = Rest(SubSeq(Stream, arrived + 1, arrived + k))
  BY DEF HandleRecv, Dispatching
<1>2. input = <<>>
  BY <1>1 DEF Hearing
<1>3. Is(state, "CONNECTED")
  BY <1>1 DEF IInv, Fresh, Opened, Is
<1>4. /\ arrived \in Nat /\ SizeOf(script) \in Nat /\ k \in Nat
      /\ Stream \in Seq(Byte) /\ Len(Stream) = SizeOf(script) /\ arrived + k <= SizeOf(script)
  BY ScriptType DEF Shape
<1>5. PICK stream, bytes : /\ stream = Stream
                           /\ bytes = SubSeq(stream, arrived + 1, arrived + k)
  OBVIOUS
<1>6. /\ bytes \in Seq(Byte) /\ Len(bytes) = k
      /\ \A j \in 1..k : bytes[j] = stream[arrived + j]
  BY <1>4, <1>5
<1>7. PICK b, i, w : b = buf' /\ i = input' /\ w = (buf \o input)'
  OBVIOUS
<1>8. b = Removed(bytes) /\ i = Rest(bytes)
  BY <1>1, <1>5, <1>7
<1>9. /\ b \in Seq(Byte) /\ i \in Seq(Byte) /\ b \o i = bytes
      /\ b = <<>> => bytes = <<>> /\ i = <<>>
  BY <1>6, <1>8, Refilled
<1>10. w = bytes /\ Len(b) + Len(i) = k /\ Len(b) \in Nat /\ Len(i) \in Nat
  <2>1. w = b \o i
    BY <1>7
  <2>2. Len(w) = Len(b) + Len(i) /\ Len(b) \in Nat /\ Len(i) \in Nat
    BY <1>9, <2>1, ConcatAt
  <2> QED BY <1>6, <1>9, <2>1, <2>2
<1>11. LookedAt = arrived
  <2>1. Len(buf) = 0 /\ Len(input) = 0
    BY <1>1, <1>2
  <2> QED BY <1>4, <2>1 DEF LookedAt
<1>12. LookedAt' = arrived
  <2>1. PICK a : a = arrived'
    OBVIOUS
  <2>2. LookedAt' = a - Len(i) - Len(b)
    BY <1>7, <2>1 DEF LookedAt
  <2>3. a = arrived + k
    BY <1>1, <2>1
  <2> QED BY <1>4, <1>10, <2>2, <2>3
<1>13. Heeds(script, state, w, arrived)
  <2>1. PICK m : Follows(script, state, buf \o input, arrived, m) \/ Ends(script, state, arrived, m)
    BY <1>1, <1>3, <1>11 DEF Hearing, Serving, Heeds
  <2>2. CASE Follows(script, state, buf \o input, arrived, m)
    <3>1. \A j \in 1..Len(w) : w[j] = StreamOf(script)[arrived + j]
      BY <1>5, <1>6, <1>10 DEF Stream, StreamOf
    <3>2. Follows(script, state, w, arrived, m)
      BY <2>2, <3>1 DEF Follows
    <3> QED BY <3>2 DEF Heeds
  <2>3. CASE Ends(script, state, arrived, m)
    BY <2>3 DEF Heeds
  <2> QED BY <2>1, <2>2, <2>3
<1>14. Heeds(script, state, buf \o input, LookedAt)'
  BY <1>1, <1>7, <1>12, <1>13
<1>15. (buf = <<>> => input = <<>>)' /\ LookedAt' \in Nat
  BY <1>4, <1>7, <1>9, <1>12
<1>16. Is(state, "CONNECTED")'
  BY <1>1, <1>3
<1> QED BY <1>14, <1>15, <1>16 DEF Hearing

LEMMA EndsLater ==
  ASSUME NEW c \in Seq(ClientFrame), NEW s, NEW looked \in Nat, NEW k, Ends(c, s, looked, k),
         NEW later \in Nat, later >= looked
  PROVE  Ends(c, s, later, k)
<1>1. k \in 1..Len(c) /\ Upto(c, k - 1) + Span(c[k]) <= looked
  BY DEF Ends
<1>2. k - 1 \in 0..Len(c) /\ c[k] \in ClientFrame
  <2>1. Len(c) \in Nat
    BY LenProperties
  <2> QED BY <1>1, <2>1
<1>3. Upto(c, k - 1) \in Nat /\ Span(c[k]) \in Nat
  BY <1>2, UptoMore, SpanLemma
<1>4. Upto(c, k - 1) + Span(c[k]) <= later
  BY <1>1, <1>3
<1> QED BY <1>4 DEF Ends

(* A connection that is over calls for no message it was heard of.         *)
LEMMA EndsTook ==
  ASSUME NEW c, NEW s, NEW looked, NEW k, Ends(c, s, looked, k),
         DOMAIN s = Fields, Chain(s.frames),
         NEW b, NEW taken, NEW acted, Took(s, b, taken, acted), GoodFrame(taken.frame)
  PROVE  Ends(c, acted, looked, k)
<1>1. PICK f, kept, checked :
        /\ f = taken.frame /\ kept = WithCurrent(s, f)
        /\ checked = IF taken.result = -1
                     THEN libwebsock_fail_connection(kept, PROTOCOL_ERROR) ELSE kept
  OBVIOUS
<1>2. DOMAIN kept = Fields /\ kept.calls = s.calls
  BY <1>1, KeptAgrees
<1>3. DOMAIN checked = Fields /\ checked.calls = s.calls
  <2>1. CASE taken.result = -1
    <3>1. checked = libwebsock_fail_connection(kept, PROTOCOL_ERROR)
      BY <1>1, <2>1
    <3> QED BY <1>2, <3>1, FailCalls
  <2>2. CASE taken.result # -1
    BY <1>1, <1>2, <2>2
  <2> QED BY <2>1, <2>2
<1>4. acted = checked \/ acted = FrameComplete(checked, f)
  BY <1>1 DEF Took
<1>5. OneCallMore(checked, acted)
  <2>1. CASE acted = checked
    BY <1>3, <2>1 DEF OneCallMore
  <2>2. CASE acted = FrameComplete(checked, f)
    <3>1. f \in Frame
      BY <1>1 DEF GoodFrame
    <3> QED BY <1>3, <2>2, <3>1, CompleteCalls
  <2> QED BY <1>4, <2>1, <2>2
<1>6. Grows(HeardOf(c, k).calls, checked.calls)
  BY <1>3 DEF Ends
<1>7. Grows(HeardOf(c, k).calls, acted.calls)
  BY <1>5, <1>6, GrowsOneCall
<1> QED BY <1>7 DEF Ends

LEMMA TookOpened ==
  ASSUME NEW s, Opened(s), NEW b, NEW taken, NEW acted, Took(s, b, taken, acted)
  PROVE  Is(acted, "CONNECTED")
<1>1. PICK kept, checked :
        /\ kept = WithCurrent(s, taken.frame)
        /\ checked = IF taken.result = -1
                     THEN libwebsock_fail_connection(kept, PROTOCOL_ERROR) ELSE kept
  OBVIOUS
<1>2. acted = checked \/ acted = FrameComplete(checked, taken.frame)
  BY <1>1 DEF Took
<1>3. Opened(kept)
  BY <1>1, FramesKeep DEF WithCurrent
<1>4. Opened(checked)
  BY <1>1, <1>3, FailKeeps
<1>5. Opened(acted)
  BY <1>2, <1>4, CompleteKeeps
<1> QED BY <1>5 DEF Opened, Is

LEMMA Counted ==
  ASSUME NEW a \in Nat, NEW m \in Nat, NEW n \in Nat, NEW r \in Nat, NEW x \in Nat, NEW y \in Nat,
         m > 0, x + y = r + n, r = m - 1 \/ r = 0,
         NEW looked \in Nat, looked = a - n - m, NEW later, later = a - y - x
  PROVE  later \in Nat /\ later >= looked + 1 /\ (r = m - 1 => later = looked + 1)
OBVIOUS

LEMMA RecvByteHears ==
  ASSUME Shape, Shape', IInv, Hearing, HandleRecvByte
  PROVE  Hearing'
<1>1. /\ conn = "open" /\ buf # <<>>
      /\ UNCHANGED <<conn, script, arrived>>
  BY DEF HandleRecvByte
<1>2. Opened(state) /\ Is(state, "CONNECTED")
  BY <1>1 DEF IInv, Opened, Is
<1>3. /\ DOMAIN state = Fields /\ Chain(state.frames) /\ Chain(state'.frames)
      /\ buf \in Seq(Byte) /\ input \in Seq(Byte) /\ script \in Seq(ClientFrame)
      /\ arrived \in Nat /\ SizeOf(script) \in Nat /\ arrived <= SizeOf(script)
  BY ScriptType DEF Shape, Sound
<1>4. PICK byte, taken, acted, complete :
        /\ byte = Head(buf) /\ Took(state, byte, taken, acted)
        /\ complete = (taken.result # 0 /\ Complete(taken.frame))
        /\ state' = acted
        /\ Buffers(Turn(acted, complete))
  <2>1. PICK taken, checked, acted :
          LET kept == WithCurrent(state, taken.frame)
              complete == taken.result # 0 /\ Complete(taken.frame)
          IN /\ taken = ByteTaken(Current(state), Head(buf))
             /\ checked = IF taken.result = -1
                          THEN libwebsock_fail_connection(kept, PROTOCOL_ERROR)
                          ELSE kept
             /\ acted = IF complete THEN FrameComplete(checked, taken.frame) ELSE checked
             /\ state' = acted
             /\ Buffers(Turn(acted, complete))
    BY Zenon DEF HandleRecvByte
  <2>2. PICK complete : complete = (taken.result # 0 /\ Complete(taken.frame))
    OBVIOUS
  <2>3. Took(state, Head(buf), taken, acted)
    BY <2>1, Zenon DEF Took
  <2>4. Buffers(Turn(acted, complete))
    BY <2>1, <2>2, Zenon
  <2> QED BY <2>1, <2>2, <2>3, <2>4, Zenon
<1>5. Is(state', "CONNECTED")
  BY <1>2, <1>4, TookOpened
<1>6. PICK waiting, left : waiting = buf \o input /\ left = Tail(buf) \o input
  OBVIOUS
<1>7. /\ Tail(buf) \in Seq(Byte) /\ Len(Tail(buf)) = Len(buf) - 1 /\ Head(buf) = buf[1]
      /\ buf[1] \in Byte /\ Head(buf) = (buf \o input)[1]
      /\ \A j \in 1..Len(buf) + Len(input) - 1 : (Tail(buf) \o input)[j] = (buf \o input)[j + 1]
  BY <1>1, <1>3, TailAt
<1>8. byte \in Byte /\ byte = waiting[1]
  BY <1>4, <1>6, <1>7
<1>9. /\ Len(waiting) = Len(buf) + Len(input) /\ Len(left) = Len(waiting) - 1
      /\ Len(buf) \in Nat /\ Len(buf) > 0 /\ Len(input) \in Nat
  <2>1. Len(waiting) = Len(buf) + Len(input) /\ Len(buf) \in Nat /\ Len(input) \in Nat
    BY <1>3, <1>6, ConcatAt
  <2>2. Len(buf) > 0
    BY <1>1, <1>3
  <2>3. PICK t : t = Tail(buf)
    OBVIOUS
  <2>4. Len(left) = Len(t) + Len(input) /\ Len(t) = Len(buf) - 1
    <3>1. t \in Seq(Byte) /\ left = t \o input
      BY <1>6, <1>7, <2>3
    <3> QED BY <1>3, <1>7, <2>3, <3>1, ConcatAt
  <2> QED BY <2>1, <2>2, <2>4
<1>10. /\ LookedAt \in Nat /\ LookedAt + Len(waiting) <= SizeOf(script)
  <2>1. LookedAt \in Nat
    BY DEF Hearing
  <2>2. LookedAt = arrived - Len(input) - Len(buf)
    BY DEF LookedAt
  <2> QED BY <1>3, <1>9, <2>1, <2>2
<1>11. PICK looked : looked = LookedAt
  OBVIOUS
<1>12. \A j \in 1..Len(left) : left[j] = waiting[j + 1]
  BY <1>6, <1>7, <1>9
<1>13. GoodFrame(taken.frame)
  <2>1. PICK f : f = Current(state)
    OBVIOUS
  <2>2. GoodFrame(f) /\ taken = ByteTaken(f, byte)
    BY <1>3, <1>4, <2>1, CurrentGood DEF Took
  <2>3. Reads(ByteTaken(f, byte), Append(f.raw, byte))
    BY <1>8, <2>2, ByteTakenGood
  <2> QED BY <2>2, <2>3 DEF Reads
<1>14. \E m : \/ Follows(script, acted, left, looked + 1, m)
              \/ Ends(script, acted, looked + 1, m)
  <2>1. PICK k : Follows(script, state, waiting, looked, k) \/ Ends(script, state, looked, k)
    BY <1>1, <1>2, <1>6, <1>11 DEF Hearing, Serving, Heeds
  <2>2. CASE Follows(script, state, waiting, looked, k)
    <3>1. Chain(acted.frames)
      BY <1>3, <1>4
    <3>2. Took(state, byte, taken, acted)
      BY <1>4
    <3>3. looked \in Nat /\ Len(waiting) \in Nat /\ Len(waiting) > 0
          /\ looked + Len(waiting) <= SizeOf(script) /\ Len(left) = Len(waiting) - 1
      BY <1>9, <1>10, <1>11
    <3> QED BY <1>3, <1>8, <1>12, <2>2, <3>1, <3>2, <3>3, ByteHeard
  <2>3. CASE Ends(script, state, looked, k)
    <3>1. Took(state, byte, taken, acted)
      BY <1>4
    <3>2. Ends(script, acted, looked, k)
      BY <1>3, <1>13, <2>3, <3>1, EndsTook
    <3>3. looked \in Nat /\ looked + 1 \in Nat /\ looked + 1 >= looked
      BY <1>10, <1>11
    <3>4. Ends(script, acted, looked + 1, k)
      BY <1>3, <3>2, <3>3, EndsLater
    <3> QED BY <3>4
  <2> QED BY <2>1, <2>2, <2>3
<1>15. PICK rest, b, i : rest = Turn(acted, complete) /\ b = buf' /\ i = input'
  OBVIOUS
<1>16. rest \in Seq(Byte) /\ (rest = Tail(buf) \/ (rest = <<>> /\ Is(acted, "SHOULD_CLOSE")))
  <2>1. CASE complete /\ Is(acted, "SHOULD_CLOSE")
    <3>1. rest = <<>>
      BY <1>15, <2>1 DEF Turn
    <3>2. rest \in Seq(Byte)
      BY <3>1, EmptySeq
    <3> QED BY <2>1, <3>1, <3>2
  <2>2. CASE ~(complete /\ Is(acted, "SHOULD_CLOSE"))
    <3>1. rest = Tail(buf)
      BY <1>15, <2>2 DEF Turn
    <3> QED BY <1>7, <3>1
  <2> QED BY <2>1, <2>2
<1>17. Passed(buf, input, rest, b, i)
  <2>1. IF rest = <<>> THEN b = Removed(input) /\ i = Rest(input) ELSE b = rest /\ i = input
    BY <1>4, <1>15 DEF Buffers
  <2> QED BY <1>3, <1>16, <2>1, BuffersPass
<1>18. /\ b = <<>> => i = <<>>
       /\ b \o i = rest \o input
       /\ Len(b) \in Nat /\ Len(i) \in Nat /\ Len(rest) \in Nat
       /\ Len(b) + Len(i) = Len(rest) + Len(input)
  BY <1>17 DEF Passed
<1>19. LookedAt' = arrived - Len(i) - Len(b)
  <2>1. arrived' = arrived
    BY <1>1
  <2> QED BY <1>15, <2>1 DEF LookedAt
<1>20. looked = arrived - Len(input) - Len(buf) /\ looked \in Nat
  BY <1>10, <1>11 DEF LookedAt
<1>21. /\ rest = Tail(buf) => LookedAt' = looked + 1
       /\ LookedAt' >= looked + 1 /\ LookedAt' \in Nat
  <2>1. (rest = Tail(buf) => Len(rest) = Len(buf) - 1) /\ (rest # Tail(buf) => Len(rest) = 0)
    <3>1. rest # Tail(buf) => rest = <<>>
      BY <1>16
    <3>2. rest = <<>> => Len(rest) = 0
      OBVIOUS
    <3> QED BY <1>7, <3>1, <3>2
  <2>2. PICK later : later = LookedAt'
    OBVIOUS
  <2>3. PICK m, n, r, x, y : m = Len(buf) /\ n = Len(input) /\ r = Len(rest) /\ x = Len(b) /\ y = Len(i)
    OBVIOUS
  <2>4. m \in Nat /\ n \in Nat /\ r \in Nat /\ x \in Nat /\ y \in Nat /\ m > 0 /\ x + y = r + n
    BY <1>9, <1>18, <2>3
  <2>5. looked = arrived - n - m /\ later = arrived - y - x /\ (r = m - 1 \/ r = 0)
    BY <1>19, <1>20, <2>1, <2>2, <2>3
  <2>6. later \in Nat /\ later >= looked + 1 /\ (r = m - 1 => later = looked + 1)
    <3>1. arrived \in Nat /\ looked \in Nat
      BY <1>3, <1>20
    <3>2. x + y = r + n /\ m > 0
      BY <2>4
    <3>3. m \in Nat /\ n \in Nat /\ r \in Nat /\ x \in Nat /\ y \in Nat
      BY <2>4
    <3> QED BY <2>5, <3>1, <3>2, <3>3, Counted
  <2> QED BY <2>1, <2>2, <2>3, <2>6
<1>22. Heeds(script, acted, b \o i, LookedAt')
  <2>1. PICK m : \/ Follows(script, acted, left, looked + 1, m)
                 \/ Ends(script, acted, looked + 1, m)
    BY <1>14
  <2>2. CASE Follows(script, acted, left, looked + 1, m)
    <3>1. ~Is(acted, "SHOULD_CLOSE")
      BY <2>2 DEF Follows, Agrees
    <3>2. rest = Tail(buf)
      BY <1>16, <3>1
    <3>3. b \o i = left /\ LookedAt' = looked + 1
      BY <1>6, <1>18, <1>21, <3>2
    <3> QED BY <2>2, <3>3 DEF Heeds
  <2>3. CASE Ends(script, acted, looked + 1, m)
    <3>1. looked + 1 \in Nat
      BY <1>20
    <3>2. Ends(script, acted, LookedAt', m)
      BY <1>3, <1>21, <2>3, <3>1, EndsLater
    <3> QED BY <3>2 DEF Heeds
  <2> QED BY <2>1, <2>2, <2>3
<1>23. Heeds(script, state, buf \o input, LookedAt)'
  BY <1>1, <1>4, <1>15, <1>22
<1>24. (buf = <<>> => input = <<>>)' /\ LookedAt' \in Nat
  BY <1>15, <1>18, <1>21
<1> QED BY <1>5, <1>23, <1>24 DEF Hearing

LEMMA HearingSame ==
  ASSUME Hearing, UNCHANGED <<state, script, arrived, input, buf>>, conn' \in {conn, "shut"}
  PROVE  Hearing'
<1>1. LookedAt' = LookedAt
  BY DEF LookedAt
<1>2. CASE conn' = conn
  <2>1. Serving' <=> Serving
    BY <1>2 DEF Serving
  <2> QED BY <1>1, <1>2, <2>1 DEF Hearing
<1>3. CASE conn' = "shut"
  BY <1>1, <1>3 DEF Hearing, Serving
<1> QED BY <1>2, <1>3

LEMMA ShutHears ==
  ASSUME Hearing, UNCHANGED <<script, arrived, input, buf>>, conn' = "shut"
  PROVE  Hearing'
<1>1. LookedAt' = LookedAt
  BY DEF LookedAt
<1> QED BY <1>1 DEF Hearing, Serving

LEMMA HearingStep ==
  ASSUME Shape, Shape', IInv, Hearing, [Next]_vars
  PROVE  Hearing'
<1>1. CASE UNCHANGED <<conn, state, script, arrived, input, buf>>
  BY <1>1, HearingSame
<1>2. ASSUME NEW writecb, AcceptWith(writecb)
      PROVE  Hearing'
  <2>1. /\ conn = "none" /\ conn' = "open" /\ state' = NewState(writecb)
        /\ UNCHANGED <<script, arrived, input, buf>>
    BY <1>2 DEF AcceptWith
  <2>2. ~Is(state, "CONNECTED")
    BY <2>1 DEF IInv, Fresh, Is
  <2>3. arrived = 0 /\ buf = <<>>
    BY <2>1, <2>2 DEF Hearing
  <2>4. Waits(state')
    BY <2>1 DEF NewState, Waits, Is
  <2>5. ~Is(state', "CONNECTED")
    BY <2>4 DEF Waits
  <2>6. LookedAt' = LookedAt
    BY <2>1 DEF LookedAt
  <2> QED BY <2>1, <2>3, <2>4, <2>5, <2>6 DEF Hearing, Serving
<1>3. CASE libwebsock_handshake
  BY <1>3, HandshakeHears
<1>4. CASE \E k \in 1..(SizeOf(script) - arrived) : HandleRecv(k)
  BY <1>4, RecvHears
<1>5. CASE HandleRecvByte
  BY <1>5, RecvByteHears
<1>6. CASE HandleSend
  <2>1. UNCHANGED <<script, arrived, input, buf>>
    BY <1>6 DEF HandleSend
  <2>2. conn' = "shut" \/ UNCHANGED <<conn, state>>
    BY <1>6 DEF HandleSend, libwebsock_shutdown
  <2> QED BY <2>1, <2>2, ShutHears, HearingSame
<1>7. CASE DoEvent
  <2>1. UNCHANGED <<script, arrived, input, buf>> /\ conn' = "shut"
    BY <1>7 DEF DoEvent, libwebsock_shutdown
  <2> QED BY <2>1, ShutHears
<1>8. CASE libwebsock_close_with_reason
  <2>1. /\ UNCHANGED <<conn, script, arrived, input, buf>>
        /\ conn = "open" /\ Is(state, "CONNECTED")
    BY <1>8 DEF libwebsock_close_with_reason, Dispatching
  <2>2. PICK t : t = Written(state, CloseFrame(GOING_AWAY))
    OBVIOUS
  <2>3. DOMAIN t = Fields /\ t.calls = state.calls /\ t.flags = state.flags
        /\ t.frames = state.frames
    BY <2>2, WrittenCalls DEF Shape, Sound
  <2>4. state' = [t EXCEPT !.flags = @ \cup {"SENT_CLOSE_FRAME"}]
    BY <1>8, <2>2 DEF libwebsock_close_with_reason
  <2>5. PICK s : s = state'
    OBVIOUS
  <2>6. /\ s.calls = state.calls /\ s.frames = state.frames
        /\ s.flags = state.flags \cup {"SENT_CLOSE_FRAME"}
    BY <2>3, <2>4, <2>5 DEF Fields
  <2>7. /\ Is(s, "SHOULD_CLOSE") <=> Is(state, "SHOULD_CLOSE")
        /\ Is(s, "RECEIVING_FRAGMENT") <=> Is(state, "RECEIVING_FRAGMENT")
        /\ Is(s, "CONNECTED")
    BY <2>1, <2>6 DEF Is
  <2>8. Heeds(script, state, buf \o input, LookedAt)
    BY <2>1 DEF Hearing, Serving
  <2>9. Heeds(script, s, buf \o input, LookedAt)
    BY <2>6, <2>7, <2>8, HeedsKept
  <2>10. LookedAt' = LookedAt
    BY <2>1 DEF LookedAt
  <2>11. Heeds(script, state, buf \o input, LookedAt)' /\ Is(state, "CONNECTED")'
    BY <2>1, <2>5, <2>7, <2>9, <2>10
  <2> QED BY <2>1, <2>10, <2>11 DEF Hearing
<1>9. CASE libwebsock_bind \/ libwebsock_bind_ssl_real \/ libwebsock_wait \/ Signal
  BY <1>1, <1>9 DEF libwebsock_bind, libwebsock_bind_ssl_real, libwebsock_wait, Signal
<1>10. CASE UNCHANGED vars
  <2>1. UNCHANGED <<conn, state, script, arrived, input, buf>>
    BY <1>10 DEF vars
  <2> QED BY <1>1, <2>1
<1> QED
  BY <1>2, <1>3, <1>4, <1>5, <1>6, <1>7, <1>8, <1>9, <1>10
  DEF Next, libwebsock_handle_accept, libwebsock_handle_accept_ssl

LEMMA HearingInit ==
  ASSUME Init
  PROVE  Hearing
<1>1. /\ conn = "none" /\ state = NewState("NULL") /\ arrived = 0
      /\ input = <<>> /\ buf = <<>>
  BY DEF Init
<1>2. Waits(state)
  BY <1>1 DEF NewState, Waits, Is
<1>3. LookedAt = 0
  <2>1. Len(buf) = 0 /\ Len(input) = 0
    BY <1>1
  <2>2. arrived = 0
    BY <1>1
  <2> QED BY <2>1, <2>2 DEF LookedAt
<1> QED BY <1>1, <1>2, <1>3 DEF Hearing, Serving, Waits

LEMMA GrowsPrefix ==
  ASSUME NEW calls, NEW more, Grows(calls, more)
  PROVE  IsPrefix(calls, more)
<1>1. PICK S, T : calls \in Seq(S) /\ more \in Seq(T)
  BY DEF Grows, IsSeq
<1>2. PICK E : E = S \cup T
  OBVIOUS
<1>3. calls \in Seq(E) /\ more \in Seq(E)
  <2>1. S \subseteq E /\ T \subseteq E
    BY <1>2
  <2> QED BY <1>1, <2>1, SeqMonotonic
<1>4. /\ Len(calls) \in Nat /\ Len(more) \in Nat /\ Len(calls) <= Len(more)
      /\ \A i \in 1..Len(calls) : more[i] = calls[i]
  BY <1>3, LenProperties DEF Grows
<1>5. PICK x, y : x = SubSeq(calls, 1, Len(calls)) /\ y = SubSeq(more, 1, Len(calls))
  OBVIOUS
<1>6. x = calls
  BY <1>3, <1>5, FirstMore
<1>7. /\ y \in Seq(E) /\ Len(y) = Len(calls)
      /\ \A i \in 1..Len(calls) : y[i] = more[i]
  BY <1>3, <1>4, <1>5
<1>8. x = y
  BY <1>3, <1>4, <1>6, <1>7, SeqEqual
<1> QED BY <1>4, <1>5, <1>8 DEF IsPrefix

(* Where the connection is decides how much of its script it has to have   *)
(* heard.                                                                  *)
LEMMA HearingDelivers ==
  ASSUME Shape, Hearing
  PROVE  MessagesDelivered
<1> SUFFICES ASSUME Serving
             PROVE  LET meant == Meant
                    IN /\ IsPrefix(meant.calls, state.calls)
                       /\ ~meant.ended => state.calls = meant.calls
  BY DEF MessagesDelivered
<1>1. PICK k : \/ Follows(script, state, buf \o input, LookedAt, k)
               \/ Ends(script, state, LookedAt, k)
  BY DEF Hearing, Heeds
<1>2. script \in Scripts /\ script \in Seq(ClientFrame) /\ LookedAt \in Nat /\ Len(script) \in Nat
  BY ScriptType, LenProperties DEF Shape, Hearing
<1>3. PICK m \in 0..Len(script) :
        /\ Meant = HeardOf(script, m)
        /\ \A i \in 1..Len(script) : Decided(i) <= LookedAt <=> i <= m
  BY <1>2, MeantIs
<1>4. PICK looked : looked = LookedAt
  OBVIOUS
<1>5. \A i \in 1..Len(script) : Upto(script, i - 1) + Span(script[i]) <= looked <=> i <= m
  <2> SUFFICES ASSUME NEW i \in 1..Len(script)
               PROVE  Upto(script, i - 1) + Span(script[i]) <= looked <=> i <= m
    OBVIOUS
  <2>1. Decided(i) = Upto(script, i - 1) + Span(script[i])
    BY <1>2, DecidedIs
  <2> QED BY <1>3, <1>4, <2>1
<1>6. CASE Follows(script, state, buf \o input, looked, k)
  <2>1. /\ k \in 0..Len(script) /\ ~HeardOf(script, k).ended
        /\ Agrees(state, HeardOf(script, k))
        /\ k > 0 => Upto(script, k - 1) + Span(script[k]) <= looked
        /\ k # Len(script) => looked - Upto(script, k) \in 0..Span(script[k + 1]) - 1
    BY <1>6 DEF Follows
  <2>2. k <= m
    <3>1. CASE k = 0
      BY <1>2, <3>1
    <3>2. CASE k # 0
      <4>1. k > 0 /\ k \in 1..Len(script)
        BY <2>1, <3>2
      <4> QED BY <1>5, <2>1, <4>1
    <3> QED BY <3>1, <3>2
  <2>3. m <= k
    <3>1. CASE k = Len(script)
      BY <1>2, <3>1
    <3>2. CASE k # Len(script)
      <4>1. PICK i : i = k + 1
        OBVIOUS
      <4>2. i \in 1..Len(script) /\ i - 1 = k /\ k < Len(script)
        BY <1>2, <2>1, <3>2, <4>1
      <4>3. Upto(script, k) \in Nat /\ script[i] \in ClientFrame
        BY <1>2, <2>1, <4>2, UptoMore
      <4>4. Span(script[i]) \in Nat
        BY <4>3, SpanLemma
      <4>5. looked - Upto(script, k) \in 0..Span(script[i]) - 1
        BY <2>1, <3>2, <4>1
      <4>6. ~(Upto(script, k) + Span(script[i]) <= looked)
        BY <1>2, <1>4, <4>3, <4>4, <4>5
      <4>7. ~(i <= m)
        BY <1>5, <4>2, <4>6
      <4> QED BY <1>2, <2>1, <4>1, <4>7
    <3> QED BY <3>1, <3>2
  <2>4. m = k
    BY <1>2, <2>1, <2>2, <2>3
  <2>5. PICK h : h = HeardOf(script, k)
    OBVIOUS
  <2>6. ~h.ended /\ state.calls = h.calls /\ Meant = h
    BY <1>3, <2>1, <2>4, <2>5 DEF Agrees
  <2>7. IsPrefix(h.calls, state.calls)
    <3>1. h \in Hearings
      BY <1>2, <2>1, <2>5, HeardMore
    <3>2. IsSeq(h.calls)
      BY <3>1 DEF Hearings, IsSeq
    <3> QED BY <2>6, <3>2, GrowsItself, GrowsPrefix
  <2> QED BY <2>6, <2>7
<1>7. CASE Ends(script, state, looked, k)
  <2>1. /\ k \in 1..Len(script) /\ HeardOf(script, k).ended
        /\ Upto(script, k - 1) + Span(script[k]) <= looked
        /\ Grows(HeardOf(script, k).calls, state.calls)
    BY <1>7 DEF Ends
  <2>2. k <= m
    BY <1>5, <2>1
  <2>3. k \in 0..Len(script) /\ m \in k..Len(script)
    BY <1>2, <2>1, <2>2
  <2>4. HeardOf(script, m) = HeardOf(script, k)
    BY <1>2, <2>1, <2>3, EndedStays
  <2>5. PICK h : h = HeardOf(script, k)
    OBVIOUS
  <2>6. h.ended /\ Meant = h /\ IsPrefix(h.calls, state.calls)
    BY <1>3, <2>1, <2>4, <2>5, GrowsPrefix
  <2> QED BY <2>6
<1> QED BY <1>1, <1>4, <1>6, <1>7

LEMMA HearingInvariant == Spec => []Hearing
<1>1. Shape /\ IInv /\ Hearing /\ Shape' /\ [Next]_vars => Hearing'
  BY HearingStep
<1>2. Init => Hearing
  BY HearingInit
<1> QED BY <1>1, <1>2, ShapeInvariant, Inductive, PTL DEF Spec

(* Whatever a client sends, however it is cut and however it is fragmented, *)
(* the application hears all of it, once and in order.                     *)
THEOREM MessagesAreDelivered == Spec => []MessagesDelivered
<1>1. Shape /\ Hearing => MessagesDelivered
  BY HearingDelivers
<1> QED BY <1>1, HearingInvariant, ShapeInvariant, PTL

-----------------------------------------------------------------------------
(* What waits in the buffers *)

(* The bytes w are those of the stream before its byte number a.           *)
Before(w, a, stream) ==
  Len(w) <= a /\ \A j \in 1..Len(w) : w[j] = stream[a - Len(w) + j]

Held == Before(buf \o input, arrived, Stream)

LEMMA PieceOf ==
  ASSUME NEW s \in Seq(Byte), NEW m \in Nat, NEW n \in Nat, m <= n, n <= Len(s),
         NEW q, q = SubSeq(s, m + 1, n)
  PROVE  /\ q \in Seq(Byte) /\ Len(q) = n - m
         /\ \A j \in 1..n - m : q[j] = s[m + j]
<1>1. m + 1 \in 1..n + 1 /\ m + 1 \in Int /\ n \in Int /\ n \in 0..Len(s)
  BY LenProperties
<1>2. PICK from : from = m + 1
  OBVIOUS
<1>3. q = SubSeq(s, from, n) /\ from \in Nat /\ from >= 1 /\ from <= n + 1
  BY <1>1, <1>2
<1>4. q \in Seq(Byte) /\ Len(q) = n - from + 1 /\ \A j \in 1..n - from + 1 : q[j] = s[from + j - 1]
  BY <1>1, <1>3
<1>5. n - from + 1 = n - m /\ \A j \in 1..n - m : from + j - 1 = m + j
  BY <1>2
<1> QED BY <1>4, <1>5

LEMMA HeldRecv ==
  ASSUME Shape, Hearing, NEW k \in 1..(SizeOf(script) - arrived), HandleRecv(k)
  PROVE  Held'
<1>1. /\ arrived' = arrived + k /\ script' = script
      /\ buf' = Removed(SubSeq(Stream, arrived + 1, arrived + k))
      /\ input' = Rest(SubSeq(Stream, arrived + 1, arrived + k))
  BY DEF HandleRecv
<1>2. /\ arrived \in Nat /\ SizeOf(script) \in Nat /\ k \in Nat
      /\ Stream \in Seq(Byte) /\ Len(Stream) = SizeOf(script) /\ arrived + k <= SizeOf(script)
  BY ScriptType DEF Shape
<1>3. PICK stream, bytes : /\ stream = Stream
                           /\ bytes = SubSeq(stream, arrived + 1, arrived + k)
  OBVIOUS
<1>4. /\ bytes \in Seq(Byte) /\ Len(bytes) = k
      /\ \A j \in 1..k : bytes[j] = stream[arrived + j]
  <2>1. PICK m, n : m = arrived /\ n = arrived + k
    OBVIOUS
  <2>2. /\ m \in Nat /\ n \in Nat /\ m <= n /\ n <= Len(stream) /\ n - m = k
        /\ stream \in Seq(Byte) /\ bytes = SubSeq(stream, m + 1, n)
    BY <1>2, <1>3, <2>1
  <2>3. /\ bytes \in Seq(Byte) /\ Len(bytes) = n - m
        /\ \A j \in 1..n - m : bytes[j] = stream[m + j]
    BY <2>2, PieceOf
  <2> QED BY <2>1, <2>2, <2>3
<1>5. Removed(bytes) \o Rest(bytes) = bytes
  BY <1>4, Refilled
<1>6. (buf \o input)' = bytes
  BY <1>1, <1>3, <1>5
<1>7. PICK a : a = arrived + k
  OBVIOUS
<1>8. a \in Nat /\ Len(bytes) <= a /\ a - Len(bytes) = arrived
  BY <1>2, <1>4, <1>7
<1>9. Before(bytes, a, stream)
  BY <1>4, <1>8 DEF Before
<1>10. Stream' = stream /\ arrived' = a
  BY <1>1, <1>3, <1>7 DEF Stream
<1> QED BY <1>6, <1>9, <1>10 DEF Held

(* A byte is taken, or all of the local buffer is dropped.                 *)
LEMMA BeforeTail ==
  ASSUME NEW b \in Seq(Byte), NEW i \in Seq(Byte), b # <<>>, NEW a \in Nat, NEW stream,
         Before(b \o i, a, stream), NEW rest \in {Tail(b), <<>>}
  PROVE  Before(rest \o i, a, stream)
<1>1. PICK w : w = b \o i
  OBVIOUS
<1>2. /\ Len(w) = Len(b) + Len(i) /\ Len(b) \in Nat /\ Len(i) \in Nat
      /\ \A j \in 1..Len(i) : w[Len(b) + j] = i[j]
  BY <1>1, ConcatAt
<1>3. Len(b) > 0
  BY <1>2
<1>4. Len(w) <= a /\ \A j \in 1..Len(w) : w[j] = stream[a - Len(w) + j]
  BY <1>1 DEF Before
<1>5. CASE rest = Tail(b)
  <2>1. PICK t, v : t = Tail(b) /\ v = t \o i
    OBVIOUS
  <2>2. /\ t \in Seq(Byte) /\ Len(t) = Len(b) - 1
        /\ \A j \in 1..Len(b) + Len(i) - 1 : v[j] = w[j + 1]
    BY <1>1, <2>1, TailAt
  <2>3. Len(v) = Len(t) + Len(i)
    BY <2>1, <2>2, ConcatAt
  <2>4. Len(v) = Len(w) - 1 /\ \A j \in 1..Len(w) - 1 : v[j] = w[j + 1]
    BY <1>2, <2>2, <2>3
  <2>5. \A j \in 1..Len(v) : v[j] = stream[a - Len(v) + j]
    <3> SUFFICES ASSUME NEW j \in 1..Len(v)
                 PROVE  v[j] = stream[a - Len(v) + j]
      OBVIOUS
    <3>1. PICK m : m = j + 1
      OBVIOUS
    <3>2. m \in 1..Len(w) /\ v[j] = w[m]
      BY <1>2, <2>4, <3>1
    <3>3. a - Len(w) + m = a - Len(v) + j
      BY <1>2, <2>4, <3>1
    <3>4. w[m] = stream[a - Len(w) + m]
      BY <1>4, <3>2
    <3> QED BY <3>2, <3>3, <3>4
  <2>6. Len(v) <= a
    BY <1>2, <1>4, <2>4
  <2>7. Before(v, a, stream)
    BY <2>5, <2>6 DEF Before
  <2> QED BY <1>5, <2>1, <2>7
<1>6. CASE rest = <<>>
  <2>1. rest \o i = i
    BY <1>6
  <2>2. \A j \in 1..Len(i) : i[j] = stream[a - Len(i) + j]
    <3> SUFFICES ASSUME NEW j \in 1..Len(i)
                 PROVE  i[j] = stream[a - Len(i) + j]
      OBVIOUS
    <3>1. PICK m : m = Len(b) + j
      OBVIOUS
    <3>2. m \in 1..Len(w) /\ w[m] = i[j]
      BY <1>2, <3>1
    <3>3. a - Len(w) + m = a - Len(i) + j
      BY <1>2, <3>1
    <3>4. w[m] = stream[a - Len(w) + m]
      BY <1>4, <3>2
    <3> QED BY <3>2, <3>3, <3>4
  <2>3. Len(i) <= a
    BY <1>2, <1>4
  <2> QED BY <2>1, <2>2, <2>3 DEF Before
<1> QED BY <1>5, <1>6

LEMMA HeldByte ==
  ASSUME Shape, Held, HandleRecvByte
  PROVE  Held'
<1>1. buf # <<>> /\ UNCHANGED <<script, arrived>>
  BY DEF HandleRecvByte
<1>2. buf \in Seq(Byte) /\ input \in Seq(Byte) /\ arrived \in Nat
  BY ScriptType DEF Shape
<1>3. PICK rest : rest \in {Tail(buf), <<>>} /\ Buffers(rest)
  <2>1. PICK acted, complete : Buffers(Turn(acted, complete))
    BY Zenon DEF HandleRecvByte
  <2>2. Turn(acted, complete) \in {Tail(buf), <<>>}
    BY DEF Turn
  <2> QED BY <2>1, <2>2
<1>4. rest \in Seq(Byte)
  BY <1>1, <1>2, <1>3, TailAt, EmptySeq
<1>5. PICK b, i : b = buf' /\ i = input'
  OBVIOUS
<1>6. Passed(buf, input, rest, b, i)
  <2>1. IF rest = <<>> THEN b = Removed(input) /\ i = Rest(input) ELSE b = rest /\ i = input
    BY <1>3, <1>5 DEF Buffers
  <2> QED BY <1>2, <1>4, <2>1, BuffersPass
<1>7. (buf \o input)' = rest \o input
  BY <1>5, <1>6 DEF Passed
<1>8. Before(rest \o input, arrived, Stream)
  BY <1>1, <1>2, <1>3, BeforeTail DEF Held
<1>9. Stream' = Stream /\ arrived' = arrived
  BY <1>1 DEF Stream
<1> QED BY <1>7, <1>8, <1>9 DEF Held

LEMMA HeldStep ==
  ASSUME Shape, Hearing, Held, [Next]_vars
  PROVE  Held'
<1>1. CASE UNCHANGED <<script, arrived, input, buf>>
  BY <1>1 DEF Held, Stream
<1>2. CASE \E k \in 1..(SizeOf(script) - arrived) : HandleRecv(k)
  BY <1>2, HeldRecv
<1>3. CASE HandleRecvByte
  BY <1>3, HeldByte
<1> QED
  BY <1>1, <1>2, <1>3
  DEF Next, vars, libwebsock_bind, libwebsock_bind_ssl_real, libwebsock_wait, Signal,
      libwebsock_handle_accept, libwebsock_handle_accept_ssl, AcceptWith,
      libwebsock_handshake, HandshakeFails, HandshakeFinish, HandshakeGoesOn,
      HandleSend, DoEvent, libwebsock_shutdown, libwebsock_close_with_reason

(* What waits in the local buffer and in the input buffer is, byte for     *)
(* byte, what the client sent before the last byte that arrived, for any   *)
(* script, cuts by TCP and size of the local buffer.                       *)
THEOREM WaitingBytes == Spec => []WaitingIsNext
<1>1. Init => Held
  <2> SUFFICES ASSUME Init PROVE Held
    OBVIOUS
  <2>1. PICK w : w = buf \o input
    OBVIOUS
  <2>2. Len(w) = 0 /\ arrived = 0
    <3>1. buf = <<>> /\ input = <<>> /\ arrived = 0
      BY DEF Init
    <3>2. w = <<>>
      BY <2>1, <3>1
    <3> QED BY <3>1, <3>2
  <2> QED BY <2>1, <2>2 DEF Held, Before
<1>2. Shape /\ Hearing /\ Held /\ [Next]_vars => Held'
  BY HeldStep
<1>3. Shape /\ Hearing /\ Held => WaitingIsNext
  <2> SUFFICES ASSUME Shape, Hearing, Held PROVE WaitingIsNext
    OBVIOUS
  <2>1. PICK w, stream, looked, last : /\ w = buf \o input /\ stream = Stream
                                       /\ looked = LookedAt /\ last = arrived
    OBVIOUS
  <2>2. /\ buf \in Seq(Byte) /\ input \in Seq(Byte) /\ last \in Nat
        /\ stream \in Seq(Byte) /\ last <= Len(stream) /\ Len(stream) \in Nat
    BY <2>1, ScriptType DEF Shape
  <2>3. /\ w \in Seq(Byte) /\ Len(w) = Len(buf) + Len(input)
        /\ Len(buf) \in Nat /\ Len(input) \in Nat
    <3>1. buf \in Seq(Byte) /\ input \in Seq(Byte)
      BY <2>2
    <3> QED BY ONLY <2>1, <3>1, ConcatAt
  <2>4. looked = last - Len(w) /\ looked \in Nat
    <3>1. looked = last - Len(input) - Len(buf) /\ looked \in Nat
      BY <2>1 DEF LookedAt, Hearing
    <3> QED BY <2>2, <2>3, <3>1
  <2>5. \A j \in 1..Len(w) : w[j] = stream[looked + j]
    BY <2>1, <2>4 DEF Held, Before
  <2>6. PICK q : q = SubSeq(stream, looked + 1, last)
    OBVIOUS
  <2>7. q \in Seq(Byte) /\ Len(q) = Len(w) /\ \A j \in 1..Len(w) : q[j] = stream[looked + j]
    <3>1. looked <= last /\ last - looked = Len(w)
      BY <2>2, <2>3, <2>4
    <3>2. /\ q \in Seq(Byte) /\ Len(q) = last - looked
          /\ \A j \in 1..last - looked : q[j] = stream[looked + j]
      <4>1. /\ stream \in Seq(Byte) /\ looked \in Nat /\ last \in Nat
            /\ looked <= last /\ last <= Len(stream)
        BY <2>2, <2>4, <3>1
      <4> QED BY ONLY <2>6, <4>1, PieceOf
    <3> QED BY <3>1, <3>2
  <2>8. w = q
    BY <2>3, <2>5, <2>7, SeqEqual
  <2>9. LookedAt >= 0
    BY <2>1, <2>4
  <2> QED BY <2>1, <2>6, <2>8, <2>9 DEF WaitingIsNext
<1> QED BY <1>1, <1>2, <1>3, HearingInvariant, ShapeInvariant, PTL DEF Spec
=============================================================================
