------------------------------- MODULE WebSock -------------------------------
(***************************************************************************)
(* A websocket server made with libwebsock (contrib/libwebsock/src) and    *)
(* one of its connections.  Connections share nothing but the listener and *)
(* the event loop, which runs one callback at a time.                      *)
(*                                                                         *)
(* The application is the echo server of docs/API.txt, which may also      *)
(* close the connection.  The client sends a handshake request and then,   *)
(* once it has the response, the frames of a script; TCP cuts both         *)
(* anywhere.  The client may close or reset the TCP connection at any time.*)
(***************************************************************************)
EXTENDS WsFrame, FiniteSets

CONSTANTS
  BufSize,    \* the buffer of libwebsock_handle_recv (1024 in the code)
  Requests,   \* handshake requests: sequences of "line", "key", "end"
  Scripts     \* what clients send: sequences of frames

(* A bound on payloads: what a frame says with a length of seven bits.     *)
(* Longer ones differ in the bytes before the mask (KnownLength).          *)
ShortPayload == {p \in Seq(Byte) : Len(p) <= 125}

(* A frame as its sender means it; opcodes and lengths as in RFC 6455.     *)
ClientFrame == [fin : 0..1, reserved : 0..7, opcode : 0..15, masked : 0..1,
                key : [1..MASK_LENGTH -> Byte], payload : ShortPayload]

(* A client waits for the response before it says more: nothing comes      *)
(* behind the end of a request.  If something did, the loop of             *)
(* libwebsock_handshake might go on with the string that                   *)
(* libwebsock_handshake_finish freed (undefined, and not modelled).        *)
ASSUME WebSockAssumption ==
  /\ BufSize \in Nat \ {0}
  /\ \A r \in Requests : r \in Seq({"line", "key", "end"})
  /\ \A r \in Requests : \A i \in DOMAIN r : r[i] = "end" => i = Len(r)
  /\ \A s \in Scripts : s \in Seq(ClientFrame)

VARIABLES
  loop,       \* "unbound", "bound", "running" (libwebsock_wait), "exited"
  conn,       \* "none", "open", "shut", "leaked": a state nobody frees
  state,      \* libwebsock_client_state
  request,    \* lines of the request that have not arrived
  script,     \* the frames of the client
  arrived,    \* number of bytes of the script that have arrived
  input,      \* bytes in the input buffer, while handle_recv runs
  buf,        \* bytes in its local buffer not looked at yet
  drained     \* how much of state.written left the output buffer

vars == <<loop, conn, state, request, script, arrived, input, buf, drained>>

-----------------------------------------------------------------------------
(* The state of a connection.  frames is the chain of frames that ends in  *)
(* current_frame; readcb and writecb are callbacks of its bufferevent;     *)
(* written is what was added to the output buffer, and calls the callbacks *)
(* of the application, in order.                                           *)

NULL == <<>>

NewState(writecb) ==
  [flags |-> {"CONNECTING"}, readcb |-> "handshake", writecb |-> writecb,
   data |-> NULL, frames |-> <<>>, close_info |-> NULL,
   written |-> <<>>, calls |-> <<>>]

Is(s, flag) == flag \in s.flags

Code(n) == <<n \div 256, n % 256>>

CloseFrame(code) == libwebsock_send_fragment(WS_OPCODE_CLOSE, Code(code))

PROTOCOL_ERROR == 1002
WRONG_TYPE     == 1007

Written(s, bytes) == [s EXCEPT !.written = Append(@, bytes)]

libwebsock_fail_connection(s, code) ==
  [Written(s, CloseFrame(code)) EXCEPT !.flags = @ \cup {"SHOULD_CLOSE"}]

(* Codes an endpoint may not send. *)
BadCode(code) ==
  code < 1000 \/ code \in {1004, 1005, 1006} \/ (code > 1011 /\ code < 3000)

(* The close information is kept from the first close frame with a code.   *)
libwebsock_populate_close_info_from_frame(payload) ==
  <<BigEndian(SubSeq(payload, 1, 2)), UpToZero(SubSeq(payload, 3, Len(payload)))>>

(* A code that may not be sent, or a reason that is no text, is replaced   *)
(* in the frame that goes back.                                            *)
CloseAnswer(info, payload) ==
  CASE info = NULL -> payload
    [] info # NULL /\ BadCode(info[1]) ->
         Code(PROTOCOL_ERROR) \o SubSeq(payload, 3, Len(payload))
    [] info # NULL /\ ~BadCode(info[1]) /\ ~validate_utf8_sequence(info[2]) ->
         Code(WRONG_TYPE) \o SubSeq(payload, 3, Len(payload))
    [] OTHER -> payload

Closing(s, payload) ==
  [s EXCEPT !.close_info = IF @ = NULL /\ Len(payload) >= 2
                           THEN libwebsock_populate_close_info_from_frame(payload)
                           ELSE @,
            !.flags = @ \cup {"SHOULD_CLOSE"},
            !.readcb = "NULL"]

(* Seeded bug: a close frame without a code is not answered. *)
CloseReceivedSilent(s, payload) ==
  LET closing == Closing(s, payload)
  IN IF Is(s, "SENT_CLOSE_FRAME") \/ payload = <<>>
     THEN closing
     ELSE Written(closing, libwebsock_send_fragment(WS_OPCODE_CLOSE,
                             CloseAnswer(closing.close_info, payload)))

CloseReceived(s, payload) ==
  LET closing == Closing(s, payload)
  IN IF Is(s, "SENT_CLOSE_FRAME")
     THEN closing
     ELSE Written(closing, libwebsock_send_fragment(WS_OPCODE_CLOSE,
                             CloseAnswer(closing.close_info, payload)))

(* The frame is shifted over its mask and sent back with the header it     *)
(* came with, which is the one libwebsock_send_fragment would write as     *)
(* clients say lengths in their shortest form (Encode).                    *)
libwebsock_default_control_callback(s, f) ==
  CASE f.payload_len > 125 -> libwebsock_fail_connection(s, PROTOCOL_ERROR)
    [] f.payload_len <= 125 /\ f.opcode = WS_OPCODE_CLOSE ->
         CloseReceived(s, Unmasked(f))
    [] f.payload_len <= 125 /\ f.opcode = WS_OPCODE_PING ->
         Written(s, libwebsock_send_fragment(WS_OPCODE_PONG, Unmasked(f)))
    [] OTHER -> s

(* Seeded bug: the chain is dropped with the control frame. *)
ControlForgets(s, f) ==
  [libwebsock_default_control_callback(s, f) EXCEPT !.frames = <<>>]

(* The frame is used again for what comes next, behind the fragments       *)
(* before it.                                                              *)
libwebsock_handle_control_frame(s, f) ==
  LET shift == IF f.payload_len > 125 THEN 0 ELSE 4
  IN [libwebsock_default_control_callback(s, f) EXCEPT
        !.frames = Append(Front(s.frames),
                          [f EXCEPT !.payload_offset = @ - shift,
                                    !.state = "sw_start", !.raw = <<>>])]

(* libwebsock_default_onmessage_callback: the text at msg->payload.        *)
onmessage(s, opcode, payload) ==
  Written([s EXCEPT !.calls = Append(@, <<"onmessage", opcode, payload>>)],
          libwebsock_send_fragment(WS_OPCODE_TEXT, UpToZero(payload)))

(* Seeded bug: only the last fragment is looked at. *)
DispatchLast(s) ==
  LET payload == FlattenSeq([i \in DOMAIN s.frames |-> Unmasked(s.frames[i])])
      gone == [s EXCEPT !.frames = <<>>]
  IN IF s.frames[1].opcode = WS_OPCODE_TEXT
        /\ ~validate_utf8_sequence(Unmasked(Last(s.frames)))
     THEN libwebsock_fail_connection(gone, WRONG_TYPE)
     ELSE onmessage(gone, s.frames[1].opcode, payload)

libwebsock_dispatch_message(s) ==
  LET payload == FlattenSeq([i \in DOMAIN s.frames |-> Unmasked(s.frames[i])])
      gone == [s EXCEPT !.frames = <<>>]
  IN IF s.frames[1].opcode = WS_OPCODE_TEXT /\ ~validate_utf8_sequence(payload)
     THEN libwebsock_fail_connection(gone, WRONG_TYPE)
     ELSE onmessage(gone, s.frames[1].opcode, payload)

libwebsock_frame_act(s, f) ==
  CASE f.opcode \in {WS_OPCODE_CLOSE, WS_OPCODE_PING, WS_OPCODE_PONG} ->
         libwebsock_handle_control_frame(s, f)
    [] f.opcode \in {WS_OPCODE_TEXT, WS_OPCODE_BINARY, WS_OPCODE_CONTINUE} ->
         libwebsock_dispatch_message(s)
    [] OTHER -> libwebsock_fail_connection(s, PROTOCOL_ERROR)

IsControl(f) == f.opcode >= 8

Chained(s) == [s EXCEPT !.frames = Append(@, ZeroFrame)]

(* A complete frame, inside a fragmented message or not. *)
FrameComplete(s, f) ==
  IF Is(s, "RECEIVING_FRAGMENT")
  THEN CASE f.fin = 1 /\ IsControl(f) -> libwebsock_frame_act(s, f)
         [] f.fin = 1 /\ f.opcode = 0 ->
              libwebsock_frame_act([s EXCEPT !.flags = @ \ {"RECEIVING_FRAGMENT"}], f)
         [] f.fin = 0 /\ f.opcode = 0 -> Chained(s)
         [] OTHER -> libwebsock_fail_connection(s, PROTOCOL_ERROR)
  ELSE CASE f.fin = 1 /\ f.opcode # 0 -> libwebsock_frame_act(s, f)
         [] f.fin = 0 /\ f.opcode # 0 /\ ~IsControl(f) ->
              [Chained(s) EXCEPT !.flags = @ \cup {"RECEIVING_FRAGMENT"}]
         [] OTHER -> libwebsock_fail_connection(s, PROTOCOL_ERROR)

Current(s) == IF s.frames = <<>> THEN FirstFrame ELSE Last(s.frames)

WithCurrent(s, f) ==
  [s EXCEPT !.frames = IF @ = <<>> THEN <<f>> ELSE Append(Front(@), f)]

-----------------------------------------------------------------------------
(* libwebsock_bind, _bind_ssl_real, _init, _wait and the signal *)

Init ==
  /\ loop = "unbound"
  /\ conn = "none"
  /\ state = NewState("NULL")
  /\ request \in Requests
  /\ script \in Scripts
  /\ arrived = 0
  /\ input = <<>> /\ buf = <<>>
  /\ drained = 0

(* The address or the socket may be refused: exit. *)
libwebsock_bind ==
  /\ loop = "unbound"
  /\ loop' \in {"bound", "exited"}
  /\ UNCHANGED <<conn, state, request, script, arrived, input, buf, drained>>

(* And the certificate or its key. *)
libwebsock_bind_ssl_real == libwebsock_bind

libwebsock_wait ==
  /\ loop = "bound"
  /\ loop' = "running"
  /\ UNCHANGED <<conn, state, request, script, arrived, input, buf, drained>>

(* libwebsock_handle_signal: the loop ends after the callback, and then    *)
(* the program; connections are not shut down.                             *)
Signal ==
  /\ loop = "running" /\ buf = <<>>
  /\ loop' = "exited"
  /\ UNCHANGED <<conn, state, request, script, arrived, input, buf, drained>>

(* The loop runs a callback for the connection. *)
Dispatching == loop = "running" /\ conn = "open" /\ buf = <<>>

AcceptWith(writecb) ==
  /\ loop = "running" /\ conn = "none"
  /\ conn' = "open"
  /\ state' = NewState(writecb)
  /\ UNCHANGED <<loop, request, script, arrived, input, buf, drained>>

libwebsock_handle_accept == AcceptWith("handle_send")

(* The flag STATE_IS_SSL, which nobody reads, is left out.  When SSL_accept *)
(* fails the bufferevent says so later (DoEvent).                          *)
libwebsock_handle_accept_ssl == AcceptWith("NULL")

-----------------------------------------------------------------------------
(* libwebsock_handshake *)

(* The end of the request is looked for in all that has arrived.           *)
(* libwebsock_handshake_finish: without a key, or without memory, the      *)
(* connection is closed and its state is left where it is.                 *)
HandshakeFails(k) ==
  /\ Dispatching /\ state.readcb = "handshake"
  /\ LET data == state.data \o SubSeq(request, 1, k)
     IN "end" \in ToSet(data) /\ "key" \notin ToSet(data)
  /\ conn' = "leaked"
  /\ request' = SubSeq(request, k + 1, Len(request))
  /\ state' = [state EXCEPT !.data = NULL]
  /\ UNCHANGED <<loop, script, arrived, input, buf, drained>>

(* The response stands for itself: it is not a frame. *)
Response == <<101>>

HandshakeFinish(k) ==
  /\ Dispatching /\ state.readcb = "handshake"
  /\ LET data == state.data \o SubSeq(request, 1, k)
     IN "end" \in ToSet(data) /\ "key" \in ToSet(data)
  /\ state' = [Written(state, Response) EXCEPT
                 !.data = NULL, !.readcb = "recv", !.writecb = "handle_send",
                 !.flags = (@ \ {"CONNECTING"}) \cup {"CONNECTED"},
                 !.calls = Append(@, <<"onopen">>)]
  /\ request' = SubSeq(request, k + 1, Len(request))
  /\ UNCHANGED <<loop, conn, script, arrived, input, buf, drained>>

HandshakeGoesOn(k) ==
  /\ Dispatching /\ state.readcb = "handshake"
  /\ LET data == state.data \o SubSeq(request, 1, k)
     IN "end" \notin ToSet(data) /\ state' = [state EXCEPT !.data = data]
  /\ request' = SubSeq(request, k + 1, Len(request))
  /\ UNCHANGED <<loop, conn, script, arrived, input, buf, drained>>

libwebsock_handshake ==
  \E k \in 1..Len(request) :
    HandshakeFails(k) \/ HandshakeFinish(k) \/ HandshakeGoesOn(k)

-----------------------------------------------------------------------------
(* libwebsock_handle_recv *)

(* The bytes of a frame of the client (external: RFC 6455, section 5.2).   *)
Encode(f) ==
  <<128 * f.fin + 16 * f.reserved + f.opcode, 128 * f.masked + Len(f.payload)>>
  \o (IF f.masked = 0 THEN f.payload
      ELSE f.key \o [i \in DOMAIN f.payload |->
                       Xor(f.payload[i], f.key[((i - 1) % MASK_LENGTH) + 1])])

Stream == FlattenSeq([i \in DOMAIN script |-> Encode(script[i])])

Size(f) == 2 + MASK_LENGTH * f.masked + Len(f.payload)

SizeOf(frames) == FoldLeft(LAMBDA sum, f : sum + Size(f), 0, frames)

(* evbuffer_remove takes at most a local buffer full. *)
Removed(bytes) == SubSeq(bytes, 1, IF Len(bytes) < BufSize THEN Len(bytes) ELSE BufSize)

(* Seeded bug: a byte is lost between two fills of the local buffer. *)
RestOff(bytes) == SubSeq(bytes, BufSize + 2, Len(bytes))

Rest(bytes) == SubSeq(bytes, BufSize + 1, Len(bytes))

(* The client has the response, and the next k bytes of its frames arrive. *)
HandleRecv(k) ==
  /\ Dispatching /\ state.readcb = "recv"
  /\ drained > 0
  /\ LET stream == Stream
         bytes == SubSeq(stream, arrived + 1, arrived + k)
     IN buf' = Removed(bytes) /\ input' = Rest(bytes)
  /\ arrived' = arrived + k
  /\ UNCHANGED <<loop, conn, state, request, script, drained>>

(* What is left of the local buffer after a byte; when nothing is, the     *)
(* outer loop fills it again.                                              *)
Buffers(left) ==
  IF left = <<>>
  THEN buf' = Removed(input) /\ input' = Rest(input)
  ELSE buf' = left /\ input' = input

(* The inner loop is left when the connection should close, but only after *)
(* a complete frame; what was in the local buffer is dropped.              *)
Turn(s, complete) ==
  IF complete /\ Is(s, "SHOULD_CLOSE") THEN <<>> ELSE Tail(buf)

(* One turn of the inner loop; no other callback runs before the last one. *)
HandleRecvByte ==
  /\ loop = "running" /\ conn = "open" /\ buf # <<>>
  /\ \E taken \in {ByteTaken(Current(state), Head(buf))} :
       LET kept == WithCurrent(state, taken.frame)
           complete == taken.result # 0 /\ Complete(taken.frame)
       IN \E checked \in {IF taken.result = -1
                            THEN libwebsock_fail_connection(kept, PROTOCOL_ERROR)
                            ELSE kept} :
          \E acted \in {IF complete THEN FrameComplete(checked, taken.frame) ELSE checked} :
            /\ state' = acted
            /\ Buffers(Turn(acted, complete))
  /\ UNCHANGED <<loop, conn, request, script, arrived, drained>>

-----------------------------------------------------------------------------
(* The other callbacks, and the application *)

(* Seeded bug: the application hears of connections it was never told of. *)
ShutdownLoud ==
  /\ conn' = "shut"
  /\ state' = [state EXCEPT !.calls = Append(@, <<"onclose">>),
                 !.close_info = NULL, !.frames = <<>>, !.data = NULL]

libwebsock_shutdown ==
  /\ conn' = "shut"
  /\ state' = [state EXCEPT
                 !.calls = IF Is(state, "CONNECTED") THEN Append(@, <<"onclose">>) ELSE @,
                 !.close_info = NULL, !.frames = <<>>, !.data = NULL]

(* Seeded bug: the connection is shut down while output is left. *)
HandleSendEarly ==
  /\ Dispatching /\ state.writecb = "handle_send"
  /\ drained < Len(state.written)
  /\ drained' = drained + 1
  /\ IF Is(state, "SHOULD_CLOSE")
     THEN libwebsock_shutdown
     ELSE UNCHANGED <<conn, state>>
  /\ UNCHANGED <<loop, request, script, arrived, input, buf>>

(* libwebsock_handle_send: called when all the output is gone. *)
HandleSend ==
  /\ Dispatching /\ state.writecb = "handle_send"
  /\ drained < Len(state.written)
  /\ drained' = Len(state.written)
  /\ IF Is(state, "SHOULD_CLOSE")
     THEN libwebsock_shutdown
     ELSE UNCHANGED <<conn, state>>
  /\ UNCHANGED <<loop, request, script, arrived, input, buf>>

(* libwebsock_do_event: the client closed or reset the connection. *)
DoEvent ==
  /\ Dispatching
  /\ libwebsock_shutdown
  /\ UNCHANGED <<loop, request, script, arrived, input, buf, drained>>

GOING_AWAY == 1001

(* The application closes the connection, once, in an event of its own. *)
libwebsock_close_with_reason ==
  /\ Dispatching
  /\ Is(state, "CONNECTED") /\ ~Is(state, "SENT_CLOSE_FRAME")
  /\ state' = [Written(state, CloseFrame(GOING_AWAY)) EXCEPT
                 !.flags = @ \cup {"SENT_CLOSE_FRAME"}]
  /\ UNCHANGED <<loop, conn, request, script, arrived, input, buf, drained>>

Next ==
  \/ libwebsock_bind \/ libwebsock_bind_ssl_real \/ libwebsock_wait \/ Signal
  \/ libwebsock_handle_accept \/ libwebsock_handle_accept_ssl
  \/ libwebsock_handshake
  \/ \E k \in 1..(SizeOf(script) - arrived) : HandleRecv(k)
  \/ HandleRecvByte \/ HandleSend \/ DoEvent \/ libwebsock_close_with_reason

(* libevent runs what is due, and the client takes what it is sent. *)
Fairness == WF_vars(HandleSend \/ HandleRecvByte)

Spec == Init /\ [][Next]_vars /\ Fairness

-----------------------------------------------------------------------------
(* What the script says, frame by frame: the messages of the client, and   *)
(* what an endpoint of RFC 6455 answers that replies to each message with  *)
(* a text of the same bytes, as docs/API.txt says of texts and leaves open *)
(* for others.  Nothing is heard after the frame that ends the connection. *)

Silence == [opcode |-> 0, parts |-> <<>>, calls |-> <<<<"onopen">>>>,
            written |-> <<Response>>, answer |-> <<>>, ended |-> FALSE]

Ended(heard, answer) == [heard EXCEPT !.ended = TRUE, !.answer = <<answer>>]

Malformed(f) == f.reserved # 0 \/ f.masked = 0

(* The codes an endpoint may send. *)
GoodCodes == 1000..1003 \cup 1007..1011 \cup 3000..65535

AnswerToClose(payload) ==
  LET code == BigEndian(SubSeq(payload, 1, 2))
      reason == SubSeq(payload, 3, Len(payload))
  IN CASE Len(payload) < 2 -> payload
       [] Len(payload) >= 2 /\ code \notin GoodCodes ->
            Code(PROTOCOL_ERROR) \o reason
       [] Len(payload) >= 2 /\ code \in GoodCodes ->
            (IF WellFormed(reason) THEN Code(code) ELSE Code(WRONG_TYPE)) \o reason

Message(heard, opcode, payload) ==
  IF opcode = WS_OPCODE_TEXT /\ ~WellFormed(payload)
  THEN Ended(heard, CloseFrame(WRONG_TYPE))
  ELSE [heard EXCEPT !.opcode = 0, !.parts = <<>>,
                     !.calls = Append(@, <<"onmessage", opcode, payload>>),
                     !.written = Append(@, Header(WS_OPCODE_TEXT, Len(payload)) \o payload)]

Heard(heard, f) ==
  CASE heard.ended -> heard
    [] ~heard.ended /\ ~Malformed(f) /\ f.opcode \in 8..10 /\ f.fin = 1 ->
         CASE f.opcode = WS_OPCODE_CLOSE ->
                Ended(heard, <<136, Len(f.payload)>> \o AnswerToClose(f.payload))
           [] f.opcode = WS_OPCODE_PING ->
                [heard EXCEPT !.written = Append(@, <<138, Len(f.payload)>> \o f.payload)]
           [] OTHER -> heard
    [] ~heard.ended /\ ~Malformed(f)
       /\ (IF heard.opcode = 0 THEN f.opcode \in {WS_OPCODE_TEXT, WS_OPCODE_BINARY}
                               ELSE f.opcode = WS_OPCODE_CONTINUE) ->
         LET opcode == IF heard.opcode = 0 THEN f.opcode ELSE heard.opcode
             payload == heard.parts \o f.payload
         IN IF f.fin = 1
            THEN Message(heard, opcode, payload)
            ELSE [heard EXCEPT !.opcode = opcode, !.parts = payload]
    [] OTHER -> Ended(heard, CloseFrame(PROTOCOL_ERROR))

(* A malformed header shows at the third byte of its frame. *)
Decided(i) ==
  SizeOf(SubSeq(script, 1, i - 1)) + (IF Malformed(script[i]) THEN 3 ELSE Size(script[i]))

LookedAt == arrived - Len(input) - Len(buf)

Meant ==
  LET decided == {i \in DOMAIN script : Decided(i) <= LookedAt}
  IN FoldLeft(Heard, Silence, SubSeq(script, 1, Cardinality(decided)))

-----------------------------------------------------------------------------
(* Properties *)

(* Types, and the shape of the chain of frames: several only inside a      *)
(* fragmented message, all complete but the last (libwebsock_handle_recv,  *)
(* libwebsock_handle_control_frame).                                       *)
TypeOK ==
  /\ loop \in {"unbound", "bound", "running", "exited"}
  /\ conn \in {"none", "open", "shut", "leaked"}
  /\ state.flags \subseteq {"SHOULD_CLOSE", "SENT_CLOSE_FRAME", "CONNECTING",
                            "CONNECTED", "RECEIVING_FRAGMENT"}
  /\ state.readcb \in {"handshake", "recv", "NULL"}
  /\ state.writecb \in {"handle_send", "NULL"}
  /\ \A i \in DOMAIN state.frames : state.frames[i] \in Frame
  /\ conn = "open" =>
       (Is(state, "RECEIVING_FRAGMENT") <=> Len(state.frames) > 1)
  /\ \A i \in 1..Len(state.frames) - 1 : Complete(state.frames[i])
  /\ drained \in 0..Len(state.written)
  /\ arrived \in 0..SizeOf(script)

Serving == conn = "open" /\ Is(state, "CONNECTED")

(* What waits in the local buffer and behind it in the input buffer is,    *)
(* byte for byte, what the client sent before the last byte that arrived,  *)
(* however often the local buffer was filled again (libwebsock_handle_recv).*)
(* What an ending connection drops counts as looked at.                    *)
WaitingIsNext ==
  LookedAt >= 0 /\ buf \o input = SubSeq(Stream, LookedAt + 1, arrived)

(* However TCP cuts the stream, the application is called once for each    *)
(* message of the client, in order, with the payloads of its fragments     *)
(* joined and unmasked, when its last byte has been looked at, whatever    *)
(* control frames come between the fragments (libwebsock_handle_recv,      *)
(* libwebsock_dispatch_message).  Once the connection should close, what   *)
(* was said before has been delivered.                                     *)
MessagesDelivered ==
  Serving =>
    LET meant == Meant
    IN /\ IsPrefix(meant.calls, state.calls)
       /\ ~meant.ended => state.calls = meant.calls

(* No zero byte where the library takes bytes for a C string: in messages  *)
(* and in the reasons of close frames.                                     *)
ZeroFree(f) ==
  /\ f.opcode \in 0..2 => 0 \notin ToSet(f.payload)
  /\ f.opcode = WS_OPCODE_CLOSE => 0 \notin ToSet(SubSeq(f.payload, 3, Len(f.payload)))

(* The output holds, in order, the echoes of the messages and an answer    *)
(* with the same payload for each ping, and the flag that closes the       *)
(* connection is set exactly from the frame on that ends it, which is      *)
(* answered with the right close frame, unless the application had closed  *)
(* before (libwebsock_default_control_callback,                            *)
(* libwebsock_fail_connection).  So it is for clients that send no zeros:  *)
(* EchoesAreExact is about the others.                                     *)
RepliesInOrder ==
  Serving /\ (\A i \in DOMAIN script : ZeroFree(script[i])) =>
    LET meant == Meant
        byLibrary == SelectSeq(state.written, LAMBDA w : w # CloseFrame(GOING_AWAY))
    IN /\ Is(state, "SHOULD_CLOSE") <=> meant.ended
       /\ ~meant.ended => byLibrary = meant.written
       /\ meant.ended => IsPrefix(meant.written, byLibrary)
       /\ meant.ended /\ ~Is(state, "SENT_CLOSE_FRAME") =>
            IsPrefix(meant.written \o meant.answer, byLibrary)

(* "The echo server simply accepts WebSocket clients and replies to any    *)
(* text messages sent by the client with the exact same message that was   *)
(* sent" (docs/API.txt).  Its reply goes up to the first zero of the text  *)
(* (libwebsock_default_onmessage_callback, libwebsock_send_text).          *)
EchoesAreExact ==
  LET messages == SelectSeq(state.calls, LAMBDA c : c[1] = "onmessage")
      echoes == SelectSeq(state.written, LAMBDA w : w[1] = 128 + WS_OPCODE_TEXT)
  IN \A i \in DOMAIN messages :
       messages[i][2] = WS_OPCODE_TEXT /\ WellFormed(messages[i][3]) =>
         echoes[i] = libwebsock_send_fragment(WS_OPCODE_TEXT, messages[i][3])

(* "after each complete frame, check to see if we should stop processing   *)
(* now" (websock.c): once the connection should close, the application     *)
(* hears of nothing but its end.  The check leaves the inner loop only,    *)
(* and a failure leaves the handler installed: what the client sent behind *)
(* the failure is still handled.                                           *)
ProcessingStops ==
  [][Is(state, "SHOULD_CLOSE") =>
       state'.calls \in {state.calls, Append(state.calls, <<"onclose">>)}]_vars

(* The application sees onopen first and once, onclose last and once, and  *)
(* onclose exactly when a connection it knows was shut down                *)
(* (libwebsock_handshake_finish, libwebsock_shutdown).                     *)
CallbacksBracketed ==
  LET calls == state.calls
  IN /\ \A i \in DOMAIN calls : (calls[i] = <<"onopen">>) <=> (i = 1)
     /\ \A i \in DOMAIN calls : calls[i] = <<"onclose">> => i = Len(calls)
     /\ (conn = "shut" /\ calls # <<>>) <=> (<<"onclose">> \in ToSet(calls))

(* The library itself ends a connection only when a close frame is among   *)
(* what it wrote and all of that is gone (libwebsock_handle_send).  The    *)
(* close frame need not be the last of it: see ProcessingStops.            *)
ClosedAfterCloseFrame ==
  [][conn = "open" /\ conn' = "shut" /\ drained' # drained =>
       /\ \E i \in DOMAIN state.written : state.written[i][1] = 128 + WS_OPCODE_CLOSE
       /\ drained' = Len(state.written)]_vars

(* A connection that should close is shut down although no client reads    *)
(* another byte from it: the close frame written is what wakes             *)
(* libwebsock_handle_send.  Not so when the application closed first: then *)
(* the answer of the client is not answered, and nothing wakes it.         *)
ClosingEnds ==
  Is(state, "SHOULD_CLOSE") /\ ~Is(state, "SENT_CLOSE_FRAME")
    ~> conn = "shut" \/ loop = "exited"
=============================================================================
