------------------------------- MODULE WsFrame -------------------------------
(***************************************************************************)
(* The bytes of libwebsock (contrib/libwebsock/src): what a frame received *)
(* byte by byte becomes (libwebsock_read_header, frames.c), what a frame   *)
(* sent looks like (libwebsock_send_fragment, websock.c), and when a text  *)
(* is well-formed (util.c, utf.c).                                         *)
(***************************************************************************)
EXTENDS Integers, Sequences, SequencesExt

Byte == 0..255

Bit(b, i) == (b \div 2^i) % 2

(* The three reserved bits of the first byte of a frame. *)
Reserved(b) == (b \div 16) % 8

(* The operator ^ of C on bytes. *)
Xor(a, b) ==
  LET at(i) == IF Bit(a, i) = Bit(b, i) THEN 0 ELSE 2^i
  IN at(0) + at(1) + at(2) + at(3) + at(4) + at(5) + at(6) + at(7)

(* be16toh, be64toh and their inverses, on the bytes of a buffer *)
BigEndian(bytes) == FoldLeft(LAMBDA value, b : 256 * value + b, 0, bytes)

ToBigEndian(value, n) == [i \in 1..n |-> IF i < n - 3 THEN 0 ELSE (value \div 256^(n - i)) % 256]

WS_OPCODE_CONTINUE == 0
WS_OPCODE_TEXT     == 1
WS_OPCODE_BINARY   == 2
WS_OPCODE_CLOSE    == 8
WS_OPCODE_PING     == 9
WS_OPCODE_PONG     == 10

MASK_LENGTH == 4

-----------------------------------------------------------------------------
(* Receiving *)

(* raw is the filled part of rawdata, so rawdata_idx is its length. *)
Frame == [fin : 0..1, opcode : 0..15, mask_offset : Nat, payload_offset : Int,
          payload_len_short : 0..127, payload_len : Nat \cup {-1},
          raw : Seq(Byte), mask : Seq(Byte),
          state : {"sw_start", "sw_got_two", "sw_got_short_len",
                   "sw_got_full_len", "sw_loaded_mask"}]

(* The frame that starts a message has a length of -1, unsigned: more than *)
(* will ever arrive.  A frame chained behind a fragment is all zeros.      *)
ZeroFrame ==
  [fin |-> 0, opcode |-> 0, mask_offset |-> 0, payload_offset |-> 0,
   payload_len_short |-> 0, payload_len |-> 0, raw |-> <<>>,
   mask |-> <<0, 0, 0, 0>>, state |-> "sw_start"]

FirstFrame == [ZeroFrame EXCEPT !.payload_len = -1]

(* Seeded bug: an extended length leaves the mask where it was. *)
KnownLengthShort(f, size, payload_len) ==
  [f EXCEPT !.payload_offset = f.mask_offset + MASK_LENGTH,
            !.payload_len = payload_len,
            !.state = "sw_got_full_len"]

KnownLength(f, size, payload_len) ==
  [f EXCEPT !.mask_offset = @ + size,
            !.payload_offset = f.mask_offset + size + MASK_LENGTH,
            !.payload_len = payload_len,
            !.state = "sw_got_full_len"]

(* libwebsock_read_header: at most one transition for each byte received.  *)
(* The result is -1 for a malformed header, 1 when the mask is loaded.     *)
libwebsock_read_header(f) ==
  LET idx == Len(f.raw)
      Goes(frame) == [frame |-> frame, result |-> 0]
  IN CASE f.state = "sw_start" ->
            Goes(IF idx < 2 THEN f ELSE [f EXCEPT !.state = "sw_got_two"])
       [] f.state = "sw_got_two" ->
            IF Reserved(f.raw[1]) # 0 \/ Bit(f.raw[2], 7) = 0
            THEN [frame |-> f, result |-> -1]
            ELSE Goes([f EXCEPT !.mask_offset = 2,
                                !.fin = Bit(f.raw[1], 7),
                                !.opcode = f.raw[1] % 16,
                                !.payload_len_short = f.raw[2] % 128,
                                !.state = "sw_got_short_len"])
       [] f.state = "sw_got_short_len" ->
            Goes(CASE f.payload_len_short = 126 /\ idx >= 4 ->
                        KnownLength(f, 2, BigEndian(SubSeq(f.raw, 3, 4)))
                   [] f.payload_len_short = 127 /\ idx >= 10 ->
                        KnownLength(f, 8, BigEndian(SubSeq(f.raw, 3, 10)))
                   [] f.payload_len_short < 126 ->
                        KnownLength(f, 0, f.payload_len_short)
                   [] OTHER -> f)
       [] f.state = "sw_got_full_len" /\ idx >= f.mask_offset + MASK_LENGTH ->
            [frame |-> [f EXCEPT !.mask = SubSeq(f.raw, f.mask_offset + 1,
                                                 f.mask_offset + MASK_LENGTH),
                                 !.state = "sw_loaded_mask"],
             result |-> 1]
       [] OTHER -> Goes(f)

(* One turn of the loop of libwebsock_handle_recv, up to the frame being   *)
(* complete.                                                               *)
ByteTaken(f, byte) ==
  LET longer == [f EXCEPT !.raw = Append(@, byte)]
  IN IF f.state = "sw_loaded_mask" THEN [frame |-> longer, result |-> 1]
                                   ELSE libwebsock_read_header(longer)

(* The sum of the code has 64 bits without a sign; lengths near its end,   *)
(* where it would wrap, are beyond the frames considered here.             *)
Complete(f) ==
  f.payload_len >= 0 /\ Len(f.raw) >= f.payload_offset + f.payload_len

(* Seeded bug: each byte is unmasked with the next byte of the mask. *)
UnmaskedOff(f) ==
  [i \in 1..f.payload_len |->
     Xor(f.raw[f.payload_offset + i], f.mask[(i % MASK_LENGTH) + 1])]

Unmasked(f) ==
  [i \in 1..f.payload_len |->
     Xor(f.raw[f.payload_offset + i], f.mask[((i - 1) % MASK_LENGTH) + 1])]

-----------------------------------------------------------------------------
(* Sending *)

(* The header libwebsock_send_fragment puts before the data. *)
Header(opcode, len) ==
  <<128 + opcode>> \o
  CASE len <= 125 -> <<len>>
    [] len > 125 /\ len <= 65535 -> <<126>> \o ToBigEndian(len, 2)
    [] OTHER -> <<127>> \o ToBigEndian(len, 8)

libwebsock_send_fragment(opcode, data) == Header(opcode, Len(data)) \o data

(* What the C library takes for the text at a pointer. *)
UpToZero(data) ==
  LET zero == SelectInSeq(data, LAMBDA b : b = 0)
  IN IF zero = 0 THEN data ELSE SubSeq(data, 1, zero - 1)

-----------------------------------------------------------------------------
(* Well-formed texts *)

(* The two halves of the table utf8d: the class of a byte, and the next    *)
(* state for each state (0 accepts, 1 rejects) and class.                  *)
ClassOf(b) ==
  CASE b \in 0..127 -> 0     [] b \in 128..143 -> 1    [] b \in 144..159 -> 9
    [] b \in 160..191 -> 7   [] b \in 192..193 -> 8    [] b \in 194..223 -> 2
    [] b = 224 -> 10         [] b \in (225..239) \ {237} -> 3
    [] b = 237 -> 4          [] b = 240 -> 11          [] b \in 241..243 -> 6
    [] b = 244 -> 5          [] b \in 245..255 -> 8

utf8d == <<
  <<0, 1, 2, 3, 5, 8, 7, 1, 1, 1, 4, 6>>,
  <<1, 1, 1, 1, 1, 1, 1, 1, 1, 1, 1, 1>>,
  <<1, 0, 1, 1, 1, 1, 1, 0, 1, 0, 1, 1>>,
  <<1, 2, 1, 1, 1, 1, 1, 2, 1, 2, 1, 1>>,
  <<1, 1, 1, 1, 1, 1, 1, 2, 1, 1, 1, 1>>,
  <<1, 2, 1, 1, 1, 1, 1, 1, 1, 2, 1, 1>>,
  <<1, 1, 1, 1, 1, 1, 1, 3, 1, 3, 1, 1>>,
  <<1, 3, 1, 1, 1, 1, 1, 3, 1, 3, 1, 1>>,
  <<1, 3, 1, 1, 1, 1, 1, 1, 1, 1, 1, 1>> >>

(* Seeded bug: surrogates are taken (0xED is classed as its neighbours). *)
decodeLenient(state, byte) ==
  utf8d[state + 1][(IF byte = 237 THEN 3 ELSE ClassOf(byte)) + 1]

decode(state, byte) == utf8d[state + 1][ClassOf(byte) + 1]

validate_utf8_sequence(s) == FoldLeft(decode, 0, UpToZero(s)) = 0

(* The same from RFC 3629, section 4: one character, and a text of them.   *)
WellFormedChar(c) ==
  /\ \A i \in 2..Len(c) : c[i] \in 128..191
  /\ \/ Len(c) = 1 /\ c[1] \in 0..127
     \/ Len(c) = 2 /\ c[1] \in 194..223
     \/ Len(c) = 3 /\ c[1] \in 224..239 /\ (c[1] = 224 => c[2] >= 160) /\ (c[1] = 237 => c[2] < 160)
     \/ Len(c) = 4 /\ c[1] \in 240..244 /\ (c[1] = 240 => c[2] >= 144) /\ (c[1] = 244 => c[2] < 144)

WellFormed(s) ==
  LET from[i \in 1..Len(s) + 1] ==
        \/ i = Len(s) + 1
        \/ \E last \in i..(IF i + 3 < Len(s) THEN i + 3 ELSE Len(s)) :
             WellFormedChar(SubSeq(s, i, last)) /\ from[last + 1]
  IN from[1]
=============================================================================
