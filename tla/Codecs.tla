-------------------------------- MODULE Codecs --------------------------------
(***************************************************************************)
(* The functions that turn one form of a text into another, each over      *)
(* bounded inputs: the notifications of Redis (Notify), and of libwebsock  *)
(* the headers of frames and the texts in them (WsFrame), the answer to a  *)
(* handshake and its digest (Sha1) and Base64.                             *)
(*                                                                         *)
(* One subject is looked at at a time: a notification, a portion more of   *)
(* a message to digest, or another input.                                  *)
(***************************************************************************)
EXTENDS Notify, Sha1, Base64

CONSTANTS
  Portions,     \* bound of the model: lengths of what SHA1Input is given
  MaxMessage,   \* bound of the model: length of a message
  Sources,      \* what is encoded in Base64
  Encodings,    \* what is decoded
  Targets64,    \* lengths of the buffers for the result
  Texts,        \* what may be UTF-8
  Lengths,      \* of payloads
  Answers       \* pairs of a key and the answer to it

MaxLength == 2147483647   \* bound of the model: four bytes of ToBigEndian

ASSUME CodecsAssumption ==
  /\ LowLimit \in Nat \ {0} /\ LowLimit % 8 = 0
  /\ HighLimit \in Nat \ {0}
  /\ Portions \subseteq Nat
  /\ MaxMessage \in Nat
  /\ Targets64 \subseteq Nat \ {0}
  /\ Sources \subseteq Seq(Byte) /\ Encodings \subseteq Seq(Byte) /\ Texts \subseteq Seq(Byte)
  /\ Lengths \subseteq 0..MaxLength

VARIABLES
  input,    \* the other input looked at
  context,  \* of SHA-1
  given,    \* bytes given to it before the digest was computed
  late      \* some were given afterwards

codecVars == <<input, context, given, late>>

Nothing == [kind |-> "none"]

CodecsInit ==
  /\ Init
  /\ input = Nothing
  /\ context = SHA1Reset
  /\ given = 0
  /\ late = FALSE

NotificationArrives ==
  /\ input = Nothing /\ context = SHA1Reset
  /\ Next
  /\ UNCHANGED codecVars

Elsewhere == input = Nothing /\ verdict = "none"

(* Some message, without a pattern of 64 bytes. *)
MessageByte(i) == (31 * i + (i \div 64)) % 256

MessageBytes(from, to) == [i \in 1..to - from |-> MessageByte(from + i)]

GiveBytes(n) ==
  /\ Elsewhere
  /\ context' = SHA1Input(context, MessageBytes(given, given + n))
  /\ IF context.Computed
     THEN late' = (late \/ n > 0) /\ given' = given
     ELSE given + n <= MaxMessage /\ given' = given + n /\ late' = late
  /\ UNCHANGED <<vars, input>>

AskDigest ==
  /\ Elsewhere
  /\ context' = SHA1Result(context)
  /\ UNCHANGED <<vars, input, given, late>>

Inputs ==
  [kind : {"source"}, bytes : Sources, target : Targets64]
  \cup [kind : {"encoding"}, bytes : Encodings, target : Targets64]
  \cup [kind : {"text"}, bytes : Texts]
  \cup [kind : {"key"}, answer : Answers]
  \cup [kind : {"header"}, length : Lengths, opcode : {WS_OPCODE_TEXT, WS_OPCODE_CLOSE}]

LookAt(i) ==
  /\ Elsewhere /\ context = SHA1Reset
  /\ input' = i
  /\ UNCHANGED <<vars, context, given, late>>

LookAway ==
  /\ input # Nothing
  /\ input' = Nothing
  /\ UNCHANGED <<vars, context, given, late>>

CodecsNext ==
  \/ NotificationArrives
  \/ \E n \in Portions : GiveBytes(n)
  \/ AskDigest
  \/ \E i \in Inputs : LookAt(i)
  \/ LookAway

CodecsSpec == CodecsInit /\ [][CodecsNext]_<<vars, codecVars>>

-----------------------------------------------------------------------------
(* libwebsock_handshake_finish: the value of Sec-WebSocket-Accept *)

(* "258EAFA5-E914-47DA-95CA-C5AB0DC85B11" *)
GID == <<50, 53, 56, 69, 65, 70, 65, 53, 45, 69, 57, 49, 52, 45, 52, 55, 68, 65,
         45, 57, 53, 67, 65, 45, 67, 53, 65, 66, 48, 68, 67, 56, 53, 66, 49, 49>>

ConcatRoom == 1024   \* the buffer for a key and GID, with the end of the text

(* Keys that do not fit are beyond the model. *)
ASSUME AcceptAssumption == \A a \in Answers : Len(a[1]) + Len(GID) < ConcatRoom

(* Seeded bug: the digest is taken before the last block is padded. *)
AcceptEarly(key) ==
  LET shactx == SHA1Input(SHA1Reset, key \o GID)
  IN base64_encode(DigestBytes(shactx.Message_Digest), 256).target

Accept(key) ==
  LET shactx == SHA1Result(SHA1Input(SHA1Reset, key \o GID))
  IN base64_encode(DigestBytes(shactx.Message_Digest), 256).target

-----------------------------------------------------------------------------
(* Properties *)

(* However a message is cut into portions, the digest is that of the       *)
(* standard, over one padding block or two, and with the carry from        *)
(* Length_Low to Length_High in the length it ends with (SHA1Input,        *)
(* SHA1PadMessage); asking twice changes nothing.                          *)
DigestIsStandard ==
  context.Computed => context.Message_Digest = StandardDigest(MessageBytes(0, given))

(* The context is corrupted exactly by a message too long for the counters *)
(* and by bytes that come after the digest was computed (SHA1Input), and a *)
(* message that is too long gets no digest (SHA1Result).                   *)
CorruptedIsNoticed ==
  /\ context.Corrupted <=> late \/ 8 * given >= LowLimit * HighLimit
  /\ context.Computed => 8 * given < LowLimit * HighLimit

(* What is encoded has, with its end, room in the target or is refused;    *)
(* its characters hold the bits of the source six by six; and decoded      *)
(* again it is the source (base64_encode, base64_decode).                  *)
Base64RoundTrip ==
  input.kind = "source" =>
    LET encoded == base64_encode(input.bytes, input.target)
        text == Front(encoded.target)
        n == Len(input.bytes)
        bit(i) == IF i >= 8 * n THEN 0 ELSE Bit(input.bytes[(i \div 8) + 1], 7 - (i % 8))
    IN /\ encoded.result = 1 <=> 4 * ((n + 2) \div 3) + 1 <= input.target
       /\ encoded.result = 1 =>
            /\ Len(encoded.target) <= input.target
            /\ \A k \in 1..((8 * n + 5) \div 6), j \in 0..5 :
                 Bit(_base64_char_value(text[k]), 5 - j) = bit(6 * (k - 1) + j)
            /\ base64_decode(text, n).target = input.bytes

(* "we won't reach the end": whatever the text, decoding stops before the  *)
(* end of the source, and never writes more than the target holds; the     *)
(* length it returns is what it wrote (base64_decode).                     *)
DecodingStays ==
  input.kind = "encoding" =>
    LET decoded == base64_decode(input.bytes, input.target)
    IN /\ decoded.tmplen # 3
       /\ decoded.read <= Len(Significant(input.bytes))
       /\ decoded.result # -2
       /\ Len(decoded.target) <= input.target
       /\ decoded.result # -1 => decoded.result = Len(decoded.target)

(* A text passes for UTF-8 exactly when what is before its first zero byte *)
(* is a sequence of well-formed characters of RFC 3629: no surrogate, no   *)
(* overlong form, nothing cut short (validate_utf8_sequence).              *)
ValidIsWellFormed ==
  input.kind = "text" =>
    (validate_utf8_sequence(input.bytes) <=> WellFormed(UpToZero(input.bytes)))

(* The header libwebsock writes, with a mask put in as a client does, is   *)
(* read back byte by byte as the same opcode and length, the payload       *)
(* starting right behind the mask, at each size of the length field        *)
(* (libwebsock_send_fragment, libwebsock_read_header).                     *)
HeadersReadBack ==
  input.kind = "header" =>
    LET header == Header(input.opcode, input.length)
        wire == [header EXCEPT ![2] = @ + 128] \o <<9, 8, 7, 6>>
        steps == FoldLeft(LAMBDA f, b : ByteTaken(f, b).frame, FirstFrame, wire)
        last == ByteTaken(FoldLeft(LAMBDA f, b : ByteTaken(f, b).frame, FirstFrame, Front(wire)), 6)
    IN /\ last.result = 1
       /\ steps.opcode = input.opcode /\ steps.fin = 1
       /\ steps.payload_len = input.length
       /\ steps.payload_offset = Len(wire)
       /\ steps.mask = <<9, 8, 7, 6>>

(* The answer to a key is what other implementations of RFC 6455 expect:   *)
(* the Base64 of the SHA-1 of the key and GID (libwebsock_handshake_finish).*)
AcceptIsStandard ==
  input.kind = "key" => Accept(input.answer[1]) = Append(input.answer[2], 0)
=============================================================================
