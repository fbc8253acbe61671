-------------------------------- MODULE Sha1 ---------------------------------
(***************************************************************************)
(* SHA-1 as libwebsock computes it (contrib/libwebsock/src/sha1.c) for the *)
(* answer to a handshake: a context that takes the message in portions,    *)
(* counts its bits in two words and pads it at the end.                    *)
(*                                                                         *)
(* A word of 32 bits is the set of the positions of its ones.              *)
(***************************************************************************)
EXTENDS WsFrame, FiniteSetsExt

CONSTANTS   \* both 2^32 in the code
  LowLimit,   \* where Length_Low wraps
  HighLimit   \* where Length_High wraps

Word == SUBSET (0..31)

FromBytes(b) == {i \in 0..31 : Bit(b[4 - (i \div 8)], i % 8) = 1}

ToBytes(w) ==
  [j \in 1..4 |-> MapThenSumSet(LAMBDA i : 2^i, {i \in 0..7 : i + 8 * (4 - j) \in w})]

Xor2(a, b) == (a \ b) \cup (b \ a)

(* The operator + on words: bit by bit, with a carry.  The test for empty   *)
(* arguments, here and below, makes TLC evaluate them before it recurs.     *)
Plus(words) ==
  LET below[n \in 0..32] ==   \* the sum of the n lowest bits
        IF n = 0 THEN [carry |-> 0, word |-> {}]
        ELSE LET sum == below[n - 1]
                 total == sum.carry + Cardinality({k \in DOMAIN words : n - 1 \in words[k]})
             IN [carry |-> total \div 2,
                 word |-> IF total % 2 = 1 THEN sum.word \cup {n - 1} ELSE sum.word]
  IN IF words = <<>> THEN {} ELSE below[32].word

SHA1CircularShift(n, w) == {(i + n) % 32 : i \in w}

-----------------------------------------------------------------------------
(* SHA1ProcessMessageBlock *)

K == <<FromBytes(<<90, 130, 121, 153>>), FromBytes(<<110, 217, 235, 161>>),
       FromBytes(<<143, 27, 188, 220>>), FromBytes(<<202, 98, 193, 214>>)>>

(* Sixteen words more of the word sequence W, which starts at index 1. *)
Longer(W) ==
  LET more[n \in 0..16] ==
        IF n = 0 THEN W
        ELSE LET V == more[n - 1]
                 t == Len(V) + 1
             IN Append(V, SHA1CircularShift(1, Xor2(Xor2(V[t - 3], V[t - 8]),
                                                    Xor2(V[t - 14], V[t - 16]))))
  IN IF W = <<>> THEN <<>> ELSE more[16]

Schedule(block) ==
  LET first == IF block = <<>> THEN <<>>
               ELSE <<>> \o [t \in 1..16 |-> FromBytes(SubSeq(block, 4 * t - 3, 4 * t))]
  IN Longer(Longer(Longer(Longer(first))))

Mix(t, B, C, D) ==
  CASE t < 20 -> (B \cap C) \cup (D \ B)
    [] t \in 40..59 -> (B \cap C) \cup (B \cap D) \cup (C \cap D)
    [] OTHER -> Xor2(Xor2(B, C), D)

(* One turn of the four loops; h holds A, B, C, D and E. *)
Round(h, t, w) ==
  IF h = <<>> THEN <<>>
  ELSE <<Plus(<<SHA1CircularShift(5, h[1]), Mix(t, h[2], h[3], h[4]), h[5], w,
                K[(t \div 20) + 1]>>),
         h[1], SHA1CircularShift(30, h[2]), h[3], h[4]>>

Compressed(digest, block) ==
  LET W == Schedule(block)
      Loop(h, from) ==
        LET after[n \in 0..20] ==
              IF n = 0 THEN h ELSE Round(after[n - 1], from + n - 1, W[from + n])
        IN IF h = <<>> \/ W = <<>> THEN <<>> ELSE after[20]
      h == Loop(Loop(Loop(Loop(digest, 0), 20), 40), 60)
      sum(i) == Plus(<<digest[i], h[i]>>)
  IN <<sum(1), sum(2), sum(3), sum(4), sum(5)>>

-----------------------------------------------------------------------------
(* Contexts.  Message_Block holds the bytes up to Message_Block_Index. *)

SHA1Reset ==
  [Message_Digest |-> <<FromBytes(<<103, 69, 35, 1>>), FromBytes(<<239, 205, 171, 137>>),
                        FromBytes(<<152, 186, 220, 254>>), FromBytes(<<16, 50, 84, 118>>),
                        FromBytes(<<195, 210, 225, 240>>)>>,
   Length_Low |-> 0, Length_High |-> 0, Message_Block |-> <<>>,
   Computed |-> FALSE, Corrupted |-> FALSE]

SHA1ProcessMessageBlock(c) ==
  [c EXCEPT !.Message_Digest = Compressed(@, c.Message_Block), !.Message_Block = <<>>]

Stored(c, b) == [c EXCEPT !.Message_Block = Append(@, b)]

(* Eight bits more; the context is corrupted when both words have wrapped. *)
Counted(c) ==
  LET low == (c.Length_Low + 8) % LowLimit
      high == (c.Length_High + (IF low = 0 THEN 1 ELSE 0)) % HighLimit
  IN [c EXCEPT !.Length_Low = low, !.Length_High = high,
               !.Corrupted = @ \/ (low = 0 /\ high = 0)]

(* One turn of the loop of SHA1Input. *)
Taken(c, b) ==
  LET counted == Counted(Stored(c, b))
  IN CASE c.Corrupted -> c
       [] ~c.Corrupted /\ Len(counted.Message_Block) = 64 -> SHA1ProcessMessageBlock(counted)
       [] OTHER -> counted

(* Seeded bug: a message may go on after its digest was computed. *)
SHA1InputLate(c, bytes) == FoldLeft(Taken, c, bytes)

SHA1Input(c, bytes) ==
  CASE bytes = <<>> -> c
    [] bytes # <<>> /\ (c.Computed \/ c.Corrupted) -> [c EXCEPT !.Corrupted = TRUE]
    [] OTHER -> FoldLeft(Taken, c, bytes)

FilledTo(c, n) ==
  [c EXCEPT !.Message_Block = @ \o [i \in 1..n - Len(@) |-> 0]]

(* Seeded bug: 56 bytes are thought to leave room for the length. *)
SHA1PadMessageTight(c) ==
  LET one == Stored(c, 128)
      room == IF Len(c.Message_Block) > 56
              THEN FilledTo(SHA1ProcessMessageBlock(FilledTo(one, 64)), 56)
              ELSE FilledTo(one, 56)
  IN SHA1ProcessMessageBlock(
       [room EXCEPT !.Message_Block = SubSeq(@, 1, 56) \o ToBigEndian(c.Length_High, 4)
                                         \o ToBigEndian(c.Length_Low, 4)])

SHA1PadMessage(c) ==
  LET one == Stored(c, 128)
      room == IF Len(c.Message_Block) > 55
              THEN FilledTo(SHA1ProcessMessageBlock(FilledTo(one, 64)), 56)
              ELSE FilledTo(one, 56)
  IN SHA1ProcessMessageBlock(
       [room EXCEPT !.Message_Block = @ \o ToBigEndian(c.Length_High, 4)
                                         \o ToBigEndian(c.Length_Low, 4)])

(* The context afterwards; the function returns 0 when it is corrupted. *)
SHA1Result(c) ==
  IF c.Corrupted \/ c.Computed THEN c
  ELSE [SHA1PadMessage(c) EXCEPT !.Computed = TRUE]

(* libwebsock_handshake_finish prints the digest and reads it as bytes.    *)
DigestBytes(digest) ==
  ToBytes(digest[1]) \o ToBytes(digest[2]) \o ToBytes(digest[3])
  \o ToBytes(digest[4]) \o ToBytes(digest[5])

-----------------------------------------------------------------------------
Blocks(message, n) == [b \in 1..n |-> SubSeq(message, 64 * b - 63, 64 * b)]

(* The digest of a whole message, after FIPS 180-1: padded to a multiple   *)
(* of 64 bytes, its length in bits in the last two words.                  *)
StandardDigest(message) ==
  LET n == Len(message)
      zeros == (119 - (n % 64)) % 64
      padded == message \o <<128>> \o [i \in 1..zeros |-> 0]
                \o ToBigEndian((8 * n) \div LowLimit, 4) \o ToBigEndian((8 * n) % LowLimit, 4)
  IN FoldLeft(Compressed, SHA1Reset.Message_Digest, Blocks(padded, Len(padded) \div 64))
=============================================================================
