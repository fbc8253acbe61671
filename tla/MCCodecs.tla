------------------------------ MODULE MCCodecs -------------------------------
(* Inputs of the codecs for TLC. *)
EXTENDS Codecs

MCTexts ==
  LET edge == {0, 1, 127, 128, 143, 144, 159, 160, 191, 192, 193, 194, 223, 224, 225,
               236, 237, 238, 239, 240, 244, 245}
      tail == {127, 128, 143, 144, 159, 160, 191, 192}
  IN {<<>>} \cup UNION {[1..n -> edge] : n \in 1..2}
     \cup {<<a, b, c>> : a \in edge, b \in tail, c \in tail \cup {0, 65}}
     \cup {<<a, b, c, d>> : a \in {239, 240, 241, 243, 244, 245}, b \in tail,
                            c \in {127, 128, 191, 192}, d \in {0, 128, 191, 192}}

MCSources == UNION {[1..n -> {0, 63, 129, 255}] : n \in 0..4} \cup {<<1, 2, 3, 4, 5, 6>>}

(* "A", "/", "=", a character to skip and one above 127 *)
MCEncodings == UNION {[1..n -> {65, 47, 61, 10}] : n \in 0..5}
               \cup {<<128, 65, 66, 67, 68, 69>>, <<65, 66, 67, 68, 65, 66, 67, 68>>}

(* "dGhlIHNhbXBsZSBub25jZQ==", answered by "s3pPLMBiTxaQ9kYGzzhZRbK+xOo=" in section 1.3  *)
(* of RFC 6455, and "x3JJHMbDL1EzLkh9GBhXDw==", by
   "HSmrc0sMlYUkAGmm5OPpG2HaGWk=" in an independent implementation. *)
MCAnswers == {
  <<<<100, 71, 104, 108, 73, 72, 78, 104, 98, 88, 66, 115, 90, 83, 66, 117, 98,
      50, 53, 106, 90, 81, 61, 61>>,
    <<115, 51, 112, 80, 76, 77, 66, 105, 84, 120, 97, 81, 57, 107, 89, 71, 122,
      122, 104, 90, 82, 98, 75, 43, 120, 79, 111, 61>>>>,
  <<<<120, 51, 74, 74, 72, 77, 98, 68, 76, 49, 69, 122, 76, 107, 104, 57, 71, 66,
      104, 88, 68, 119, 61, 61>>,
    <<72, 83, 109, 114, 99, 48, 115, 77, 108, 89, 85, 107, 65, 71, 109, 109, 53,
      79, 80, 112, 71, 50, 72, 97, 71, 87, 107, 61>>>>}

MCLengths == {0, 1, 125, 126, 127, 128, 255, 256, 65535, 65536, 65537}
=============================================================================
