------------------------------ MODULE MCWebSock ------------------------------
(* Scripts of clients for TLC: every message followed by every ending.     *)
EXTENDS WebSock

Masked(opcode, fin, payload) ==
  [fin |-> fin, reserved |-> 0, opcode |-> opcode, masked |-> 1,
   key |-> <<1, 2, 3, 4>>, payload |-> payload]

Text(payload) == Masked(WS_OPCODE_TEXT, 1, payload)
First(payload) == Masked(WS_OPCODE_TEXT, 0, payload)
Middle(payload) == Masked(WS_OPCODE_CONTINUE, 0, payload)
End(payload) == Masked(WS_OPCODE_CONTINUE, 1, payload)
Control(opcode, payload) == Masked(opcode, 1, payload)
Close(payload) == Control(WS_OPCODE_CLOSE, payload)

(* 195 169 is a character of two bytes, which fragments may cut; a text    *)
(* may have zeros in it, and bytes that are no text behind them.           *)
MCMessages == {
  <<>>,
  <<Text(<<>>)>>,
  <<Text(<<65, 0, 66>>)>>,
  <<Text(<<65, 0, 255>>)>>,
  <<Masked(WS_OPCODE_BINARY, 1, <<255, 65, 66, 67, 68>>)>>,
  <<First(<<195>>), Middle(<<>>), End(<<169>>)>>,
  <<First(<<195>>), Control(WS_OPCODE_PING, <<65, 66, 67, 68, 69>>), End(<<169>>)>> }

MCEndings == {
  <<>>,
  <<Control(WS_OPCODE_PONG, <<>>), Text(<<66>>)>>,
  <<Close(<<>>)>>,
  <<Close(<<3, 232>>)>>,
  <<Close(<<3, 237>>)>>,
  <<Close(<<3, 232, 255>>)>>,
  <<Text(<<255>>), Text(<<65>>)>>,
  <<First(<<65>>), Text(<<66>>)>>,
  <<First(<<65>>), Masked(WS_OPCODE_TEXT, 0, <<66>>)>>,
  <<End(<<65>>)>>,
  <<Masked(3, 1, <<65>>)>>,
  <<Masked(WS_OPCODE_PING, 0, <<65>>)>> }

MCMalformed == {
  <<[Text(<<65>>) EXCEPT !.reserved = 4]>>,
  <<[Text(<<65, 66>>) EXCEPT !.masked = 0]>> }

(* Neighbours have different masks. *)
WithKeys(s) ==
  [i \in DOMAIN s |-> IF i % 2 = 1 THEN s[i] ELSE [s[i] EXCEPT !.key = <<5, 6, 7, 9>>]]

MCScripts ==
  {WithKeys(m \o e) : m \in MCMessages, e \in MCEndings} \cup {WithKeys(m) : m \in MCMalformed}

MCRequests == {<<"line", "key", "end">>, <<"line", "end">>}
=============================================================================
