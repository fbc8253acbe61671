# glouglou: specifications and proofs

This directory holds TLA+ modules for glouglou, the daemon that collects what
probes see and shows it to visualisation clients, with the TLC configurations
that check them and proofs for TLAPS. `PROJECT.json` lists the runs, maps every
definition to the lines it models, and lists the hazards the properties are for.

    tlc -workers 2 -config SendBuf_stream.cfg SendBuf     # one run
    for m in Folding WsFrameProofs Base64Proofs CodecsProofs SendBufProofs VizProofs \
             GlougloudProofs WebSockProofs; do tlapm $m.tla; done   # the proofs

## The system

| part | source | state | operations |
|---|---|---|---|
| send buffer | `libsendbuf/` | memory, two offsets, a timer | new, append, gettoken, flush, timer, free |
| viz process | `glougloud/viz.c`, `glougloud_mod_*` | modules, connection to Redis, TCP clients | load, connect, notification, accept, read, event |
| Redis link | `glougloud/redis.c` | the hiredis context | start, stop, connect, parse a notification |
| root daemon | `glougloud/glougloud.c`, `libglouglou/utils.c` | pids of three children, event loop | three forks, signals, daemonizing, `kill_wait` |
| probes process | `glougloud/probes.c` | as viz, with a UDP server | stubs |
| UDP server | `libglouglou/server.c` | list of users, two counters, one send buffer per user | start, receive, add, delete, stop; in progress, does not compile |
| codec | `libglouglou/packet.c`, `libglouglou_mod_0_internal/` | a static decode buffer | encode, decode, length; does not compile |
| client, dummy probe | `libglouglou/client.c`, `ggprobe_dummy/` | | a stub and a test over it |
| logging, utilities | `libglouglou/log.c`, `utils.c` | | single system calls |
| libgsnetstream | `libgsnetstream/` | | empty |
| websocket connections | `contrib/libwebsock/src/` `websock.c`, `frames.c`, `api.c`, `default_callbacks.c`, `openssl.c` | per connection: flags, chain of frames, callbacks, output | bind, accept, handshake, receive, control frames, close, shutdown |
| texts and digests | `contrib/libwebsock/src/` `sha1.c`, `base64.c`, `utf.c`, `util.c` | a SHA-1 context | digest, encode, decode, validate |

How they interact: root forks redis, probes and viz and then only waits for
signals. Probes are to write records (sets of probe IDs) to Redis over a Unix
socket. Redis publishes an event for each write that changes a record; viz
subscribes to the events, asks the module whose id is the number of the database
for a line of text, and writes the line to every TCP client. A UDP server keeps
one send buffer per user. libwebsock is vendored for websocket clients of viz, and
not called yet (`viz.c:171-173`); it is modelled as the server of its own
`docs/API.txt`, since it is the largest piece of protocol code in the repository.

Every process is one thread with an event loop, so a callback is one step of a
model. What makes the system hard is between the steps: what sends take, in
which order clients, events and the loss of Redis come, and when children end.

What makes each part correct:

- send buffer: a bounded first-in first-out byte stream that never leaves its
  memory and never sends an empty or cut datagram, whatever the send function
  takes; it is emptied without help from its user;
- viz: each client hears, once and in order, the events handled since it
  came, and nothing else; lines from clients are read;
- root: a deadly signal ends it; what it says of redis is true; no child is
  left; it signals only processes that are its children;
- server: one user per address, packets are handled for who sent them, an id
  stands for one address for ever;
- websocket connections: messages and answers come out as the client meant them,
  however TCP cuts the bytes; errors end in a close frame and a shutdown; the
  application is told of a connection's beginning and end;
- texts and digests: what the standards say, over every cut of the input;
- codec: decoding what was encoded gives it back.

## Modules

**ByteStream** is the abstract specification of a send buffer: a phase, the
number of bytes accepted, the sequence delivered, and one action that moves some
bytes out and some in within the capacity.

**SendBuf** models `libsendbuf.c`. Variables are the fields of `struct
sendbuf` with their names. A byte is the number of its position in the stream
of all bytes accepted, so that `wire[i] = i` says that nothing was lost,
repeated or reordered. `sendbuf_append` and `sendbuf_gettoken` are one action
each, with the flush they may call inside (`RoomAt`, `Refused`); `WriteToken` is
the user writing through the pointer later. The history variables `ends` and
`cuts` are where tokens and sends end. `AllOrNothing` selects a datagram socket,
which takes everything or fails. `phase` also covers a failed `sendbuf_new`.
Tokens larger than the buffer are excluded by `SizesAssumption`: the code never
compares a token with the whole buffer.

**SendBufProofs** holds the proofs about SendBuf.

**Viz** models the viz process with Redis and the clients around it. A line
is the position in `published` of the event it tells, 0 being the welcome line.
The text of a line is abstract, but whether there is one is not (`HasText`).
`link` is the connection from Redis, replies in flight in order;
`_redis_cb_notification` handles its head. `RedisDrops` is Redis closing the
connection (it restarts, or the subscriber is too slow), which can cut what was
in flight. Redis is external and modelled from `doc/architecture.txt:325-357`.
**MCViz** adds the symmetry of connections and probes.

**Broadcast** is the abstract specification of viz: items of a numbered feed,
members who join with a greeting and leave, and each item heard by everybody
present or by nobody. `Announcements` in Viz is the mapping: the members present
are the live clients, what they heard is the output given to their bufferevents,
and the items gone through are the events handled.

**VizProofs** holds the proofs about Viz.

**Notify** models what viz makes of one reply: `redis_parse_keyspace_notification`
cuts the channel with four calls of `strtok`, and the callback goes on only
with four elements. Here texts are sequences of characters, since the property is
about the conversion; `Event(db, op, target)` is what Redis sends, and the
reference the parser is checked against. Names that do not fit the static buffers of
the parser (`NameRoom`), which copies them without looking, are excluded by
`NotifyAssumption`.

**Daemon** models the root process: `pc` follows `main`, `stage` and `tries`
follow `kill_wait`, which blocks the event loop, so signals only add to `pending`
meanwhile. `parent` tells whether the process that runs the loop forked the
children: after the second fork it did not. Children end when they like.

**GGServer** models the table of users of `server.c`. `user_list`, `user_count` and
`user_id_count` are the fields of `struct gg_server`; `datagrams` is the network, where
a datagram that was sent may arrive never, once or again at any time, in any
order; `handled` records the calls of `handle_packet`, if the application gave one. `cb_srv_receive` is one of
four steps: `Hello` from an unknown address, whatever is in the datagram,
`HelloFails` (no memory: the error path of `user_add` writes through a null pointer),
`Goodbye`, `PacketsArrive`. The file is marked in progress and does not compile;
what it calls and nobody has written (`user_find`, `pkt_decode`) is external. Nothing
is ever sent: `sock` of the server is never set, and a user gets a copy of it.
Ids are numbers of type int, and `MaxUsers` keeps the counter below its largest
(`IntMax`): a server that has met 2^31 users is beyond the model.

**GlougloudProofs** holds the proofs about Daemon and about GGServer, which share no state.

**WsFrame** models the bytes of a websocket connection: `libwebsock_read_header`, one
transition per byte, `Unmasked`, `libwebsock_send_fragment`, and the UTF-8 automaton of
`utf.c` with its table. `WellFormed` says the same from RFC 3629.

**WebSock** models a server and one connection; connections share nothing but the
event loop. `state` is `libwebsock_client_state`, with the chain of frames as a
sequence, what was written to the output in `written`, and the calls of the
application in `calls`. `HandleRecv` fills the local buffer and `HandleRecvByte` is
one turn of the loop over it; no other callback runs before the buffer is empty.
The client sends a request and, once it has the response, the frames of a script;
`HandleRecv(k)` cuts them anywhere. `Meant` is the reference: what the script says,
frame by frame, after RFC 6455, with whole payloads: nothing of it knows of C
strings. A request ends with its blank line, nothing behind it. **MCWebSock** holds the scripts: every message
followed by every ending.

**WsFrameProofs** holds lemmas about WsFrame, and **WebSockProofs** the proofs about
WebSock.

**Sha1** and **Base64** model `sha1.c` and `base64.c` as functions. A word is the
set of the positions of its ones, so the bit operations are those of sets;
`StandardDigest` is FIPS 180-1 for a whole message, while `SHA1Input` takes it in
portions and counts its bits in two words.

**Codecs** puts Notify, Sha1, Base64 and WsFrame behind one specification that looks
at one input at a time and gives a SHA-1 context one portion after the other. The keys of
handshakes fit the buffer they are put into with the GUID (`ConcatRoom`, `AcceptAssumption`);
nothing in the code sees to that. **MCCodecs** holds the inputs. **CodecsProofs** holds
the proofs about them, and **Base64Proofs** the lemmas about Base64 that they rest on.

**Folding** has what the proofs need of induction, and what `FoldLeft` computes; it
is instantiated for each operator that the models fold.

Definitions called "Seeded bug" are variants of the definition below them, each
with a mistake such code could have. They are not part of any specification;
they serve to show that each property can fail.

## Runs

| run | shows | bounds |
|---|---|---|
| `sendbuf_stream` | types, order, conservation, no empty send, refinement of ByteStream with liveness, the buffer is emptied | buffer 4, tokens 1, 2 and 4, 8 bytes: several wraps, a token as large as the buffer, several short sends of one flush |
| `sendbuf_datagram` | datagrams end where tokens end; the strengthened invariant | buffer 5, tokens 2 and 3, 14 bytes |
| `viz_feed` | each client hears the events handled since it came, in order; no event is lost; Broadcast is implemented | 2 clients, 2 probes, a record with a text and one without, 3 events |
| `viz_live` | an event reaches a client that stays; types; input lines | 1 client, 3 kinds of records, 2 events, 2 lines |
| `codecs` | the event viz acts on is the one Redis published, and nothing else is acted on; digests are those of the standard; Base64 and frame headers read back; UTF-8 is what RFC 3629 says; the answer to a handshake is the right one | all 16 databases, names of up to 3 characters with "_" anywhere; messages of up to 130 bytes cut anywhere, with counters that wrap at 512 bits and 1024 bits; every class of byte at every place of a character; every size of the length field |
| `websock` | no byte skipped or read twice; messages as the client meant them and, if it sends no zeros, the right answers, for every cut by TCP; bracketed calls; a shutdown only once a close frame and all else is sent; closing ends | buffer 5 (1024 in the code), 86 scripts of up to 5 frames, two requests |
| `server` | one user per address, the count, attribution of packets, ids never used again | 2 hosts with 2 ports, 3 users, 3 different datagrams, each arriving any number of times |
| `daemon_shutdown` | a deadly signal ends root; reports of root are true when it is the parent of redis; redis is waited for | 10 turns as in the code, 3 signals, both modes, forks that fail |

These runs find a disagreement between the code and what it says:

| run | what happens |
|---|---|
| `viz_config` | of two lines that arrive together the second is not read |
| `daemon_report` | as a daemon root reports that redis is down while it runs |
| `websock_echo` | a text is echoed only up to its first zero byte, since its length is taken with `strlen`; `docs/API.txt:6-8` promises the exact same message |
| `websock_stop` | a text that comes behind a failure is delivered, and echoed behind the close frame; the comment at `websock.c:304` says that processing stops |

The bounds on counters are the constants called `Max...`; actions that would
pass them are disabled, so `CHECK_DEADLOCK` is off (but for `codecs`): a model stops when its
bounds are used up, when a buffer is freed or a process has ended. Bounds this
small are enough because the code compares only offsets with the buffer size,
an event with nothing but its own record, and a turn with 10; one client more
than the one under observation shows interference between clients. In `websock` a
frame is longer than the local buffer, so that a read takes several turns and
several frames share one; in `codecs` 512 and 2 stand for 2^32 in the counters of
SHA-1 (`LowLimit`, `HighLimit`), so that both wrap within a few blocks.

Behaviours of the models that no run keeps, as there are more of them than
questions worth a run each:

- viz: a new client is not sent the graph that exists already
  (`doc/architecture.txt:129`), a lost connection to Redis is never made again
  (`viz.c:189-197`), and removing a probe from a node record is announced as a new
  node, since the module looks at the tag of the key and not at the operation;
  `clients_count` is decremented for clients that leave and never incremented
  (`viz.c:246`), so it wraps; nothing reads it;
- root goes on as the child when `fork` fails: -1 does not pass the test `pid > 0`, and
  the caller hears of no error (`redis.c:31`, `glougloud.c:96-97`). It neither waits for
  nor stops probes and viz (`doc/architecture.txt:108`), and when the last `waitpid` of `kill_wait` reaps redis, SIGKILL still goes to the pid;
- server: without memory `user_add` crashes, a probe that vanishes stays a user for
  ever, and no answer ever goes out;
- libwebsock: a handshake without a key leaks its state; the default application
  echoes binary messages as texts; texts and reasons are checked to be UTF-8 only up to
  their first zero byte, so what is malformed behind it passes; when the
  application closed first, the close frame of the client wakes nobody and the
  connection stays until the client closes TCP; a header that is refused does not
  end the reading of what came with it.

## Fairness

- SendBuf: the timer is fair if its flush makes progress (`SF` on
  `TimerProgress`), that is, libevent fires a pending timer and the transport
  takes at least one byte again and again. It is strong because a user between
  `sendbuf_gettoken` and its write keeps the callback away; such a user
  does write (`WF` on `WriteToken`). Users need not ever call again.
- Viz: weak fairness on each callback (libevent runs what is due), on Redis
  confirming a subscription, and on clients reading. Nothing about probes, about
  clients sending, or about the connection to Redis staying up.
- WebSock: weak fairness on reading what has arrived and on `libwebsock_handle_send`:
  libevent runs what is due and the client takes what it is sent. The client need
  not send anything, or ever close.
- Codecs and GGServer have no fairness: an input is looked at or not, and a network
  need not deliver.
- Daemon: weak fairness on the steps of root only. Redis may ignore SIGTERM
  for ever.

## Proofs

`SendBufProofs` proves for every buffer size, every set of token sizes that
fit, and both kinds of transport, under `SizesAssumption`:

- `TypeCorrect`, `InOrder`, `Conservation`, `NoEmptySend`, `TokensStayWhole`:
  the invariants of SendBuf;
- `Refinement`: the safety part of ByteStream is implemented.

None of the invariants is inductive. `IInv` joins `TypeOK` and `WireInOrder`
with what they need: `Contents` says which byte of the stream every offset
between the two positions holds, a token got and not yet written excepted;
`Total` that what was accepted is what was sent and what is between the
positions; `Pending` that `flushing_pos` stays below `buffer_pos` when there is
something in the buffer, so nothing empty is offered, and that an unwritten
token is last; `Boundaries` that over datagrams `flushing_pos` stays 0 and the
buffer ends where a token ends. The lemmas follow the code: one call of
`send_func` (`TakenLemma`), a flush that completes or stops, room for a token, a
token accepted; then one step per action in `Invariance`, `Safety => []IInv`.
The refinement uses that every action only adds to `wire` and `accepted`
(`Advances`). The run `sendbuf_datagram` checks `IInv` on an instance.

`VizProofs` proves for any connections, probes and records, and however many
events are published, under `RecordsAssumption`: `ClientsFollowFeed`
(`OutputFollowsFeed`), `NothingLost` (`NoEventLost`), `VizIsABroadcast`
(`ImplementsBroadcast`) and `TypeCorrect` (`TypeOK`). That a client's lines are in order depends on the order of
the replies in flight, so the invariant joins what clients were written (`Served`)
with the link (`FeedOrder`): the replies in flight are the events after the last
one handled, in order and without a gap, behind the confirmation of the
subscription if it is still in flight, and while the subscription holds they go
up to the last event published. `NoEventLost` follows: an event is handled, and
then in the output, or it is in flight. For the refinement `HeadLemma` is the
heart: the reply handled is the confirmation or the very next event. That a
module prints an event exactly when a client has to hear it (`ToldIsTellable`)
uses that records of the two databases are told apart, `RecordsAssumption`. For the
types what has to be added is that a client's lines on the socket, in the input
buffer and handled are together never more than it sent (`ReadingTyped`), and that
the event handled is one that was published (`HeadLemma` again).

`GlougloudProofs` proves of Daemon, for every positive number of turns (the code has 10)
and any number of signals, under `DaemonAssumption`: `TypeCorrect`, `TrueReport`
(`ParentReportsTruly`) and `Reaped` (`RedisIsReaped`). What has to be added is
what the first shutdown leaves to the second: `Reported` says that in the parent
of redis a shutdown that returned left redis ended, and that the loop is told to
exit by a handler that shut down; `Reaping` that the second `kill_wait` finds
redis ended and waits for it in its first turn, so that a second SIGKILL, if it
came to that, would find it waited for; `Placed` that all this happens from the
event loop on, after redis was forked. Without a first turn nothing would be
waited for: that is where the assumption on `WaitTries` is used.

Of GGServer it proves every invariant for any addresses, packets and bounds, whatever
the network does: `ServerTypeCorrect`, `UsersAreUnique`
(`OneUserPerAddress`), `CountIsLength` (`UsersCounted`), `PacketsAreAttributed`
(`HandledForSender`) and `IdsAreForEver` (`IdsNeverReused`). Together they are inductive,
with the clauses of `ServerTypeOK` that keep the list finite, for its cardinality, and every
id ever given below `user_id_count`. `AddressesCompared` carries the rest: `addrcmp` is
0 for equal addresses only, so `user_find` finds the one user of an address or none.

`WebSockProofs` proves for any requests, scripts and buffer size, under
`WebSockAssumption`: `CallbacksAreBracketed` (`CallbacksBracketed`), `TypeCorrect`
(`TypeOK`), `ClosedAfterClose` (`ClosedAfterCloseFrame`), `WaitingBytes`
(`WaitingIsNext`) and `MessagesAreDelivered` (`MessagesDelivered`). Three invariants
carry them.

- `IInv` tells three lives of a connection apart: `Fresh` before the handshake is
  finished, `Opened` with the flag CONNECTED and the calls begun, and over, with the
  calls finished if there were any; bytes are only looked at on an open one. One lemma
  per function says that it keeps an open connection open (`WrittenKeeps`, `FailKeeps`,
  `ControlKeeps`, `DispatchKeeps`, `CompleteKeeps`), with nothing assumed of frames and
  payloads: what a client sends cannot make the application hear a connection begin or
  end twice.
- `Shape` follows the chain of frames and the output. A frame is what the parser made of
  the bytes it holds (`GoodFrame`: where the mask and the payload start follows from the
  length in the header, and a frame with a mask has all the bytes before its payload),
  all frames of a chain but the last are complete (`Chain`), there are several
  exactly inside a fragmented message (`Linked`), and a connection that should close, or
  that the application closed, has written a close frame (`Sound`). What the client sends
  is a sequence of bytes however the script is encoded and cut (`StreamType`).
  `ClosedAfterClose` needs the last clause of `Sound`.
- `Hearing` follows the bytes of the client, for `MessagesAreDelivered`. The reference
  reads the script frame by frame; the code sees bytes. Between two bytes, either k frames
  are heard (`Follows`): the connection agrees with what the reference made of them
  (`Agrees`: the calls, the payloads of the fragments in the chain joined, the opcode they
  began with), the frame being received holds the first bytes of the next and is in the
  state of the parser they lead to (`PartOf`), and the bytes waiting are those that come
  after; or the k-th frame ended the connection
  (`Ends`), and all that is said of the calls is that nothing before it is missing.
  `ByteHeard` is the step: a byte goes on with the frame (`ByteTakenPart`: the bits of the
  header, `HeaderBits`, and the mask), makes its header malformed, or completes it, and
  then `CompleteAgrees` compares `FrameComplete` with the reference, for control frames,
  fragments, last fragments and frames that are out of place. That a malformed frame shows
  at its third byte decides how much of the script has to be heard (`MeantIs`). The scripts
  are of frames with at most 125 bytes of payload (`ShortPayload`), and of any length.

`WaitingIsNext` is inductive by itself: `Held` says it of two sequences, and every filling of
the local buffer (`HeldRecv`) and every byte taken from it (`HeldByte`) keeps it.

`CodecsProofs` proves for any inputs, under `CodecsAssumption`:

- `ValidTextsAreWellFormed` (`ValidIsWellFormed`): the automaton of `utf.c` accepts what
  RFC 3629 does, for texts of every length. A text is accepted from its first byte on
  exactly when its first character is one of the RFC and the rest is accepted
  (`AcceptedByChar`, from the table one byte at a time), and the reference recurses over
  the characters in the same way (`WellFormedLemma`).
- `CorruptionNoticed` (`CorruptedIsNoticed`): `Counts` says that the two words count the
  bytes given so far in bits, or that the context is corrupted because they cannot; it
  holds after every byte (`TakenCounts`), and padding does not count (`PaddedCounts`).
- `DigestsStandard` (`DigestIsStandard`), for the message of the model at every length and
  in any portions: until the digest is asked for, the context has
  digested every whole block of the message so far and holds the bytes behind them
  (`HasTaken`), or it is corrupted; `TakenStep` keeps this for one byte, and
  `PortionTaken` for a portion. Together with `Counts`, which settles the two words of the
  length (`LengthWords`), this is inductive (`Digesting`). What `SHA1PadMessage` then
  does, in one block when 55 bytes or fewer are held (`PadsOnce`) or in two (`PadsTwice`),
  gives the blocks that end the message padded as a whole (`PaddedTail`, `PaddedDigest`).
  Compression of a block is the same function on both sides: that it is SHA-1's is checked
  by the known answers of `AcceptIsStandard`.
- `SourcesRoundTrip` (`Base64RoundTrip`): `EncodedLemma` says what a source is written as,
  quadruple by quadruple with "=" at its end (`IsText`). Nothing of such a text is skipped
  when it is decoded (`TextKept`), each quadruple gives its three bytes back
  (`TripleRead`, `TextRead`), and the bits of a digit are those of its triple
  (`DigitBits`, `TextBits`).
- `DecodingStops` (`DecodingStays`): decoding is a fold over the quadruples of the
  significant characters and of four "=" put behind them. `TurnSane` says that
  a turn keeps the length returned that of what was written, and that only a turn over
  four characters, none of them "=", gives three bytes and lets the loop go on; so the
  loop ends at the four "=" at the latest (`DecodingSane`).
- `HeadersRead` (`HeadersReadBack`): what the first bytes of a header have made of a frame
  (`HeaderStep`, one byte more), at each of the three sizes of the length field; the
  length is put together again from its bytes (`LengthReadBack`).
- `EventsRead` (`EventsAreRead`), for names of up to 63 characters, which is what the
  static buffers of the parser hold, and `OnlyEvents` (`OnlyEventsPass`): `ChannelCut` follows
  the four calls of `strtok` through the channel of an event, whatever the names are
  and with "_" anywhere in an operation; `AtoiLemma` reads the number of the database back.

Folding proves induction over numbers from the library's theorem that `<` on them is
well-founded, by the set of what has the property instead of a predicate; over
sequences and the subsets of an interval from that; and then what `FoldLeft` of the
community modules does with an element more (`FoldAppend`), with two sequences
(`FoldConcat`) and from prefix to prefix (`FoldPrefixes`). That is how a theorem here can
be about texts of any length.

Only model-checked:

- liveness, out of reach of the prover, as is ENABLED: `ImplementsLiveStream`,
  `FullIsTemporary` and `EveryByteSettles` of SendBuf, `EventsReachClients`,
  `DeadlySignalEndsRoot`, `ClosingEnds`;
- `RepliesInOrder`, a property of the scripts of the run and not of any script: libwebsock
  takes a fragmented message with a reserved opcode and hands it to the application, while
  the reference ends with its first fragment; it speaks of clients that send no zero
  bytes in texts and reasons (`ZeroFree`), as with one the answer is wrong (`websock_echo`).
  `MessagesDelivered` holds then as well: it
  says of a connection that is over that nothing before is missing;
- `AcceptIsStandard`: answers to keys that other implementations give, so a check of
  values and nothing to prove.

No module has recursive operators, which the prover could not handle.

## Plan

The parts that run are modelled. What would come next:

1. a codec module for `packet.c` and `libglouglou_mod_0_internal/`, once they compile
   and the order of bytes is settled;
2. the composition of the UDP server with a send buffer per user, once the server has a
   socket to send through, and a viz with websocket clients, once it calls libwebsock;
3. the fragmented and binary sends of libwebsock, which nobody calls yet.

## Not modelled

Logging, option parsing, dropping privileges, the graph client, the client
library and the dummy probe (stubs), libgsnetstream (empty), time (a timer or a sleep
ends when it is due), and memory exhaustion outside `sendbuf_new`, the bufferevent of a
client of viz and `user_add` (`xcalloc` ends the process).

The packet codec: fields that the structures do not have, a structure cast to a
pointer and the `sizeof` of values keep it from compiling, so what bytes it would write
is not settled.

Of libwebsock: what SSL does to the bytes (a connection with SSL differs in who
sets the write callback, and in nothing else a property tells apart), the flag
`STATE_IS_SSL` that nobody reads, the printing of frames, sends of binary and
fragmented messages. A reason in `libwebsock_close_with_reason` is left out: one of more
than 123 bytes passes the end of its buffer. The response to a handshake is a symbol in
WebSock, and its value checked in `codecs`. Clients of WebSock send a malformed header
only as their first frame, and small frames behind one that is refused: libwebsock goes
on reading what came with it, and what it then makes of a length depends on what is
in memory. A length of 64 bits so large that `payload_offset + payload_len` wraps is out of
bounds as well, and since those clients send minimal lengths, the header that the answer to
a ping or a close frame sends back as it came is the one the model encodes.
A target of 0 bytes for Base64 is not considered.
