-------------------------------- MODULE Viz ---------------------------------
(***************************************************************************)
(* The visualisation process (glougloud/viz.c): it subscribes to the       *)
(* keyspace notifications of Redis and writes a line of text to every TCP  *)
(* client for each change of a record that a module has a text for.        *)
(*                                                                         *)
(* Redis and the TCP peers are external.  Redis is modelled from how       *)
(* doc/architecture.txt:325-357 uses it: a record is a set of probes, an   *)
(* event is published for a SADD or SREM that changes it, and a DEL when   *)
(* it becomes empty.                                                       *)
(*                                                                         *)
(* A line is abstract: it is the position, in everything Redis published   *)
(* to this process, of the event it tells.  Welcome is the first line of   *)
(* every client.                                                           *)
(***************************************************************************)
EXTENDS Integers, Sequences, FiniteSets

CONSTANTS
  Conns,           \* TCP connections clients may open
  Probes,          \* probe IDs, the members of records
  NodeRecords,     \* keys "/n/..." of database 1
  GoneRecords,     \* keys "/N/..." of database 1
  OtherRecords,    \* keys of database 1 with another tag
  InternalRecords, \* keys of database 0
  CountModulus,    \* 2^32: clients_count is an unsigned int
  MaxPublished,    \* bound of the model: events published to viz
  MaxChanges,      \* bound of the model: changes nobody is told of
  MaxLines         \* bound of the model: lines a client sends

Records == NodeRecords \cup GoneRecords \cup OtherRecords \cup InternalRecords

ASSUME RecordsAssumption ==
  /\ NodeRecords \cap GoneRecords = {}
  /\ OtherRecords \cap (NodeRecords \cup GoneRecords) = {}
  /\ InternalRecords \cap (NodeRecords \cup GoneRecords \cup OtherRecords) = {}
  /\ CountModulus \in Nat \ {0}
  /\ MaxPublished \in Nat /\ MaxChanges \in Nat /\ MaxLines \in Nat

Modules == {0, 1}   \* glougloud_mod_0_internal, glougloud_mod_1_net
Ops == {"sadd", "srem", "del"}
Welcome == 0
Confirm == 0        \* the reply to PSUBSCRIBE, among the replies in flight

VARIABLES
  phase,         \* "forked", "loaded", "connected", "serving", "exited"
  mods,          \* ids of the modules loaded
  rc,            \* the connection to Redis: "none", "up", "closing", "down"
  clients_count, \* the counter of struct glougloud_viz
  conn,          \* per connection: "none", "backlog", "live", "leaked", "closed"
  out,           \* per connection: lines given to its bufferevent
  input,         \* per connection: lines in the bufferevent's input buffer
  handled,       \* per connection: lines the read callback took
  (* external: Redis *)
  redis_up,      \* its socket accepts connections
  record,        \* the set stored at each key
  subscribed,    \* it has processed PSUBSCRIBE
  link,          \* replies on their way to viz
  published,     \* history: the events sent to viz
  processed,     \* history: how many of them viz has handled
  unseen,        \* history: changes made while viz was not subscribed
  (* external: clients *)
  seen,          \* per connection: lines that reached the client
  socket,        \* per connection: lines sent and not read by viz
  eof,           \* per connection: the client has closed its side
  since          \* history, per connection: processed when it was accepted

viz == <<phase, mods, rc>>
served == <<clients_count, conn, out, since>>
reading == <<input, handled, socket>>
peers == <<seen, eof>>
database == <<record, unseen>>
feed == <<subscribed, link, published, processed>>
vars == <<viz, served, reading, peers, database, feed, redis_up>>

Live == {c \in Conns : conn[c] = "live"}

Init ==
  /\ phase = "forked"
  /\ mods = {}
  /\ rc = "none"
  /\ clients_count = 0
  /\ conn = [c \in Conns |-> "none"]
  /\ out = [c \in Conns |-> <<>>]
  /\ input = [c \in Conns |-> 0]
  /\ handled = [c \in Conns |-> 0]
  /\ redis_up = FALSE
  /\ record = [r \in Records |-> {}]
  /\ subscribed = FALSE
  /\ link = <<>>
  /\ published = <<>>
  /\ processed = 0
  /\ unseen = 0
  /\ seen = [c \in Conns |-> 0]
  /\ socket = [c \in Conns |-> 0]
  /\ eof = [c \in Conns |-> FALSE]
  /\ since = [c \in Conns |-> 0]

-----------------------------------------------------------------------------
(* Redis (external) *)

RedisStarts ==
  /\ ~redis_up
  /\ redis_up' = TRUE
  /\ UNCHANGED <<viz, served, reading, peers, database, feed>>

RedisSubscribes ==
  /\ rc = "up"
  /\ ~subscribed
  /\ subscribed' = TRUE
  /\ link' = Append(link, Confirm)
  /\ UNCHANGED <<viz, served, reading, peers, database, redis_up, published, processed>>

(* The events of one command go out together, in order. *)
Publish(events) ==
  IF subscribed
  THEN /\ Len(published) + Len(events) <= MaxPublished
       /\ published' = published \o events
       /\ link' = link \o [i \in 1..Len(events) |-> Len(published) + i]
       /\ UNCHANGED <<unseen, subscribed, processed>>
  ELSE /\ unseen < MaxChanges
       /\ unseen' = unseen + 1
       /\ UNCHANGED feed

(* A probe's write changes a record or is no event at all. *)
Sadd(p, r) ==
  /\ redis_up
  /\ p \notin record[r]
  /\ record' = [record EXCEPT ![r] = @ \cup {p}]
  /\ Publish(<<[op |-> "sadd", key |-> r]>>)
  /\ UNCHANGED <<viz, served, reading, peers, redis_up>>

Srem(p, r) ==
  /\ redis_up
  /\ p \in record[r]
  /\ record' = [record EXCEPT ![r] = @ \ {p}]
  /\ Publish(IF record[r] = {p}
             THEN <<[op |-> "srem", key |-> r], [op |-> "del", key |-> r]>>
             ELSE <<[op |-> "srem", key |-> r]>>)
  /\ UNCHANGED <<viz, served, reading, peers, redis_up>>

(* Redis closes the connection of a subscriber: what was in flight is cut. *)
RedisDrops ==
  /\ rc = "up"
  /\ \E n \in 0..Len(link) : link' = SubSeq(link, 1, n)
  /\ rc' = "closing"
  /\ subscribed' = FALSE
  /\ UNCHANGED <<phase, mods, served, reading, peers, database, redis_up,
                 published, processed>>

-----------------------------------------------------------------------------
(* Start of the process *)

(* A module that cannot be loaded is skipped; only a missing directory is  *)
(* an error. *)
_modules_load ==
  /\ phase = "forked"
  /\ \/ phase' = "loaded" /\ mods' \in SUBSET Modules
     \/ phase' = "exited" /\ UNCHANGED mods
  /\ UNCHANGED <<rc, served, reading, peers, database, feed, redis_up>>

(* The connection is tried every second until the socket is there; the     *)
(* subscription is only queued.                                            *)
_redis_connect ==
  /\ phase = "loaded"
  /\ redis_up
  /\ phase' = "connected"
  /\ rc' = "up"
  /\ UNCHANGED <<mods, served, reading, peers, database, feed, redis_up>>

(* The port may be taken: viz_shutdown drops the Redis connection. *)
_servtcp_start ==
  /\ phase = "connected"
  /\ \/ /\ phase' = "serving"
        /\ UNCHANGED <<rc, subscribed, link>>
     \/ /\ phase' = "exited"
        /\ rc' = "none"
        /\ subscribed' = FALSE
        /\ link' = <<>>
  /\ UNCHANGED <<mods, served, reading, peers, database, redis_up,
                 published, processed>>

-----------------------------------------------------------------------------
(* Notifications *)

DbOf(r) == IF r \in InternalRecords THEN 0 ELSE 1

(* Seeded bug: the default case of the module prints too. *)
HasTextAlways(m, event) == m = 1

(* ggdmodviz_text_get of module id m gives a line for this event.  The     *)
(* module looks at the tag of the key, not at the operation.               *)
HasText(m, event) == m = 1 /\ event.key \in NodeRecords \cup GoneRecords

Told(event) ==
  \E m \in mods : m = DbOf(event.key) /\ HasText(m, event)

(* Seeded bug: the loop over the clients ends at the first one. *)
_redis_cb_notification_once ==
  /\ phase = "serving"
  /\ link # <<>>
  /\ link' = Tail(link)
  /\ \/ /\ Head(link) = Confirm
        /\ UNCHANGED <<out, processed>>
     \/ /\ Head(link) # Confirm
        /\ out' = [c \in Conns |->
                     IF /\ c \in Live /\ Told(published[Head(link)])
                        /\ c = CHOOSE d \in Live : TRUE
                     THEN Append(out[c], Head(link)) ELSE out[c]]
        /\ processed' = processed + 1
  /\ UNCHANGED <<viz, clients_count, conn, since, reading, peers, database,
                 redis_up, subscribed, published>>

(* Seeded bug: a reply of four elements is taken for a confirmation. *)
_redis_cb_notification_deaf ==
  /\ phase = "serving"
  /\ link # <<>>
  /\ link' = Tail(link)
  /\ processed' = IF Head(link) = Confirm THEN processed ELSE processed + 1
  /\ UNCHANGED <<viz, served, reading, peers, database,
                 redis_up, subscribed, published>>

(* One reply is handled: NULL replies and confirmations are ignored, an    *)
(* event is written to every client.                                       *)
_redis_cb_notification ==
  /\ phase = "serving"
  /\ link # <<>>
  /\ link' = Tail(link)
  /\ \/ /\ Head(link) = Confirm
        /\ UNCHANGED <<out, processed>>
     \/ /\ Head(link) # Confirm
        /\ out' = [c \in Conns |->
                     IF c \in Live /\ Told(published[Head(link)])
                     THEN Append(out[c], Head(link)) ELSE out[c]]
        /\ processed' = processed + 1
  /\ UNCHANGED <<viz, clients_count, conn, since, reading, peers, database,
                 redis_up, subscribed, published>>

(* hiredis gives every pending callback a NULL reply and then calls this:  *)
(* the loss is logged, and nothing reconnects.                             *)
_redis_cb_disconnect ==
  /\ phase = "serving"
  /\ rc = "closing"
  /\ link = <<>>
  /\ rc' = "down"
  /\ UNCHANGED <<phase, mods, served, reading, peers, database, redis_up, feed>>

-----------------------------------------------------------------------------
(* TCP clients *)

(* The kernel completes the connection as soon as viz listens. *)
ClientConnects(c) ==
  /\ phase = "serving"
  /\ conn[c] = "none"
  /\ conn' = [conn EXCEPT ![c] = "backlog"]
  /\ UNCHANGED <<viz, clients_count, out, since, reading, peers, database, feed,
                 redis_up>>

ClientSends(c) ==
  /\ conn[c] \in {"backlog", "live"}
  /\ ~eof[c]
  /\ handled[c] + input[c] + socket[c] < MaxLines
  /\ socket' = [socket EXCEPT ![c] = @ + 1]
  /\ UNCHANGED <<viz, served, input, handled, peers, database, feed, redis_up>>

ClientCloses(c) ==
  /\ conn[c] \in {"backlog", "live"}
  /\ ~eof[c]
  /\ eof' = [eof EXCEPT ![c] = TRUE]
  /\ UNCHANGED <<viz, served, reading, seen, database, feed, redis_up>>

(* The bufferevent drains its output buffer into the connection. *)
OutputDrains(c) ==
  /\ phase = "serving"
  /\ conn[c] = "live"
  /\ seen[c] < Len(out[c])
  /\ seen' = [seen EXCEPT ![c] = Len(out[c])]
  /\ UNCHANGED <<viz, served, reading, eof, database, feed, redis_up>>

(* Seeded bug: the welcome line is forgotten. *)
_servtcp_cli_add_silent(c) ==
  /\ conn' = [conn EXCEPT ![c] = "live"]
  /\ out' = [out EXCEPT ![c] = <<>>]
  /\ since' = [since EXCEPT ![c] = processed]
  /\ UNCHANGED clients_count

_servtcp_cli_add(c) ==
  /\ conn' = [conn EXCEPT ![c] = "live"]
  /\ out' = [out EXCEPT ![c] = <<Welcome>>]
  /\ since' = [since EXCEPT ![c] = processed]
  /\ UNCHANGED clients_count

(* Without a bufferevent the accepted descriptor is forgotten, open. *)
_servtcp_cb_listener(c) ==
  /\ phase = "serving"
  /\ conn[c] = "backlog"
  /\ \/ _servtcp_cli_add(c)
     \/ /\ conn' = [conn EXCEPT ![c] = "leaked"]
        /\ UNCHANGED <<clients_count, out, since>>
  /\ UNCHANGED <<viz, reading, peers, database, feed, redis_up>>

(* Seeded bug: a second line is taken without looking for one. *)
_servtcp_cb_read_two(c) ==
  /\ phase = "serving"
  /\ conn[c] = "live"
  /\ socket[c] > 0
  /\ input' = [input EXCEPT ![c] = @ + socket[c] - 2]
  /\ handled' = [handled EXCEPT ![c] = @ + 2]
  /\ socket' = [socket EXCEPT ![c] = 0]
  /\ UNCHANGED <<viz, served, peers, database, feed, redis_up>>

(* Everything that arrived goes to the input buffer, then the callback     *)
(* takes one line of it.                                                   *)
_servtcp_cb_read(c) ==
  /\ phase = "serving"
  /\ conn[c] = "live"
  /\ socket[c] > 0
  /\ input' = [input EXCEPT ![c] = @ + socket[c] - 1]
  /\ handled' = [handled EXCEPT ![c] = @ + 1]
  /\ socket' = [socket EXCEPT ![c] = 0]
  /\ UNCHANGED <<viz, served, peers, database, feed, redis_up>>

_servtcp_cli_del(c) ==
  /\ conn' = [conn EXCEPT ![c] = "closed"]
  /\ clients_count' = (clients_count - 1) % CountModulus
  /\ UNCHANGED <<out, since>>

(* The callback does not look at what the event was. *)
_servtcp_cb_event(c) ==
  /\ phase = "serving"
  /\ conn[c] = "live"
  /\ eof[c]
  /\ _servtcp_cli_del(c)
  /\ UNCHANGED <<viz, reading, peers, database, feed, redis_up>>

Next ==
  \/ RedisStarts \/ RedisSubscribes \/ RedisDrops
  \/ \E p \in Probes, r \in Records : Sadd(p, r) \/ Srem(p, r)
  \/ _modules_load \/ _redis_connect \/ _servtcp_start
  \/ _redis_cb_notification \/ _redis_cb_disconnect
  \/ \E c \in Conns :
       \/ ClientConnects(c) \/ ClientSends(c) \/ ClientCloses(c)
       \/ OutputDrains(c) \/ _servtcp_cb_listener(c)
       \/ _servtcp_cb_read(c) \/ _servtcp_cb_event(c)

Safety == Init /\ [][Next]_vars

(* The event loop runs every callback that is due, Redis serves the        *)
(* subscription and clients read what they are sent.  Nothing is assumed   *)
(* of probes, of what clients send, or of the loss of a connection.        *)
Fairness ==
  /\ WF_vars(_modules_load) /\ WF_vars(_redis_connect) /\ WF_vars(_servtcp_start)
  /\ WF_vars(RedisSubscribes)
  /\ WF_vars(_redis_cb_notification) /\ WF_vars(_redis_cb_disconnect)
  /\ \A c \in Conns :
       /\ WF_vars(OutputDrains(c)) /\ WF_vars(_servtcp_cb_listener(c))
       /\ WF_vars(_servtcp_cb_read(c)) /\ WF_vars(_servtcp_cb_event(c))

Spec == Safety /\ Fairness

-----------------------------------------------------------------------------
(* Properties *)

(* Every variable has its type; the lines a client sent are counted once.  *)
TypeOK ==
  /\ phase \in {"forked", "loaded", "connected", "serving", "exited"}
  /\ mods \subseteq Modules
  /\ rc \in {"none", "up", "closing", "down"}
  /\ clients_count \in 0..(CountModulus - 1)
  /\ conn \in [Conns -> {"none", "backlog", "live", "leaked", "closed"}]
  /\ out \in [Conns -> Seq(0..MaxPublished)]
  /\ input \in [Conns -> 0..MaxLines]
  /\ handled \in [Conns -> 0..MaxLines]
  /\ redis_up \in BOOLEAN
  /\ record \in [Records -> SUBSET Probes]
  /\ subscribed \in BOOLEAN
  /\ link \in Seq(0..MaxPublished)
  /\ published \in Seq([op : Ops, key : Records])
  /\ processed \in 0..MaxPublished
  /\ unseen \in 0..MaxChanges
  /\ seen \in [Conns -> Nat]
  /\ socket \in [Conns -> 0..MaxLines]
  /\ eof \in [Conns -> BOOLEAN]
  /\ since \in [Conns -> 0..MaxPublished]

(* The events clients have to hear of, whatever the modules do. *)
Tellable(j) == 1 \in mods /\ published[j].key \in NodeRecords \cup GoneRecords

Lines(c) == {out[c][i] : i \in 2..Len(out[c])}

(* A client hears Welcome and then, in the order Redis published them and  *)
(* each once, exactly the tellable events viz has handled since it was     *)
(* accepted: whoever else comes and goes meanwhile, and whatever else      *)
(* arrives on the connection to Redis.                                     *)
OutputFollowsFeed ==
  \A c \in Live :
    /\ Len(out[c]) > 0 /\ out[c][1] = Welcome
    /\ \A i \in 2..(Len(out[c]) - 1) : out[c][i] < out[c][i + 1]
    /\ Lines(c) = {j \in (since[c] + 1)..processed : Tellable(j)}

(* As long as the subscription holds, an event published since a client    *)
(* was accepted is in its output or still on its way to viz.               *)
NoEventLost ==
  subscribed =>
    \A c \in Live : \A j \in (since[c] + 1)..Len(published) :
      Tellable(j) => j \in Lines(c) \/ \E i \in DOMAIN link : link[i] = j

(* The broadcast viz implements. *)
Announcements == INSTANCE Broadcast WITH
  Members <- Conns,
  Greeting <- Welcome,
  present <- Live,
  gone <- {c \in Conns : conn[c] \in {"leaked", "closed"}},
  heard <- out,
  last <- processed

(* Every event is written to all the clients of that moment or to none,    *)
(* whatever the modules, Redis and other clients do, and nothing else ever *)
(* reaches the output of a client, also not of one that left.              *)
ImplementsBroadcast == Announcements!Safety

Heard(c, j) == \E i \in 1..seen[c] : out[c][i] = j

(* An event published while a client is served reaches that client, unless *)
(* the client leaves or the connection to Redis is lost.                   *)
EventsReachClients ==
  \A c \in Conns, j \in 1..MaxPublished :
    (c \in Live /\ since[c] < j /\ j <= Len(published) /\ Tellable(j))
      ~> (Heard(c, j) \/ c \notin Live \/ ~subscribed)

-----------------------------------------------------------------------------
(* What the code and the documentation say, and is not so *)

(* "perclient loop: receive client configuration updates"                  *)
(* (architecture.txt:133): a line a client sent is received.               *)
LinesAreReceived ==
  \A c \in Conns :
    (input[c] > 0) ~> (input[c] = 0 \/ c \notin Live)
=============================================================================
