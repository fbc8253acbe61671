------------------------------ MODULE VizProofs ------------------------------
(***************************************************************************)
(* Proofs about Viz, for any connections, probes and records, and however  *)
(* many events are published.                                              *)
(*                                                                         *)
(* What a client hears depends on the order of the replies in flight, so   *)
(* the invariant has two parts: FeedOrder relates the link to what was     *)
(* published and handled, and Served relates the clients to what was       *)
(* handled.                                                                *)
(***************************************************************************)
EXTENDS Viz, SequenceTheorems, TLAPS

Events == [op : Ops, key : Records]

FeedTyped ==
  /\ published \in Seq(Events)
  /\ link \in Seq(Nat)
  /\ processed \in Nat

(* The confirmation, while it is in flight, is ahead of every event. *)
Lead == IF link # <<>> /\ link[1] = Confirm THEN 1 ELSE 0

(* The events in flight are those after the last one handled, in order and *)
(* without a gap, up to the last one published while the subscription      *)
(* holds; before it begins there are none.                                 *)
FeedOrder ==
  /\ \A i \in DOMAIN link : i > Lead => link[i] = processed + (i - Lead)
  /\ processed + (Len(link) - Lead) <= Len(published)
  /\ subscribed => processed + (Len(link) - Lead) = Len(published)
  /\ (rc = "up" /\ ~subscribed) => link = <<>> /\ processed = Len(published)
  /\ phase \in {"forked", "loaded"} =>
       rc = "none" /\ ~subscribed /\ link = <<>> /\ processed = Len(published)

ServedTyped ==
  /\ conn \in [Conns -> {"none", "backlog", "live", "leaked", "closed"}]
  /\ out \in [Conns -> Seq(Nat)]
  /\ since \in [Conns -> Nat]
  /\ \A c \in Live : since[c] <= processed
  /\ phase # "serving" => Live = {}

Feed == FeedTyped /\ FeedOrder
Served == ServedTyped /\ OutputFollowsFeed
IInv == Feed /\ Served

-----------------------------------------------------------------------------
(* What a step leaves alone *)

(* Lead is 0 or 1, and 1 only when there is something in flight. *)
LEMMA LeadLemma ==
  ASSUME FeedTyped
  PROVE  Lead \in {0, 1} /\ Lead <= Len(link) /\ Len(link) \in Nat
BY DEF FeedTyped, Lead

LEMMA FeedUnchanged ==
  ASSUME Feed, UNCHANGED <<phase, rc, subscribed, link, published, processed>>
  PROVE  Feed'
BY DEF Feed, FeedTyped, FeedOrder, Lead

LEMMA ServedUnchanged ==
  ASSUME Served, UNCHANGED <<phase, mods, conn, out, since, published, processed>>
  PROVE  Served'
<1>1. /\ Live' = Live
      /\ UNCHANGED <<phase, conn, out, since, processed>>
  BY DEF Live
<1>2. \A j : Tellable(j)' <=> Tellable(j)
  BY DEF Tellable
<1>3. \A c : Lines(c)' = Lines(c)
  BY <1>1 DEF Lines
<1>4. ServedTyped'
  BY <1>1 DEF Served, ServedTyped
<1>5. OutputFollowsFeed'
  BY <1>1, <1>2, <1>3 DEF Served, OutputFollowsFeed
<1> QED BY <1>4, <1>5 DEF Served

(* What clients heard stays right when more is published behind it. *)
LEMMA ServedByPrefix ==
  ASSUME Feed, Served, UNCHANGED <<phase, mods, conn, out, since, processed>>,
         \A j \in 1..Len(published) : published'[j] = published[j]
  PROVE  Served'
<1>1. processed \in Nat /\ processed <= Len(published) /\ Len(published) \in Nat
  BY LeadLemma DEF Feed, FeedTyped, FeedOrder
<1>2. ServedTyped'
  BY DEF Served, ServedTyped, Live
<1>3. ASSUME NEW c \in Live PROVE
        {j \in (since[c] + 1)..processed : Tellable(j)'}
          = {j \in (since[c] + 1)..processed : Tellable(j)}
  <2>1. since[c] \in Nat
    BY DEF Served, ServedTyped, Live
  <2>2. \A j \in (since[c] + 1)..processed : Tellable(j)' <=> Tellable(j)
    BY <1>1, <2>1 DEF Tellable
  <2> QED BY <2>2
<1>4. OutputFollowsFeed'
  BY <1>3 DEF Served, OutputFollowsFeed, Live, Lines
<1> QED BY <1>2, <1>4 DEF Served

-----------------------------------------------------------------------------
(* The link keeps its order *)

LEMMA PublishKeepsFeed ==
  ASSUME Feed, NEW events \in Seq(Events), Publish(events),
         UNCHANGED <<phase, rc>>
  PROVE  Feed'
<1> DEFINE tail == [i \in 1..Len(events) |-> Len(published) + i]
<1>1. CASE ~subscribed
  BY <1>1, FeedUnchanged DEF Publish, feed
<1>2. CASE subscribed
  <2>1. /\ published' = published \o events
        /\ link' = link \o tail
        /\ UNCHANGED <<subscribed, processed>>
    BY <1>2 DEF Publish
  <2>2. published \in Seq(Events) /\ link \in Seq(Nat) /\ processed \in Nat
    BY DEF Feed, FeedTyped
  <2>3. Len(published) \in Nat /\ Len(link) \in Nat /\ Len(events) \in Nat
    BY <2>2, LenProperties
  <2>4. tail \in Seq(Nat) /\ Len(tail) = Len(events)
    <3>1. tail \in [1..Len(events) -> Nat]
      BY <2>3
    <3> QED BY <3>1, <2>3, SeqDef, LenProperties
  <2>5. /\ published' \in Seq(Events)
        /\ Len(published') = Len(published) + Len(events)
    BY <2>1, <2>2, ConcatProperties
  <2>6. /\ link' \in Seq(Nat)
        /\ Len(link') = Len(link) + Len(events)
    BY <2>1, <2>2, <2>4, ConcatProperties
  <2>7. \A i \in 1..(Len(link) + Len(events)) :
          link'[i] = IF i <= Len(link) THEN link[i]
                     ELSE Len(published) + (i - Len(link))
    <3>1. \A i \in 1..(Len(link) + Len(events)) :
            link'[i] = IF i <= Len(link) THEN link[i] ELSE tail[i - Len(link)]
      BY <2>1, <2>2, <2>4, ConcatProperties
    <3>2. \A i \in 1..(Len(link) + Len(events)) :
            i > Len(link) => i - Len(link) \in 1..Len(events)
      BY <2>3
    <3> SUFFICES ASSUME NEW i \in 1..(Len(link) + Len(events))
                 PROVE  link'[i] = IF i <= Len(link) THEN link[i]
                                   ELSE Len(published) + (i - Len(link))
      OBVIOUS
    <3>3. CASE i <= Len(link)
      BY <3>1, <3>3
    <3>4. CASE ~(i <= Len(link))
      <4>1. i - Len(link) \in 1..Len(events)
        BY <2>3, <3>2, <3>4
      <4>2. link'[i] = tail[i - Len(link)]
        BY <3>1, <3>4
      <4> QED BY <3>4, <4>1, <4>2
    <3> QED BY <3>3, <3>4
  <2>8. /\ Lead \in {0, 1} /\ Lead <= Len(link)
        /\ processed + (Len(link) - Lead) = Len(published)
        /\ \A i \in 1..Len(link) : i > Lead => link[i] = processed + (i - Lead)
    BY <1>2, <2>2, LeadLemma DEF Feed, FeedOrder
  <2>9. Lead' = Lead
    <3>1. CASE link = <<>>
      <4>1. Lead = 0 /\ Len(link) = 0
        BY <3>1 DEF Lead
      <4>2. link' # <<>> => link'[1] = Len(published) + 1
        BY <2>3, <2>6, <2>7, <4>1
      <4> QED BY <2>3, <4>1, <4>2 DEF Lead, Confirm
    <3>2. CASE link # <<>>
      <4>1. Len(link) > 0
        BY <2>2, <2>3, <3>2, EmptySeq
      <4>2. link' # <<>> /\ link'[1] = link[1]
        BY <2>3, <2>6, <2>7, <4>1
      <4> QED BY <3>2, <4>2 DEF Lead
    <3> QED BY <3>1, <3>2
  <2>10. \A i \in DOMAIN link' : i > Lead' => link'[i] = processed' + (i - Lead')
    <3> HIDE DEF tail
    <3>1. DOMAIN link' = 1..(Len(link) + Len(events))
      BY <2>6, LenProperties
    <3>2. \A i \in 1..(Len(link) + Len(events)) :
            i > Len(link) => link'[i] = processed + (i - Lead)
      <4> SUFFICES ASSUME NEW i \in 1..(Len(link) + Len(events)), i > Len(link)
                   PROVE  link'[i] = processed + (i - Lead)
        OBVIOUS
      <4>1. link'[i] = Len(published) + (i - Len(link))
        BY <2>3, <2>7
      <4>2. Len(published) + (i - Len(link)) = processed + (i - Lead)
        <5>1. /\ i \in Int /\ Lead \in Int
              /\ processed + (Len(link) - Lead) = Len(published)
          BY <2>3, <2>8
        <5> QED BY <2>2, <2>3, <5>1, SMTT(30)
      <4> QED BY <4>1, <4>2
    <3>3. \A i \in 1..(Len(link) + Len(events)) :
            i <= Len(link) /\ i > Lead => link'[i] = processed + (i - Lead)
      BY <2>3, <2>7, <2>8
    <3> QED BY <2>1, <2>3, <2>9, <3>1, <3>2, <3>3
  <2>11. processed' + (Len(link') - Lead') = Len(published')
    <3>1. processed + ((Len(link) + Len(events)) - Lead)
            = Len(published) + Len(events)
      BY <2>2, <2>3, <2>8
    <3> QED BY <2>1, <2>5, <2>6, <2>9, <3>1
  <2>12. FeedTyped'
    BY <2>1, <2>2, <2>5, <2>6 DEF FeedTyped
  <2>13. subscribed' /\ phase' \notin {"forked", "loaded"}
    BY <1>2, <2>1 DEF Feed, FeedOrder
  <2>14. Len(published') \in Nat /\ processed' + (Len(link') - Lead') <= Len(published')
    BY <2>3, <2>5, <2>11
  <2> QED BY <2>10, <2>11, <2>12, <2>13, <2>14 DEF Feed, FeedOrder
<1> QED BY <1>1, <1>2

LEMMA SubscribeKeepsFeed ==
  ASSUME Feed, RedisSubscribes
  PROVE  Feed'
<1>1. /\ link = <<>> /\ processed = Len(published) /\ processed \in Nat
      /\ phase \notin {"forked", "loaded"}
  BY DEF Feed, FeedTyped, FeedOrder, RedisSubscribes
<1>2. /\ link' = <<0>> /\ UNCHANGED <<phase, published, processed>>
  BY <1>1 DEF RedisSubscribes, Confirm, viz
<1>3. Lead' = 1 /\ Len(link') = 1 /\ DOMAIN link' = {1} /\ link' \in Seq(Nat)
  BY <1>2 DEF Lead, Confirm
<1>4. subscribed'
  BY DEF RedisSubscribes
<1>5. FeedTyped'
  BY <1>2, <1>3 DEF Feed, FeedTyped
<1> QED BY <1>1, <1>2, <1>3, <1>4, <1>5 DEF Feed, FeedOrder

(* What is cut off the link was not handled. *)
LEMMA DropKeepsFeed ==
  ASSUME Feed, RedisDrops
  PROVE  Feed'
<1>1. PICK n \in 0..Len(link) : link' = SubSeq(link, 1, n)
  BY DEF RedisDrops
<1>2. /\ UNCHANGED <<phase, published, processed>>
      /\ ~subscribed' /\ rc' = "closing"
      /\ phase \notin {"forked", "loaded"}
  BY DEF RedisDrops, Feed, FeedOrder
<1>3. /\ link \in Seq(Nat) /\ processed \in Nat /\ Len(link) \in Nat
      /\ Lead \in {0, 1} /\ Lead <= Len(link)
  BY LeadLemma DEF Feed, FeedTyped
<1>4. Len(published) \in Nat
  BY DEF Feed, FeedTyped
<1>5. /\ link' \in Seq(Nat) /\ Len(link') = n
      /\ \A i \in 1..n : link'[i] = link[i]
  BY <1>1, <1>3, SubSeqProperties
<1>6. FeedTyped'
  BY <1>2, <1>5 DEF Feed, FeedTyped
<1>7. CASE n = 0
  <2>1. link' = <<>>
    BY <1>5, <1>7, EmptySeq
  <2>2. Lead' = 0 /\ DOMAIN link' = {} /\ Len(link') = 0
    BY <2>1 DEF Lead
  <2>3. processed <= Len(published)
    BY <1>3, <1>4 DEF Feed, FeedOrder
  <2> QED BY <1>2, <1>3, <1>6, <2>1, <2>2, <2>3 DEF Feed, FeedOrder
<1>8. CASE n # 0
  <2>1. link # <<>> /\ link' # <<>> /\ link'[1] = link[1]
    BY <1>3, <1>5, <1>8
  <2>2. Lead' = Lead
    BY <2>1 DEF Lead
  <2>3. \A i \in DOMAIN link' : i > Lead' => link'[i] = processed' + (i - Lead')
    <3>1. DOMAIN link' = 1..n /\ DOMAIN link = 1..Len(link) /\ n <= Len(link)
      BY <1>3, <1>5, LenProperties
    <3>2. \A i \in DOMAIN link : i > Lead => link[i] = processed + (i - Lead)
      BY DEF Feed, FeedOrder
    <3>3. \A i \in 1..n : i \in 1..Len(link) /\ link'[i] = link[i]
      BY <1>3, <1>5, <3>1
    <3> QED BY <1>2, <2>2, <3>1, <3>2, <3>3
  <2>4. processed' + (Len(link') - Lead') <= Len(published')
    <3>1. processed + (Len(link) - Lead) <= Len(published)
      BY DEF Feed, FeedOrder
    <3> HIDE DEF Lead
    <3>2. processed + (n - Lead) <= Len(published)
      <4>1. n \in Nat /\ n <= Len(link) /\ Lead \in Int
        BY <1>3
      <4> QED BY <1>3, <1>4, <3>1, <4>1
    <3> QED BY <1>2, <1>5, <2>2, <3>2
  <2> QED BY <1>2, <1>6, <2>3, <2>4 DEF Feed, FeedOrder
<1> QED BY <1>7, <1>8

(* What the first reply in flight is. *)
LEMMA HeadLemma ==
  ASSUME Feed, link # <<>>
  PROVE  \/ Head(link) = Confirm /\ Lead = 1
         \/ /\ Head(link) # Confirm /\ Lead = 0
            /\ Head(link) = processed + 1 /\ processed + 1 \in 1..Len(published)
<1>1. /\ link \in Seq(Nat) /\ processed \in Nat /\ Len(published) \in Nat
      /\ Len(link) \in Nat /\ Len(link) > 0 /\ Head(link) = link[1]
  BY EmptySeq DEF Feed, FeedTyped
<1>2. CASE link[1] = Confirm
  BY <1>1, <1>2 DEF Lead
<1>3. CASE link[1] # Confirm
  <2>1. Lead = 0
    BY <1>3 DEF Lead
  <2>2. link[1] = processed + 1
    BY <1>1, <2>1 DEF Feed, FeedOrder
  <2>3. processed + Len(link) <= Len(published)
    BY <1>1, <2>1 DEF Feed, FeedOrder
  <2> QED BY <1>1, <1>3, <2>1, <2>2, <2>3
<1> QED BY <1>2, <1>3

(* A confirmation that is handled moves the others up; an event does too,  *)
(* and is the next one.                                                    *)
LEMMA NotificationKeepsFeed ==
  ASSUME Feed, _redis_cb_notification
  PROVE  Feed'
<1>1. /\ link # <<>> /\ link' = Tail(link) /\ phase = "serving"
      /\ UNCHANGED <<phase, rc, subscribed, published>>
  BY DEF _redis_cb_notification, viz
<1>2. /\ processed' = IF Head(link) = Confirm THEN processed ELSE processed + 1
  BY DEF _redis_cb_notification
<1>3. /\ link \in Seq(Nat) /\ processed \in Nat /\ Len(published) \in Nat
      /\ Len(link) \in Nat
  BY DEF Feed, FeedTyped
<1>4. /\ link' \in Seq(Nat) /\ Len(link') = Len(link) - 1
      /\ DOMAIN link' = 1..Len(link')
      /\ \A i \in 1..Len(link') : link'[i] = link[i + 1] /\ i + 1 \in DOMAIN link
  <2>1. /\ link' \in Seq(Nat) /\ Len(link') = Len(link) - 1
        /\ \A i \in 1..Len(link') : link'[i] = link[i + 1]
    BY <1>1, <1>3, HeadTailProperties
  <2>2. DOMAIN link = 1..Len(link)
    BY <1>3, LenProperties
  <2>3. DOMAIN link' = 1..Len(link')
    BY <2>1, LenProperties
  <2> QED BY <1>3, <2>1, <2>2, <2>3
<1>5. PICK n \in Nat : /\ processed' = n
                       /\ (Lead = 0 /\ n = processed + 1) \/ (Lead = 1 /\ n = processed)
  <2>1. CASE Head(link) = Confirm
    <3>1. processed' = processed /\ Lead = 1
      BY <1>1, <1>2, <2>1, HeadLemma DEF Confirm
    <3> QED BY <1>3, <3>1
  <2>2. CASE Head(link) # Confirm
    <3>1. processed' = processed + 1 /\ Lead = 0
      BY <1>1, <1>2, <2>2, HeadLemma
    <3>2. processed + 1 \in Nat
      BY <1>3
    <3> QED BY <3>1, <3>2
  <2> QED BY <2>1, <2>2
<1>6. \A i \in 1..Len(link') : link'[i] = n + i
  <2> SUFFICES ASSUME NEW i \in 1..Len(link')
               PROVE  link'[i] = n + i
    OBVIOUS
  <2>1. link'[i] = link[i + 1] /\ i + 1 \in DOMAIN link /\ i \in Nat /\ i > 0
    BY <1>3, <1>4
  <2>2. link[i + 1] = processed + ((i + 1) - Lead)
    BY <1>5, <2>1 DEF Feed, FeedOrder
  <2>3. CASE Lead = 0 /\ n = processed + 1
    <3>1. processed + ((i + 1) - 0) = (processed + 1) + i
      BY <1>3, <2>1
    <3> QED BY <2>1, <2>2, <2>3, <3>1
  <2>4. CASE Lead = 1 /\ n = processed
    <3>1. processed + ((i + 1) - 1) = processed + i
      BY <1>3, <2>1
    <3> QED BY <2>1, <2>2, <2>4, <3>1
  <2> QED BY <1>5, <2>3, <2>4
<1>7. Lead' = 0
  <2>1. ASSUME link' # <<>> PROVE link'[1] # Confirm
    <3>1. Len(link') > 0
      BY <1>4, <2>1, EmptySeq
    <3>2. link'[1] = n + 1
      BY <1>3, <1>4, <1>6, <3>1
    <3> QED BY <1>5, <3>2 DEF Confirm
  <2> QED BY <2>1 DEF Lead
<1>8. \A i \in DOMAIN link' : i > Lead' => link'[i] = processed' + (i - Lead')
  <2>1. \A i \in 1..Len(link') : link'[i] = n + (i - 0)
    BY <1>3, <1>4, <1>6
  <2> QED BY <1>4, <1>5, <1>7, <2>1
<1>9. processed' + (Len(link') - Lead') = processed + (Len(link) - Lead)
  <2>1. n + ((Len(link) - 1) - 0) = processed + (Len(link) - Lead)
    BY <1>3, <1>5
  <2> QED BY <1>4, <1>5, <1>7, <2>1
<1>10. FeedTyped'
  BY <1>1, <1>4, <1>5 DEF Feed, FeedTyped
<1>11. ~(rc = "up" /\ ~subscribed)
  BY <1>1 DEF Feed, FeedOrder
<1> QED BY <1>1, <1>8, <1>9, <1>10, <1>11 DEF Feed, FeedOrder

(* The link is closed or opened, but nothing is published or handled. *)
LEMMA StartKeepsFeed ==
  ASSUME Feed, _modules_load \/ _redis_connect \/ _servtcp_start
  PROVE  Feed'
<1>1. CASE _modules_load
  BY <1>1 DEF _modules_load, feed, Feed, FeedTyped, FeedOrder, Lead
<1>2. CASE _redis_connect
  BY <1>2 DEF _redis_connect, feed, Feed, FeedTyped, FeedOrder, Lead
<1>3. CASE _servtcp_start
  <2>1. CASE phase' = "serving"
    BY <1>3, <2>1 DEF _servtcp_start, Feed, FeedTyped, FeedOrder, Lead
  <2>2. CASE phase' = "exited"
    <3>1. /\ rc' = "none" /\ link' = <<>> /\ ~subscribed'
          /\ UNCHANGED <<published, processed>>
      BY <1>3, <2>2 DEF _servtcp_start
    <3>2. Lead' = 0 /\ DOMAIN link' = {} /\ Len(link') = 0 /\ link' \in Seq(Nat)
      BY <3>1 DEF Lead
    <3>3. processed \in Nat /\ Len(published) \in Nat /\ processed <= Len(published)
      BY LeadLemma DEF Feed, FeedTyped, FeedOrder
    <3> QED BY <2>2, <3>1, <3>2, <3>3 DEF Feed, FeedTyped, FeedOrder
  <2> QED BY <1>3, <2>1, <2>2 DEF _servtcp_start
<1> QED BY <1>1, <1>2, <1>3

LEMMA DisconnectKeepsFeed ==
  ASSUME Feed, _redis_cb_disconnect
  PROVE  Feed'
BY DEF _redis_cb_disconnect, feed, Feed, FeedTyped, FeedOrder, Lead

LEMMA FeedStep ==
  ASSUME Feed, [Next]_vars
  PROVE  Feed'
<1>1. CASE UNCHANGED vars
  BY <1>1, FeedUnchanged DEF vars, viz, feed
<1>2. CASE RedisStarts
  BY <1>2, FeedUnchanged DEF RedisStarts, viz, feed
<1>3. ASSUME NEW p \in Probes, NEW r \in Records, Sadd(p, r) \/ Srem(p, r)
      PROVE  Feed'
  <2>1. CASE Sadd(p, r)
    <3>1. <<[op |-> "sadd", key |-> r]>> \in Seq(Events)
      BY DEF Events, Ops
    <3> QED BY <2>1, <3>1, PublishKeepsFeed DEF Sadd, viz
  <2>2. CASE Srem(p, r)
    <3>1. /\ <<[op |-> "srem", key |-> r], [op |-> "del", key |-> r]>> \in Seq(Events)
          /\ <<[op |-> "srem", key |-> r]>> \in Seq(Events)
      BY DEF Events, Ops
    <3> QED BY <2>2, <3>1, PublishKeepsFeed DEF Srem, viz
  <2> QED BY <1>3, <2>1, <2>2
<1>4. ASSUME NEW c \in Conns,
             \/ ClientConnects(c) \/ ClientSends(c) \/ ClientCloses(c)
             \/ OutputDrains(c) \/ _servtcp_cb_listener(c)
             \/ _servtcp_cb_read(c) \/ _servtcp_cb_event(c)
      PROVE  Feed'
  BY <1>4, FeedUnchanged DEF viz, feed, ClientConnects, ClientSends, ClientCloses,
    OutputDrains, _servtcp_cb_listener, _servtcp_cb_read, _servtcp_cb_event
<1> QED
  BY <1>1, <1>2, <1>3, <1>4, SubscribeKeepsFeed, DropKeepsFeed, StartKeepsFeed,
    NotificationKeepsFeed, DisconnectKeepsFeed DEF Next

-----------------------------------------------------------------------------
(* What clients heard stays right *)

(* A module prints an event exactly when it is tellable: the database of a *)
(* node record is that of the module that has a text for it.               *)
LEMMA ToldIsTellable ==
  ASSUME NEW j
  PROVE  Told(published[j]) <=> Tellable(j)
BY RecordsAssumption DEF Told, Tellable, HasText, DbOf

(* One more number at the end of an increasing sequence. *)
Follows(o, s, p, T) ==
  /\ Len(o) > 0
  /\ \A i \in 2..(Len(o) - 1) : o[i] < o[i + 1]
  /\ {o[i] : i \in 2..Len(o)} = {j \in (s + 1)..p : j \in T}

LEMMA OneMoreLine ==
  ASSUME NEW o \in Seq(Nat), NEW s \in Nat, NEW p \in Nat, NEW T, s <= p,
         p + 1 \in T, Follows(o, s, p, T), NEW q, q = Append(o, p + 1)
  PROVE  Follows(q, s, p + 1, T) /\ q[1] = o[1]
<1> USE DEF Follows
<1>1. /\ q \in Seq(Nat) /\ Len(q) = Len(o) + 1 /\ Len(o) \in Nat
      /\ q[Len(o) + 1] = p + 1
      /\ \A i \in 1..Len(o) : q[i] = o[i] /\ o[i] \in Nat
  BY AppendProperties, LenProperties
<1>2. \A i \in 2..(Len(q) - 1) : q[i] < q[i + 1]
  <2> SUFFICES ASSUME NEW i \in 2..Len(o) PROVE q[i] < q[i + 1]
    BY <1>1
  <2>1. CASE i < Len(o)
    <3>1. i \in 2..(Len(o) - 1) /\ i \in 1..Len(o) /\ i + 1 \in 1..Len(o)
      BY <1>1, <2>1
    <3>2. q[i] = o[i] /\ q[i + 1] = o[i + 1]
      BY <1>1, <3>1
    <3> QED BY <3>1, <3>2
  <2>2. CASE i = Len(o)
    <3>1. o[i] \in (s + 1)..p
      OBVIOUS
    <3>2. q[i] = o[i] /\ q[i + 1] = p + 1
      BY <1>1, <2>2
    <3> QED BY <3>1, <3>2
  <2> QED BY <1>1, <2>1, <2>2
<1>3. {q[i] : i \in 2..Len(q)} = {o[i] : i \in 2..Len(o)} \cup {p + 1}
  <2>1. \A i \in 2..Len(q) : i \in 2..Len(o) \/ i = Len(o) + 1
    BY <1>1
  <2>2. \A i \in 2..Len(o) : i \in 2..Len(q) /\ q[i] = o[i]
    BY <1>1
  <2>3. Len(o) + 1 \in 2..Len(q)
    BY <1>1
  <2> QED BY <1>1, <2>1, <2>2, <2>3
<1>4. {j \in (s + 1)..(p + 1) : j \in T} = {j \in (s + 1)..p : j \in T} \cup {p + 1}
  <2>1. \A j \in (s + 1)..(p + 1) : j \in (s + 1)..p \/ j = p + 1
    OBVIOUS
  <2>2. p + 1 \in (s + 1)..(p + 1) /\ \A j \in (s + 1)..p : j \in (s + 1)..(p + 1)
    OBVIOUS
  <2> QED BY <2>1, <2>2
<1>5. Len(q) > 0 /\ q[1] = o[1]
  BY <1>1
<1>6. {q[i] : i \in 2..Len(q)} = {j \in (s + 1)..(p + 1) : j \in T}
  BY <1>3, <1>4
<1> QED BY <1>1, <1>2, <1>5, <1>6

(* What a notification does to the clients, in terms of what is tellable.  *)
LEMMA NotificationLemma ==
  ASSUME Feed, _redis_cb_notification
  PROVE  /\ phase = "serving"
         /\ UNCHANGED <<phase, rc, mods, conn, since, published>>
         /\ \/ UNCHANGED <<out, processed>>
            \/ /\ processed' = processed + 1
               /\ out' = [c \in Conns |->
                            IF c \in Live /\ Tellable(processed + 1)
                            THEN Append(out[c], processed + 1) ELSE out[c]]
<1>1. /\ phase = "serving" /\ link # <<>>
      /\ UNCHANGED <<phase, rc, mods, conn, since, published>>
  BY DEF _redis_cb_notification, viz
<1>2. CASE Head(link) = Confirm
  BY <1>1, <1>2 DEF _redis_cb_notification
<1>3. CASE Head(link) # Confirm
  <2>1. Head(link) = processed + 1
    BY <1>1, <1>3, HeadLemma
  <2>2. Told(published[processed + 1]) <=> Tellable(processed + 1)
    BY ToldIsTellable
  <2>3. /\ processed' = processed + 1
        /\ out' = [c \in Conns |->
                     IF c \in Live /\ Told(published[Head(link)])
                     THEN Append(out[c], Head(link)) ELSE out[c]]
    BY <1>3 DEF _redis_cb_notification
  <2> QED BY <1>1, <2>1, <2>2, <2>3
<1> QED BY <1>2, <1>3

LEMMA NotificationKeepsServed ==
  ASSUME Feed, Served, _redis_cb_notification
  PROVE  Served'
<1>1. CASE UNCHANGED <<out, processed>>
  BY <1>1, NotificationLemma, ServedUnchanged
<1>2. CASE /\ processed' = processed + 1
           /\ out' = [c \in Conns |->
                        IF c \in Live /\ Tellable(processed + 1)
                        THEN Append(out[c], processed + 1) ELSE out[c]]
  <2>1. /\ UNCHANGED <<phase, mods, conn, since, published>> /\ phase = "serving"
        /\ Live' = Live /\ Live \subseteq Conns
    BY NotificationLemma DEF Live
  <2>2. processed \in Nat
    BY DEF Feed, FeedTyped
  <2>3. ASSUME NEW j PROVE Tellable(j)' <=> Tellable(j)
    BY <2>1 DEF Tellable
  <2>4. ASSUME NEW c \in Live
        PROVE  /\ out[c] \in Seq(Nat) /\ since[c] \in Nat /\ since[c] <= processed
               /\ Len(out[c]) > 0 /\ out[c][1] = Welcome
               /\ \A i \in 2..(Len(out[c]) - 1) : out[c][i] < out[c][i + 1]
               /\ Lines(c) = {j \in (since[c] + 1)..processed : Tellable(j)}
    BY <2>1 DEF Served, ServedTyped, OutputFollowsFeed
  <2>5. ASSUME NEW c \in Live
        PROVE  /\ Len(out'[c]) > 0 /\ out'[c][1] = Welcome
               /\ \A i \in 2..(Len(out'[c]) - 1) : out'[c][i] < out'[c][i + 1]
               /\ {out'[c][i] : i \in 2..Len(out'[c])}
                    = {j \in (since[c] + 1)..(processed + 1) : Tellable(j)}
    <3>1. CASE Tellable(processed + 1)
      <4>1. out'[c] = Append(out[c], processed + 1)
        BY <1>2, <2>1, <3>1
      <4> DEFINE T == {j \in Nat : Tellable(j)}
      <4>2. processed + 1 \in T
        BY <2>2, <3>1
      <4>3. {out[c][i] : i \in 2..Len(out[c])}
              = {j \in (since[c] + 1)..processed : j \in T}
        BY <2>2, <2>4 DEF Lines
      <4>4. {j \in (since[c] + 1)..(processed + 1) : Tellable(j)}
              = {j \in (since[c] + 1)..(processed + 1) : j \in T}
        BY <2>2, <2>4
      <4>5. PICK q : q = Append(out[c], processed + 1)
        OBVIOUS
      <4> HIDE DEF T
      <4>6. /\ Len(q) > 0 /\ q[1] = out[c][1]
            /\ \A i \in 2..(Len(q) - 1) : q[i] < q[i + 1]
            /\ {q[i] : i \in 2..Len(q)}
                 = {j \in (since[c] + 1)..(processed + 1) : j \in T}
        <5>1. PICK o \in Seq(Nat), s \in Nat, p \in Nat, t \in {T} :
                /\ o = out[c] /\ s = since[c] /\ p = processed
          BY <2>2, <2>4
        <5>2. s <= p /\ p + 1 \in t /\ q = Append(o, p + 1)
          BY <2>4, <4>2, <4>5, <5>1
        <5>3. Follows(o, s, p, t)
          BY <2>4, <4>3, <5>1 DEF Follows
        <5>4. Follows(q, s, p + 1, t) /\ q[1] = o[1]
          BY <5>2, <5>3, OneMoreLine
        <5> QED BY <5>1, <5>4 DEF Follows
      <4>7. out'[c] = q
        BY <4>1, <4>5
      <4> QED BY <2>4, <4>4, <4>6, <4>7
    <3>2. CASE ~Tellable(processed + 1)
      <4>1. out'[c] = out[c]
        BY <1>2, <2>1, <3>2
      <4>2. {j \in (since[c] + 1)..(processed + 1) : Tellable(j)}
              = {j \in (since[c] + 1)..processed : Tellable(j)}
        <5>1. \A j \in (since[c] + 1)..(processed + 1) :
                j \in (since[c] + 1)..processed \/ j = processed + 1
          BY <2>2, <2>4
        <5>2. \A j \in (since[c] + 1)..processed :
                j \in (since[c] + 1)..(processed + 1)
          BY <2>2, <2>4
        <5> QED BY <3>2, <5>1, <5>2
      <4> QED BY <2>4, <4>1, <4>2 DEF Lines
    <3> QED BY <3>1, <3>2
  <2>6. OutputFollowsFeed'
    BY <1>2, <2>1, <2>3, <2>5 DEF OutputFollowsFeed, Lines
  <2>7. out' \in [Conns -> Seq(Nat)]
    <3>1. \A c \in Conns : out[c] \in Seq(Nat) /\ Append(out[c], processed + 1) \in Seq(Nat)
      BY <2>2, AppendProperties DEF Served, ServedTyped
    <3> QED BY <1>2, <3>1
  <2>8. \A c \in Live' : since'[c] <= processed'
    BY <1>2, <2>1, <2>2, <2>4
  <2> QED BY <2>1, <2>6, <2>7, <2>8 DEF Served, ServedTyped
<1> QED BY <1>1, <1>2, NotificationLemma

(* A client joins with one line, leaves with its lines, or is turned away. *)
LEMMA ClientsKeepServed ==
  ASSUME Feed, Served, NEW d \in Conns,
         ClientConnects(d) \/ _servtcp_cb_listener(d) \/ _servtcp_cb_event(d)
  PROVE  Served'
<1>1. /\ phase = "serving"
      /\ UNCHANGED <<phase, mods, published, processed>>
  BY DEF ClientConnects, _servtcp_cb_listener, _servtcp_cb_event, viz, feed
<1>2. /\ conn \in [Conns -> {"none", "backlog", "live", "leaked", "closed"}]
      /\ out \in [Conns -> Seq(Nat)] /\ since \in [Conns -> Nat]
      /\ processed \in Nat
  BY DEF Served, ServedTyped, Feed, FeedTyped
<1>3. ASSUME NEW v \in {"backlog", "leaked", "closed"},
             conn' = [conn EXCEPT ![d] = v], UNCHANGED <<out, since>>
      PROVE  Served'
  <2>1. Live' \subseteq Live
    BY <1>2, <1>3 DEF Live
  <2>2. conn' \in [Conns -> {"none", "backlog", "live", "leaked", "closed"}]
    BY <1>2, <1>3
  <2>3. ServedTyped'
    BY <1>1, <1>3, <2>1, <2>2 DEF Served, ServedTyped
  <2>4. OutputFollowsFeed'
    BY <1>1, <1>3, <2>1 DEF Served, OutputFollowsFeed, Lines, Tellable
  <2> QED BY <2>3, <2>4 DEF Served
<1>4. ASSUME conn[d] = "backlog", _servtcp_cli_add(d)
      PROVE  Served'
  <2>1. /\ conn' = [conn EXCEPT ![d] = "live"]
        /\ out' = [out EXCEPT ![d] = <<0>>]
        /\ since' = [since EXCEPT ![d] = processed]
    BY <1>4 DEF _servtcp_cli_add, Welcome
  <2>2. Live' = Live \cup {d} /\ d \notin Live
    BY <1>2, <1>4, <2>1 DEF Live
  <2>3. <<0>> \in Seq(Nat) /\ Len(<<0>>) = 1 /\ <<0>>[1] = 0
    OBVIOUS
  <2>4. /\ conn' \in [Conns -> {"none", "backlog", "live", "leaked", "closed"}]
        /\ out' \in [Conns -> Seq(Nat)] /\ since' \in [Conns -> Nat]
    BY <1>2, <2>1, <2>3
  <2>5. out'[d] = <<0>> /\ since'[d] = processed
    BY <1>2, <2>1
  <2>6. \A c \in Live : out'[c] = out[c] /\ since'[c] = since[c] /\ c \in Conns
    BY <1>2, <2>1, <2>2 DEF Live
  <2>7. ServedTyped'
    BY <1>1, <1>2, <2>2, <2>4, <2>5, <2>6 DEF Served, ServedTyped
  <2>8. ASSUME NEW c \in Live
        PROVE  /\ Len(out'[c]) > 0 /\ out'[c][1] = Welcome
               /\ \A i \in 2..(Len(out'[c]) - 1) : out'[c][i] < out'[c][i + 1]
               /\ Lines(c)' = {j \in (since'[c] + 1)..processed' : Tellable(j)'}
    BY <1>1, <2>6 DEF Served, OutputFollowsFeed, Lines, Tellable
  <2>9. /\ Len(out'[d]) > 0 /\ out'[d][1] = Welcome
        /\ \A i \in 2..(Len(out'[d]) - 1) : out'[d][i] < out'[d][i + 1]
        /\ Lines(d)' = {j \in (since'[d] + 1)..processed' : Tellable(j)'}
    <3>1. Lines(d)' = {}
      <4>1. 2..Len(out'[d]) = {}
        BY <2>3, <2>5
      <4> QED BY <4>1 DEF Lines
    <3>2. (since'[d] + 1)..processed' = {}
      <4>1. (processed + 1)..processed = {}
        BY <1>2
      <4> QED BY <1>1, <2>5, <4>1
    <3>3. 2..(Len(out'[d]) - 1) = {}
      BY <2>3, <2>5
    <3> QED BY <2>3, <2>5, <3>1, <3>2, <3>3 DEF Welcome
  <2>10. OutputFollowsFeed'
    BY <2>2, <2>8, <2>9 DEF OutputFollowsFeed
  <2> QED BY <2>7, <2>10 DEF Served
<1>5. CASE ClientConnects(d)
  BY <1>3, <1>5 DEF ClientConnects
<1>6. CASE _servtcp_cb_listener(d)
  BY <1>3, <1>4, <1>6 DEF _servtcp_cb_listener
<1>7. CASE _servtcp_cb_event(d)
  BY <1>3, <1>7 DEF _servtcp_cb_event, _servtcp_cli_del
<1> QED BY <1>5, <1>6, <1>7

LEMMA StartKeepsServed ==
  ASSUME Served, _modules_load \/ _redis_connect \/ _servtcp_start
  PROVE  Served'
<1>1. phase # "serving" /\ UNCHANGED <<conn, out, since>>
  BY DEF _modules_load, _redis_connect, _servtcp_start, served
<1>2. Live = {} /\ Live' = {}
  BY <1>1 DEF Served, ServedTyped, Live
<1> QED BY <1>1, <1>2 DEF Served, ServedTyped, OutputFollowsFeed

LEMMA PublishKeepsServed ==
  ASSUME Feed, Served, NEW events \in Seq(Events), Publish(events),
         UNCHANGED <<phase, mods, conn, out, since>>
  PROVE  Served'
<1>1. CASE subscribed
  <2>1. published' = published \o events /\ UNCHANGED processed
    BY <1>1 DEF Publish
  <2>2. \A j \in 1..Len(published) : published'[j] = published[j]
    BY <2>1, ConcatProperties, LenProperties DEF Feed, FeedTyped
  <2> QED BY <2>1, <2>2, ServedByPrefix
<1>2. CASE ~subscribed
  BY <1>2, ServedUnchanged DEF Publish, feed
<1> QED BY <1>1, <1>2

LEMMA ServedStep ==
  ASSUME Feed, Served, [Next]_vars
  PROVE  Served'
<1>1. CASE UNCHANGED vars
  BY <1>1, ServedUnchanged DEF vars, viz, served, feed
<1>2. CASE RedisStarts \/ RedisSubscribes \/ RedisDrops \/ _redis_cb_disconnect
  BY <1>2, ServedUnchanged
  DEF RedisStarts, RedisSubscribes, RedisDrops, _redis_cb_disconnect, viz, served, feed
<1>3. ASSUME NEW p \in Probes, NEW r \in Records, Sadd(p, r) \/ Srem(p, r)
      PROVE  Served'
  <2>1. CASE Sadd(p, r)
    <3>1. <<[op |-> "sadd", key |-> r]>> \in Seq(Events)
      BY DEF Events, Ops
    <3> QED BY <2>1, <3>1, PublishKeepsServed DEF Sadd, viz, served
  <2>2. CASE Srem(p, r)
    <3>1. /\ <<[op |-> "srem", key |-> r], [op |-> "del", key |-> r]>> \in Seq(Events)
          /\ <<[op |-> "srem", key |-> r]>> \in Seq(Events)
      BY DEF Events, Ops
    <3> QED BY <2>2, <3>1, PublishKeepsServed DEF Srem, viz, served
  <2> QED BY <1>3, <2>1, <2>2
<1>4. ASSUME NEW c \in Conns,
             \/ ClientSends(c) \/ ClientCloses(c) \/ OutputDrains(c)
             \/ _servtcp_cb_read(c)
      PROVE  Served'
  BY <1>4, ServedUnchanged DEF viz, served, feed, ClientSends, ClientCloses,
    OutputDrains, _servtcp_cb_read
<1> QED
  BY <1>1, <1>2, <1>3, <1>4, ClientsKeepServed, StartKeepsServed,
    NotificationKeepsServed DEF Next

-----------------------------------------------------------------------------
(* Types *)

LinkTyped ==
  /\ published \in Seq(Events) /\ Len(published) <= MaxPublished
  /\ link \in Seq(0..MaxPublished)
  /\ processed \in 0..MaxPublished
  /\ out \in [Conns -> Seq(0..MaxPublished)]
  /\ since \in [Conns -> 0..MaxPublished]

(* A line is on the socket, in the input buffer or handled, and a client   *)
(* sends MaxLines of them at most. *)
ReadingTyped ==
  /\ input \in [Conns -> 0..MaxLines]
  /\ handled \in [Conns -> 0..MaxLines]
  /\ socket \in [Conns -> 0..MaxLines]
  /\ \A c \in Conns : handled[c] + input[c] + socket[c] <= MaxLines

ProcessTyped ==
  /\ phase \in {"forked", "loaded", "connected", "serving", "exited"}
  /\ mods \subseteq Modules
  /\ rc \in {"none", "up", "closing", "down"}
  /\ clients_count \in 0..(CountModulus - 1)
  /\ conn \in [Conns -> {"none", "backlog", "live", "leaked", "closed"}]

OutsideTyped ==
  /\ redis_up \in BOOLEAN
  /\ record \in [Records -> SUBSET Probes]
  /\ subscribed \in BOOLEAN
  /\ unseen \in 0..MaxChanges
  /\ seen \in [Conns -> Nat]
  /\ eof \in [Conns -> BOOLEAN]

Types == LinkTyped /\ ReadingTyped /\ ProcessTyped /\ OutsideTyped

(* Of the library's facts on sequences, what is needed here.               *)
LEMMA FunctionIsSeq ==
  ASSUME NEW S, NEW n \in Nat, NEW f \in [1..n -> S]
  PROVE  f \in Seq(S)
BY SeqDef

LEMMA BeginningIsSeq ==
  ASSUME NEW S, NEW s \in Seq(S), NEW n \in 0..Len(s)
  PROVE  SubSeq(s, 1, n) \in Seq(S)
<1>1. \A i \in 1..n : s[i] \in S
  BY ElementOfSeq, LenProperties
<1> QED BY <1>1, SubSeqProperties

(* The positions of what is published stay below the bound.                *)
LEMMA PublishKeepsLink ==
  ASSUME LinkTyped, NEW events \in Seq(Events), Publish(events), UNCHANGED <<out, since>>
  PROVE  LinkTyped'
<1>1. CASE ~subscribed
  BY <1>1 DEF Publish, feed, LinkTyped
<1>2. CASE subscribed
  <2> DEFINE tail == [i \in 1..Len(events) |-> Len(published) + i]
  <2>1. /\ published' = published \o events /\ link' = link \o tail
        /\ Len(published) + Len(events) <= MaxPublished /\ processed' = processed
    BY <1>2 DEF Publish
  <2>2. /\ published \in Seq(Events) /\ link \in Seq(0..MaxPublished)
        /\ Len(published) \in Nat /\ Len(events) \in Nat
    BY LenProperties DEF LinkTyped
  <2>3. published' \in Seq(Events) /\ Len(published') = Len(published) + Len(events)
    BY <2>1, <2>2, ConcatProperties
  <2>4. tail \in Seq(0..MaxPublished)
    <3>1. MaxPublished \in Nat
      BY RecordsAssumption
    <3>2. \A i \in 1..Len(events) : Len(published) + i \in 0..MaxPublished
      BY <2>1, <2>2, <3>1
    <3>3. tail \in [1..Len(events) -> 0..MaxPublished]
      BY <3>2
    <3> QED BY <2>2, <3>3, FunctionIsSeq
  <2>5. link' \in Seq(0..MaxPublished)
    BY <2>1, <2>2, <2>4, ConcatProperties
  <2> QED BY <2>1, <2>3, <2>5 DEF LinkTyped
<1> QED BY <1>1, <1>2

(* The event handled is one that was published. *)
LEMMA NotificationKeepsLink ==
  ASSUME Feed, LinkTyped, _redis_cb_notification
  PROVE  LinkTyped'
<1>1. /\ link # <<>> /\ link' = Tail(link) /\ UNCHANGED <<published, since>>
      /\ link \in Seq(0..MaxPublished) /\ out \in [Conns -> Seq(0..MaxPublished)]
  BY DEF _redis_cb_notification, LinkTyped
<1>2. link' \in Seq(0..MaxPublished) /\ Head(link) \in 0..MaxPublished
  BY <1>1, HeadTailProperties
<1>3. CASE Head(link) = Confirm
  BY <1>1, <1>2, <1>3 DEF _redis_cb_notification, LinkTyped
<1>4. CASE Head(link) # Confirm
  <2>1. processed' = processed + 1
    BY <1>4 DEF _redis_cb_notification
  <2>2. processed + 1 \in 1..Len(published)
    BY <1>1, <1>4, HeadLemma
  <2>3. processed' \in 0..MaxPublished
    <3>1. Len(published) \in Nat /\ Len(published) <= MaxPublished
      BY LenProperties DEF LinkTyped
    <3> QED BY <2>1, <2>2, <3>1, RecordsAssumption
  <2>4. out' \in [Conns -> Seq(0..MaxPublished)]
    <3>1. \A c \in Conns : Append(out[c], Head(link)) \in Seq(0..MaxPublished)
      BY <1>1, <1>2, AppendProperties
    <3> QED BY <1>1, <1>4, <3>1 DEF _redis_cb_notification
  <2> QED BY <1>1, <1>2, <2>3, <2>4 DEF LinkTyped
<1> QED BY <1>3, <1>4

(* What Redis published, what is in flight and what clients were written.  *)
LEMMA LinkStep ==
  ASSUME Feed, LinkTyped, [Next]_vars
  PROVE  LinkTyped'
<1>1. CASE UNCHANGED vars
  BY <1>1 DEF vars, served, feed, LinkTyped
<1>2. CASE RedisSubscribes
  <2>1. link' = Append(link, Confirm) /\ UNCHANGED <<published, processed, out, since>>
    BY <1>2 DEF RedisSubscribes, served
  <2>2. Confirm \in 0..MaxPublished
    BY RecordsAssumption DEF Confirm
  <2>3. link' \in Seq(0..MaxPublished)
    BY <2>1, <2>2, AppendProperties DEF LinkTyped
  <2> QED BY <2>1, <2>3 DEF LinkTyped
<1>3. CASE RedisDrops
  <2>1. PICK n \in 0..Len(link) : link' = SubSeq(link, 1, n)
    BY <1>3 DEF RedisDrops
  <2>2. link' \in Seq(0..MaxPublished)
    BY <2>1, BeginningIsSeq DEF LinkTyped
  <2> QED BY <1>3, <2>2 DEF RedisDrops, served, LinkTyped
<1>4. ASSUME NEW p \in Probes, NEW r \in Records, Sadd(p, r) \/ Srem(p, r)
      PROVE  LinkTyped'
  <2>1. /\ <<[op |-> "sadd", key |-> r]>> \in Seq(Events)
        /\ <<[op |-> "srem", key |-> r], [op |-> "del", key |-> r]>> \in Seq(Events)
        /\ <<[op |-> "srem", key |-> r]>> \in Seq(Events)
    BY DEF Events, Ops
  <2> QED BY <1>4, <2>1, PublishKeepsLink DEF Sadd, Srem, served
<1>5. CASE _redis_cb_notification
  BY <1>5, NotificationKeepsLink
<1>6. CASE _servtcp_start
  <2>1. <<>> \in Seq(0..MaxPublished)
    OBVIOUS
  <2> QED BY <1>6, <2>1 DEF _servtcp_start, served, LinkTyped
<1>7. ASSUME NEW c \in Conns, _servtcp_cb_listener(c)
      PROVE  LinkTyped'
  <2>1. <<Welcome>> \in Seq(0..MaxPublished)
    BY RecordsAssumption DEF Welcome
  <2> QED BY <1>7, <2>1 DEF _servtcp_cb_listener, _servtcp_cli_add, feed, LinkTyped
<1>8. CASE RedisStarts \/ _modules_load \/ _redis_connect \/ _redis_cb_disconnect
  BY <1>8 DEF RedisStarts, _modules_load, _redis_connect, _redis_cb_disconnect,
    served, feed, LinkTyped
<1>9. ASSUME NEW c \in Conns,
             \/ ClientConnects(c) \/ ClientSends(c) \/ ClientCloses(c)
             \/ OutputDrains(c) \/ _servtcp_cb_read(c) \/ _servtcp_cb_event(c)
      PROVE  LinkTyped'
  BY <1>9 DEF ClientConnects, ClientSends, ClientCloses, OutputDrains, _servtcp_cb_read,
    _servtcp_cb_event, _servtcp_cli_del, served, feed, LinkTyped
<1> QED BY <1>1, <1>2, <1>3, <1>4, <1>5, <1>6, <1>7, <1>8, <1>9 DEF Next

(* A line moves from the socket to the buffer and is handled, and is       *)
(* counted in one place only.                                              *)
LEMMA ReadingStep ==
  ASSUME ReadingTyped, [Next]_vars
  PROVE  ReadingTyped'
<1>1. CASE UNCHANGED reading
  BY <1>1 DEF reading, ReadingTyped
<1>2. ASSUME NEW c \in Conns, ClientSends(c)
      PROVE  ReadingTyped'
  <2>1. /\ handled[c] + input[c] + socket[c] < MaxLines
        /\ socket' = [socket EXCEPT ![c] = @ + 1] /\ UNCHANGED <<input, handled>>
    BY <1>2 DEF ClientSends
  <2>2. handled[c] \in Nat /\ input[c] \in Nat /\ socket[c] \in Nat /\ MaxLines \in Nat
    BY RecordsAssumption DEF ReadingTyped
  <2>3. socket[c] + 1 \in 0..MaxLines /\ handled[c] + input[c] + (socket[c] + 1) <= MaxLines
    BY <2>1, <2>2
  <2> QED BY <2>1, <2>3 DEF ReadingTyped
<1>3. ASSUME NEW c \in Conns, _servtcp_cb_read(c)
      PROVE  ReadingTyped'
  <2>1. /\ socket[c] > 0
        /\ input' = [input EXCEPT ![c] = @ + socket[c] - 1]
        /\ handled' = [handled EXCEPT ![c] = @ + 1]
        /\ socket' = [socket EXCEPT ![c] = 0]
    BY <1>3 DEF _servtcp_cb_read
  <2>2. /\ handled[c] \in Nat /\ input[c] \in Nat /\ socket[c] \in Nat /\ MaxLines \in Nat
        /\ handled[c] + input[c] + socket[c] <= MaxLines
    BY RecordsAssumption DEF ReadingTyped
  <2>3. /\ input[c] + socket[c] - 1 \in 0..MaxLines /\ handled[c] + 1 \in 0..MaxLines
        /\ 0 \in 0..MaxLines
        /\ (handled[c] + 1) + (input[c] + socket[c] - 1) + 0 <= MaxLines
    BY <2>1, <2>2
  <2>4. /\ input' \in [Conns -> 0..MaxLines] /\ handled' \in [Conns -> 0..MaxLines]
        /\ socket' \in [Conns -> 0..MaxLines]
    BY <2>1, <2>3 DEF ReadingTyped
  <2>5. ASSUME NEW d \in Conns PROVE handled'[d] + input'[d] + socket'[d] <= MaxLines
    BY <2>1, <2>3 DEF ReadingTyped
  <2> QED BY <2>4, <2>5 DEF ReadingTyped
<1>4. UNCHANGED reading \/ \E c \in Conns : ClientSends(c) \/ _servtcp_cb_read(c)
  BY DEF Next, vars, RedisStarts, RedisSubscribes, RedisDrops, Sadd, Srem, _modules_load,
    _redis_connect, _servtcp_start, _redis_cb_notification, _redis_cb_disconnect,
    ClientConnects, ClientCloses, OutputDrains, _servtcp_cb_listener, _servtcp_cb_event
<1> QED BY <1>1, <1>2, <1>3, <1>4

(* The counter of clients wraps within its width.                          *)
LEMMA ProcessStep ==
  ASSUME ProcessTyped, [Next]_vars
  PROVE  ProcessTyped'
<1> USE DEF ProcessTyped
<1>1. CASE UNCHANGED <<phase, mods, rc, clients_count, conn>>
  BY <1>1
<1>2. CASE RedisDrops \/ _modules_load \/ _redis_connect \/ _servtcp_start
           \/ _redis_cb_disconnect
  BY <1>2 DEF RedisDrops, _modules_load, _redis_connect, _servtcp_start,
    _redis_cb_disconnect, served
<1>3. ASSUME NEW c \in Conns, ClientConnects(c) \/ _servtcp_cb_listener(c)
      PROVE  ProcessTyped'
  BY <1>3 DEF ClientConnects, _servtcp_cb_listener, _servtcp_cli_add, viz
<1>4. ASSUME NEW c \in Conns, _servtcp_cb_event(c)
      PROVE  ProcessTyped'
  <2>1. clients_count' \in 0..(CountModulus - 1)
    <3>1. clients_count' = (clients_count - 1) % CountModulus
      BY <1>4 DEF _servtcp_cb_event, _servtcp_cli_del
    <3> QED BY <3>1, RecordsAssumption
  <2> QED BY <1>4, <2>1 DEF _servtcp_cb_event, _servtcp_cli_del, viz
<1>5. \/ UNCHANGED <<phase, mods, rc, clients_count, conn>>
      \/ RedisDrops \/ _modules_load \/ _redis_connect \/ _servtcp_start
      \/ _redis_cb_disconnect
      \/ \E c \in Conns :
           ClientConnects(c) \/ _servtcp_cb_listener(c) \/ _servtcp_cb_event(c)
  BY DEF Next, vars, viz, served, RedisStarts, RedisSubscribes, Sadd, Srem,
    _redis_cb_notification, ClientSends, ClientCloses, OutputDrains, _servtcp_cb_read
<1> QED BY <1>1, <1>2, <1>3, <1>4, <1>5

(* Redis and the clients keep their types.                                 *)
LEMMA OutsideStep ==
  ASSUME LinkTyped, OutsideTyped, [Next]_vars
  PROVE  OutsideTyped'
<1> USE DEF OutsideTyped
<1>1. CASE UNCHANGED <<redis_up, record, subscribed, unseen, seen, eof>>
  BY <1>1
<1>2. CASE RedisStarts \/ RedisSubscribes \/ RedisDrops \/ _servtcp_start
  BY <1>2 DEF RedisStarts, RedisSubscribes, RedisDrops, _servtcp_start, feed, peers, database
<1>3. ASSUME NEW p \in Probes, NEW r \in Records, Sadd(p, r) \/ Srem(p, r)
      PROVE  OutsideTyped'
  <2>1. PICK events : Publish(events)
    BY <1>3 DEF Sadd, Srem
  <2>2. unseen' \in 0..MaxChanges /\ subscribed' = subscribed
    BY <2>1, RecordsAssumption DEF Publish, feed
  <2>3. record' \in [Records -> SUBSET Probes]
    BY <1>3 DEF Sadd, Srem
  <2> QED BY <1>3, <2>2, <2>3 DEF Sadd, Srem, peers
<1>4. ASSUME NEW c \in Conns, ClientCloses(c) \/ OutputDrains(c)
      PROVE  OutsideTyped'
  <2>1. Len(out[c]) \in Nat
    BY LenProperties DEF LinkTyped
  <2> QED BY <1>4, <2>1 DEF ClientCloses, OutputDrains, feed, database
<1>5. \/ UNCHANGED <<redis_up, record, subscribed, unseen, seen, eof>>
      \/ RedisStarts \/ RedisSubscribes \/ RedisDrops \/ _servtcp_start
      \/ \E p \in Probes, r \in Records : Sadd(p, r) \/ Srem(p, r)
      \/ \E c \in Conns : ClientCloses(c) \/ OutputDrains(c)
  BY DEF Next, vars, peers, database, feed, _modules_load, _redis_connect,
    _redis_cb_notification, _redis_cb_disconnect, ClientConnects, ClientSends,
    _servtcp_cb_listener, _servtcp_cb_read, _servtcp_cb_event
<1> QED BY <1>1, <1>2, <1>3, <1>4, <1>5

-----------------------------------------------------------------------------
(* Theorems *)

(* The link, and with it what clients are written, stays in the order of   *)
(* what Redis published, from the start of the process on.                 *)
THEOREM Invariance == Safety => []IInv
<1>1. Init => IInv
  <2> SUFFICES ASSUME Init PROVE IInv
    OBVIOUS
  <2>1. Lead = 0 /\ DOMAIN link = {} /\ Len(link) = 0 /\ link \in Seq(Nat)
    BY DEF Init, Lead
  <2>2. published = <<>> /\ published \in Seq(Events) /\ Len(published) = 0
    BY DEF Init
  <2>3. Feed
    BY <2>1, <2>2 DEF Init, Feed, FeedTyped, FeedOrder
  <2>4. Live = {}
    BY DEF Init, Live
  <2>5. out \in [Conns -> Seq(Nat)]
    <3>1. <<>> \in Seq(Nat)
      OBVIOUS
    <3> QED BY <3>1 DEF Init
  <2>6. Served
    BY <2>4, <2>5 DEF Init, Served, ServedTyped, OutputFollowsFeed
  <2> QED BY <2>3, <2>6 DEF IInv
<1>2. IInv /\ [Next]_vars => IInv'
  BY FeedStep, ServedStep DEF IInv
<1> QED BY <1>1, <1>2, PTL DEF Safety

(* Whatever clients send and however they come and go, the lines of each   *)
(* client and everything else stay what they should be.                    *)
THEOREM TypeCorrect == Safety => []TypeOK
<1>1. Init => Types
  <2> SUFFICES ASSUME Init PROVE Types
    OBVIOUS
  <2>1. <<>> \in Seq(Events) /\ <<>> \in Seq(0..MaxPublished) /\ Len(<<>>) = 0
    OBVIOUS
  <2>2. 0 \in 0..MaxPublished /\ 0 \in 0..MaxLines /\ 0 \in 0..MaxChanges
        /\ 0 \in 0..(CountModulus - 1)
    BY RecordsAssumption
  <2>3. LinkTyped
    BY <2>1, <2>2, RecordsAssumption DEF Init, LinkTyped
  <2>4. ReadingTyped
    BY <2>2, RecordsAssumption DEF Init, ReadingTyped
  <2>5. ProcessTyped
    BY <2>2 DEF Init, ProcessTyped
  <2>6. OutsideTyped
    BY <2>2 DEF Init, OutsideTyped
  <2> QED BY <2>3, <2>4, <2>5, <2>6 DEF Types
<1>2. IInv /\ Types /\ [Next]_vars => Types'
  BY LinkStep, ReadingStep, ProcessStep, OutsideStep DEF Types, IInv
<1>3. Types => TypeOK
  BY DEF Types, LinkTyped, ReadingTyped, ProcessTyped, OutsideTyped, TypeOK, Events
<1> QED BY <1>1, <1>2, <1>3, Invariance, PTL DEF Safety

(* A client hears exactly what viz handled since it was accepted, in order,*)
(* however many clients, records and events there are.                     *)
THEOREM ClientsFollowFeed == Safety => []OutputFollowsFeed
<1>1. IInv => OutputFollowsFeed
  BY DEF IInv, Served
<1> QED BY <1>1, Invariance, PTL

(* While the subscription holds nothing between Redis and a client is lost.*)
THEOREM NothingLost == Safety => []NoEventLost
<1>1. IInv => NoEventLost
  <2> SUFFICES ASSUME IInv, subscribed, NEW c \in Live,
                      NEW j \in (since[c] + 1)..Len(published), Tellable(j)
               PROVE  j \in Lines(c) \/ \E i \in DOMAIN link : link[i] = j
    BY DEF NoEventLost
  <2>1. /\ since[c] \in Nat /\ processed \in Nat /\ Len(published) \in Nat
        /\ link \in Seq(Nat) /\ Len(link) \in Nat
        /\ Lead \in {0, 1} /\ Lead <= Len(link)
    BY LeadLemma DEF IInv, Feed, FeedTyped, Served, ServedTyped, Live
  <2>2. CASE j <= processed
    <3>1. j \in (since[c] + 1)..processed
      BY <2>1, <2>2
    <3> QED BY <3>1 DEF IInv, Served, OutputFollowsFeed
  <2>3. CASE j > processed
    <3>1. processed + (Len(link) - Lead) = Len(published)
      BY DEF IInv, Feed, FeedOrder
    <3>2. PICK l \in {0, 1} : l = Lead
      BY <2>1
    <3>3. PICK i \in Int : i = (j - processed) + l
      BY <2>1
    <3>4. i \in 1..Len(link) /\ i > l /\ processed + (i - l) = j
      BY <2>1, <2>3, <3>1, <3>2, <3>3
    <3>5. i \in DOMAIN link
      BY <2>1, <3>4, LenProperties
    <3>6. link[i] = j
      BY <3>2, <3>4, <3>5 DEF IInv, Feed, FeedOrder
    <3> QED BY <3>5, <3>6
  <2> QED BY <2>1, <2>2, <2>3
<1> QED BY <1>1, Invariance, PTL

(* Every step of viz is a step of the broadcast, or none at all.           *)
LEMMA BroadcastStep ==
  ASSUME Feed, Served, [Next]_vars
  PROVE  [Announcements!Next]_(Announcements!vars)
<1> DEFINE turned == {c \in Conns : conn[c] \in {"leaked", "closed"}}
<1>1. CASE UNCHANGED <<conn, out, processed>>
  BY <1>1 DEF Announcements!vars, Live
<1>2. CASE _redis_cb_notification
  <2>1. UNCHANGED conn /\ Live' = Live /\ turned' = turned
    BY <1>2, NotificationLemma DEF Live
  <2>2. CASE UNCHANGED <<out, processed>>
    BY <1>1, <2>1, <2>2
  <2>3. CASE /\ processed' = processed + 1
             /\ out' = [c \in Conns |->
                          IF c \in Live /\ Tellable(processed + 1)
                          THEN Append(out[c], processed + 1) ELSE out[c]]
    <3>1. CASE Tellable(processed + 1)
      BY <2>1, <2>3, <3>1 DEF Announcements!Next, Announcements!Tell
    <3>2. CASE ~Tellable(processed + 1)
      <4>1. out' = out
        BY <2>3, <3>2 DEF Served, ServedTyped
      <4> QED BY <2>1, <2>3, <4>1 DEF Announcements!Next, Announcements!Skip
    <3> QED BY <3>1, <3>2
  <2> QED BY <1>2, <2>2, <2>3, NotificationLemma
<1>3. ASSUME NEW d \in Conns,
             ClientConnects(d) \/ _servtcp_cb_listener(d) \/ _servtcp_cb_event(d)
      PROVE  [Announcements!Next]_(Announcements!vars)
  <2>1. conn \in [Conns -> {"none", "backlog", "live", "leaked", "closed"}]
    BY DEF Served, ServedTyped
  <2>2. UNCHANGED processed
    BY <1>3 DEF ClientConnects, _servtcp_cb_listener, _servtcp_cb_event, feed
  <2>3. CASE ClientConnects(d)
    <3>1. Live' = Live /\ turned' = turned /\ out' = out
      BY <2>1, <2>3 DEF ClientConnects, Live
    <3> QED BY <2>2, <3>1 DEF Announcements!vars
  <2>4. CASE _servtcp_cb_listener(d)
    <3>1. d \notin Live \cup turned
      BY <2>4 DEF _servtcp_cb_listener, Live
    <3>2. CASE _servtcp_cli_add(d)
      <4>1. /\ Live' = Live \cup {d} /\ turned' = turned
            /\ out' = [out EXCEPT ![d] = <<Welcome>>]
        BY <2>1, <2>4, <3>2 DEF _servtcp_cb_listener, _servtcp_cli_add, Live
      <4>2. Announcements!Join(d)
        BY <2>2, <3>1, <4>1 DEF Announcements!Join
      <4> QED BY <4>2 DEF Announcements!Next
    <3>3. CASE conn' = [conn EXCEPT ![d] = "leaked"] /\ UNCHANGED out
      <4>1. Live' = Live /\ turned' = turned \cup {d} /\ out' = out
        BY <2>1, <2>4, <3>3 DEF _servtcp_cb_listener, Live
      <4>2. Announcements!Join(d)
        BY <2>2, <3>1, <4>1 DEF Announcements!Join
      <4> QED BY <4>2 DEF Announcements!Next
    <3> QED BY <2>4, <3>2, <3>3 DEF _servtcp_cb_listener
  <2>5. CASE _servtcp_cb_event(d)
    <3>1. /\ d \in Live /\ Live' = Live \ {d} /\ turned' = turned \cup {d}
          /\ out' = out
      BY <2>1, <2>5 DEF _servtcp_cb_event, _servtcp_cli_del, Live
    <3>2. Announcements!Leave(d)
      BY <2>2, <3>1 DEF Announcements!Leave
    <3> QED BY <3>2 DEF Announcements!Next
  <2> QED BY <1>3, <2>3, <2>4, <2>5
<1>4. CASE \/ RedisStarts \/ RedisSubscribes \/ RedisDrops \/ _redis_cb_disconnect
           \/ _modules_load \/ _redis_connect \/ _servtcp_start
           \/ \E p \in Probes, r \in Records : Sadd(p, r) \/ Srem(p, r)
  <2>1. UNCHANGED <<conn, out, processed>>
    BY <1>4 DEF RedisStarts, RedisSubscribes, RedisDrops, _redis_cb_disconnect,
      _modules_load, _redis_connect, _servtcp_start, Sadd, Srem, Publish, served, feed
  <2> QED BY <1>1, <2>1
<1>5. CASE \E c \in Conns : \/ ClientSends(c) \/ ClientCloses(c) \/ OutputDrains(c)
                            \/ _servtcp_cb_read(c)
  <2>1. UNCHANGED <<conn, out, processed>>
    BY <1>5 DEF ClientSends, ClientCloses, OutputDrains, _servtcp_cb_read, served, feed
  <2> QED BY <1>1, <2>1
<1>6. CASE UNCHANGED vars
  BY <1>1, <1>6 DEF vars, served, feed
<1> QED BY <1>2, <1>3, <1>4, <1>5, <1>6 DEF Next

(* Viz is a broadcast: each event reaches everybody present or nobody.     *)
THEOREM VizIsABroadcast == Safety => ImplementsBroadcast
<1>1. Init => Announcements!Init
  BY DEF Init, Announcements!Init, Live
<1>2. IInv /\ [Next]_vars => [Announcements!Next]_(Announcements!vars)
  BY BroadcastStep DEF IInv
<1> QED
  BY <1>1, <1>2, Invariance, PTL
  DEF Safety, ImplementsBroadcast, Announcements!Safety

=============================================================================
