------------------------------- MODULE GGServer -------------------------------
(***************************************************************************)
(* The users of the UDP server of libglouglou (server.c): an address that  *)
(* sends a datagram becomes a user, and an empty datagram from a user ends *)
(* it.  The file is marked in progress and does not compile; modelled are  *)
(* the lines that keep the table of users.  What they call and nobody has  *)
(* written yet is external: user_find, taken for a search of the list with *)
(* addrcmp (utils.c), pkt_decode, and the answers of the module            *)
(* mod_0_internal, which go out and change nothing here.                   *)
(*                                                                         *)
(* The network may lose, repeat and reorder datagrams: one that was sent   *)
(* may arrive never, once or again at any time.                            *)
(***************************************************************************)
EXTENDS Integers, FiniteSets

CONSTANTS
  Ips, Ports,   \* the addresses of probes
  Packets,      \* what a datagram is made of
  MaxUsers,     \* bound of the model: users ever
  MaxSent       \* bound of the model: different datagrams sent

Addr == [ip : Ips, port : Ports]

(* len is 0 when there are neither packets nor the beginning of one. *)
Datagram == [from : Addr, packets : SUBSET Packets, incomplete : BOOLEAN]

(* Ids are numbers of type int, and the model stops before they run out. *)
IntMax == 2147483647

User == [id : 0..IntMax, addr : Addr]

ASSUME GGServerAssumption ==
  /\ MaxUsers \in Nat /\ MaxUsers <= IntMax
  /\ MaxSent \in Nat

VARIABLES
  phase,           \* "new", "running", "failed", "stopped", "crashed"
  handle_packet,   \* the application has a callback for packets
  user_list,       \* its order matters to nobody
  user_count,
  user_id_count,
  datagrams,       \* every datagram ever sent
  handled          \* calls of handle_packet: the user and the packet

serverVars ==
  <<phase, handle_packet, user_list, user_count, user_id_count, datagrams, handled>>

ServerInit ==
  /\ phase = "new"
  /\ handle_packet = FALSE
  /\ user_list = {}
  /\ user_count = 0 /\ user_id_count = 0
  /\ datagrams = {}
  /\ handled = {}

(* gg_server_start with udp_server_create, which may fail at the socket or *)
(* at bind; gg_server_stop then finds no user. *)
gg_server_start ==
  /\ phase = "new"
  /\ phase' \in {"running", "failed"}
  /\ handle_packet' \in BOOLEAN
  /\ UNCHANGED <<user_list, user_count, user_id_count, datagrams, handled>>

(* A probe says hello, sends packets or says goodbye. *)
Send(d) ==
  /\ Cardinality(datagrams) < MaxSent
  /\ datagrams' = datagrams \cup {d}
  /\ UNCHANGED <<phase, handle_packet, user_list, user_count, user_id_count, handled>>

-----------------------------------------------------------------------------
(* cb_srv_receive *)

(* Seeded bug: the port is not compared. *)
addrcmpIp(a, b) == IF a.ip # b.ip THEN -1 ELSE 0

(* The family is the same for all. *)
addrcmp(a, b) ==
  CASE a.ip # b.ip -> -1
    [] a.ip = b.ip /\ a.port # b.port -> -2
    [] OTHER -> 0

user_find(addr) == {u \in user_list : addrcmp(u.addr, addr) = 0}

(* Seeded bug: the number of users is taken for an id. *)
user_addByCount(remote) ==
  /\ user_id_count < MaxUsers
  /\ user_list' = user_list \cup {[id |-> user_count, addr |-> remote]}
  /\ user_count' = user_count + 1
  /\ user_id_count' = user_id_count + 1

(* Seeded bug: a new user is not counted. *)
user_addUncounted(remote) ==
  /\ user_id_count < MaxUsers
  /\ user_list' = user_list \cup {[id |-> user_id_count, addr |-> remote]}
  /\ user_count' = user_count
  /\ user_id_count' = user_id_count + 1

user_add(remote) ==
  /\ user_id_count < MaxUsers
  /\ user_list' = user_list \cup {[id |-> user_id_count, addr |-> remote]}
  /\ user_count' = user_count + 1
  /\ user_id_count' = user_id_count + 1

(* Seeded bug: a user that goes is still counted. *)
user_delCounted(usr) ==
  /\ user_list' = user_list \ {usr}
  /\ user_count' = user_count

(* user_send changes nothing, and sends nothing either: sock is a copy of  *)
(* the sock of the server, which is never set.                             *)
user_del(usr) ==
  /\ user_list' = user_list \ {usr}
  /\ user_count' = user_count - 1

(* An unknown address: the datagram is a hello, whatever is in it. *)
Hello(d) ==
  /\ phase = "running" /\ d \in datagrams
  /\ user_find(d.from) = {}
  /\ user_add(d.from)
  /\ UNCHANGED <<phase, handle_packet, datagrams, handled>>

(* Without memory for its buffer user_add deletes the user, which is not   *)
(* in the list: LIST_REMOVE writes through its null pointer.               *)
HelloFails(d) ==
  /\ phase = "running" /\ d \in datagrams
  /\ user_find(d.from) = {}
  /\ phase' = "crashed"
  /\ UNCHANGED <<handle_packet, user_list, user_count, user_id_count, datagrams, handled>>

Goodbye(d) ==
  /\ phase = "running" /\ d \in datagrams
  /\ d.packets = {} /\ ~d.incomplete
  /\ \E usr \in user_find(d.from) : user_del(usr)
  /\ UNCHANGED <<phase, handle_packet, user_id_count, datagrams, handled>>

(* The packets are handled one by one, if there is a callback for them;    *)
(* what is incomplete is dropped. *)
PacketsArrive(d) ==
  /\ phase = "running" /\ d \in datagrams
  /\ d.packets # {} \/ d.incomplete
  /\ \E usr \in user_find(d.from) :
       handled' = handled \cup
         (IF handle_packet THEN [user : {usr}, packet : d.packets] ELSE {})
  /\ UNCHANGED <<phase, handle_packet, user_list, user_count, user_id_count, datagrams>>

cb_srv_receive(d) == Hello(d) \/ HelloFails(d) \/ Goodbye(d) \/ PacketsArrive(d)

(* Every user is deleted, then the server itself. *)
gg_server_stop ==
  /\ phase = "running"
  /\ phase' = "stopped"
  /\ user_list' = {}
  /\ user_count' = user_count - Cardinality(user_list)
  /\ UNCHANGED <<handle_packet, user_id_count, datagrams, handled>>

ServerNext ==
  \/ gg_server_start
  \/ \E d \in Datagram : Send(d) \/ cb_srv_receive(d)
  \/ gg_server_stop

ServerSpec == ServerInit /\ [][ServerNext]_serverVars

-----------------------------------------------------------------------------
(* Properties *)

(* Types, and every id that was given is below user_id_count. *)
ServerTypeOK ==
  /\ phase \in {"new", "running", "failed", "stopped", "crashed"}
  /\ handle_packet \in BOOLEAN
  /\ user_list \subseteq User
  /\ user_count \in Nat
  /\ user_id_count \in 0..MaxUsers
  /\ datagrams \subseteq Datagram
  /\ handled \subseteq [user : User, packet : Packets]
  /\ IsFiniteSet(user_list)
  /\ \A u \in user_list : u.id < user_id_count
  /\ \A h \in handled : h.user.id < user_id_count

(* An address is one user at most, whatever is repeated or comes late, and *)
(* two users never share an id (cb_srv_receive, user_add, user_del).       *)
OneUserPerAddress ==
  \A u, v \in user_list : u.addr = v.addr \/ u.id = v.id => u = v

(* user_count is the length of the list through every coming and going,    *)
(* and 0 once the server is stopped (user_add, user_del, gg_server_stop).  *)
UsersCounted ==
  user_count = Cardinality(user_list)

(* A packet is handled for the address that sent it, never for a user that *)
(* has only the same host (user_find, addrcmp).                            *)
HandledForSender ==
  \A h \in handled : \E d \in datagrams : d.from = h.user.addr /\ h.packet \in d.packets

(* An id stands for one address for ever: what was handled under an id was *)
(* handled for the same address, also when its user has gone and others    *)
(* have come since (user_add: ids are never taken back).                   *)
IdsNeverReused ==
  /\ \A g, h \in handled : g.user.id = h.user.id => g.user = h.user
  /\ \A h \in handled, u \in user_list : h.user.id = u.id => h.user = u
=============================================================================
