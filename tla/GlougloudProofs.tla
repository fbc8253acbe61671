--------------------------- MODULE GlougloudProofs ---------------------------
(***************************************************************************)
(* Proofs about the root process (Daemon), for every positive number of    *)
(* turns of kill_wait and any number of signals, and about the server that *)
(* probes send to (GGServer), for all addresses, packets and bounds.  The  *)
(* two have no state in common.                                            *)
(***************************************************************************)
EXTENDS Daemon, GGServer, FiniteSetTheorems, TLAPS

-----------------------------------------------------------------------------
(* Daemon                                                                  *)
(*                                                                         *)
(* That redis has been waited for when main returns depends on what both   *)
(* shutdowns did: Reported says what the first one leaves, Reaping what    *)
(* the second one makes of it.                                             *)


Ended == proc["redis"] \in {"zombie", "gone"}

(* kill_wait runs, and has run, only from the event loop on, and redis was *)
(* forked before.                                                          *)
Placed ==
  /\ stage = "waiting" => pc \in {"dispatch", "final"}
  /\ reported => pc \in {"dispatch", "final", "exited"}
  /\ pc \notin {"redis_init", "killed", "child"} => proc["redis"] # "none"

(* A shutdown that returned in the parent of redis left it ended, and the  *)
(* loop is only told to exit by a handler that shut down.                  *)
Reported ==
  /\ (parent /\ reported) => Ended
  /\ (exiting /\ stage = "none") => reported

(* The second shutdown finds redis ended, and its first turn waits for it. *)
Reaping ==
  /\ (parent /\ pc = "final" /\ stage = "waiting") =>
       /\ Ended
       /\ tries > 0 => proc["redis"] = "gone"
  /\ (parent /\ pc \in {"final", "exited"} /\ stage = "none") =>
       proc["redis"] = "gone"

IInv == TypeOK /\ Placed /\ Reported /\ Reaping

LEMMA Starts == Init => IInv
<1> SUFFICES ASSUME Init PROVE IInv
  OBVIOUS
<1>1. /\ daemonize \in BOOLEAN /\ parent \in BOOLEAN /\ exiting \in BOOLEAN
      /\ reported \in BOOLEAN
  BY DEF Init
<1>2. TypeOK
  BY <1>1, DaemonAssumption DEF Init, TypeOK, Signals, Children
<1>3. Placed /\ Reported /\ Reaping
  BY DEF Init, Placed, Reported, Reaping
<1> QED BY <1>2, <1>3 DEF IInv

-----------------------------------------------------------------------------
(* Steps that leave kill_wait alone: redis, once ended, stays as it is. *)

LEMMA ForkKeeps ==
  ASSUME IInv, redis_init \/ probes_init \/ viz_init
  PROVE  IInv'
<1> USE DEF ForkChild, shutdown
<1>1. TypeOK'
  BY DEF IInv, TypeOK, redis_init, probes_init, viz_init, Children, Signals
<1>2. pc \in {"redis_init", "probes_init", "viz_init"} /\ ~reported /\ stage # "waiting"
  BY DEF IInv, Placed, redis_init, probes_init, viz_init
<1>3. Placed'
  BY <1>2 DEF IInv, TypeOK, Placed, redis_init, probes_init, viz_init, Children
<1>4. Reported' /\ Reaping'
  BY <1>2 DEF IInv, Reported, Reaping, Ended, redis_init, probes_init, viz_init
<1> QED BY <1>1, <1>3, <1>4 DEF IInv

LEMMA StartKeeps ==
  ASSUME IInv, evsignal_add \/ Daemonizes
  PROVE  IInv'
<1> USE DEF shutdown
<1>1. TypeOK'
  <2>1. CASE evsignal_add
    BY <2>1 DEF IInv, TypeOK, evsignal_add
  <2>2. CASE Daemonizes
    <3>1. parent' \in BOOLEAN
      BY <2>2 DEF IInv, TypeOK, Daemonizes
    <3>2. proc' \in [Children -> {"none", "running", "stopping", "zombie", "gone"}]
      BY <2>2 DEF IInv, TypeOK, Daemonizes
    <3>3. /\ pc' = "dispatch"
          /\ UNCHANGED <<daemonize, role, pending, exiting, shutdown, sent>>
      BY <2>2 DEF Daemonizes
    <3> QED BY <3>1, <3>2, <3>3 DEF IInv, TypeOK
  <2> QED BY <2>1, <2>2
<1>2. pc \in {"evsignal_add", "daemonize"} /\ ~reported /\ stage # "waiting"
  BY DEF IInv, Placed, evsignal_add, Daemonizes
<1>3. Placed'
  BY <1>2 DEF IInv, TypeOK, Placed, evsignal_add, Daemonizes, Children
<1>4. Reported' /\ Reaping'
  BY <1>2 DEF IInv, Reported, Reaping, Ended, evsignal_add, Daemonizes
<1> QED BY <1>1, <1>3, <1>4 DEF IInv

LEMMA ChildEndsKeeps ==
  ASSUME IInv, NEW p \in Children, ChildEnds(p)
  PROVE  IInv'
<1> USE DEF shutdown
<1>1. TypeOK'
  BY DEF IInv, TypeOK, ChildEnds, Ends, Children, Signals
<1>2. /\ Ended => proc'["redis"] = proc["redis"]
      /\ proc["redis"] # "none" => proc'["redis"] # "none"
  BY DEF IInv, TypeOK, ChildEnds, Ends, Alive, Ended, Children
<1>3. Placed' /\ Reported' /\ Reaping'
  BY <1>2 DEF IInv, Placed, Reported, Reaping, Ended, ChildEnds
<1> QED BY <1>1, <1>3 DEF IInv

LEMMA SignalKeeps ==
  ASSUME IInv, Interrupt \/ \E sig \in Signals : SignalRoot(sig)
  PROVE  IInv'
<1> USE DEF shutdown
<1>1. CASE Interrupt
  <2>1. TypeOK'
    BY <1>1, DaemonAssumption DEF IInv, TypeOK, Interrupt, Children, Signals, Deadly
  <2>2. /\ Ended => proc'["redis"] = proc["redis"]
        /\ proc["redis"] # "none" => proc'["redis"] # "none"
    BY <1>1 DEF Interrupt, Alive, Ended, Children
  <2>3. Placed' /\ Reported' /\ Reaping'
    BY <1>1, <2>2 DEF IInv, Placed, Reported, Reaping, Ended, Interrupt
  <2> QED BY <2>1, <2>3 DEF IInv
<1>2. CASE \E sig \in Signals : SignalRoot(sig)
  <2>1. TypeOK'
    BY <1>2, DaemonAssumption DEF IInv, TypeOK, SignalRoot
  <2>2. Placed' /\ Reported' /\ Reaping'
    BY <1>2 DEF IInv, Placed, Reported, Reaping, Ended, SignalRoot, Caught
  <2> QED BY <2>1, <2>2 DEF IInv
<1> QED BY <1>1, <1>2

-----------------------------------------------------------------------------
(* kill_wait *)

LEMMA WaitpidKeeps ==
  ASSUME IInv, waitpid
  PROVE  IInv'
<1> USE DEF shutdown
<1>1. TypeOK'
  <2>1. reported' \in BOOLEAN
    BY DEF IInv, TypeOK, waitpid, Reports
  <2>2. /\ stage' \in {"none", "waiting"}
        /\ tries' \in 0..WaitTries
    BY DaemonAssumption DEF IInv, TypeOK, waitpid, Reports
  <2>3. proc' \in [Children -> {"none", "running", "stopping", "zombie", "gone"}]
    BY DEF IInv, TypeOK, waitpid, Children
  <2> QED BY <2>1, <2>2, <2>3 DEF IInv, TypeOK, waitpid
<1>2. stage = "waiting" /\ pc \in {"dispatch", "final"} /\ proc["redis"] # "none"
  BY DEF IInv, Placed, waitpid
<1>3. CASE NoChild /\ Reports /\ UNCHANGED proc
  <2>1. parent => proc["redis"] = "gone"
    BY <1>3 DEF NoChild
  <2> QED
    BY <1>1, <1>2, <1>3, <2>1
       DEF IInv, Placed, Reported, Reaping, Ended, Reports, waitpid
<1>4. CASE /\ ~NoChild
           /\ proc' = [proc EXCEPT !["redis"] = IF @ = "zombie" THEN "gone" ELSE @]
           /\ tries' = tries + 1
           /\ UNCHANGED <<stage, reported>>
  <2>1. /\ proc["redis"] = "zombie" => proc'["redis"] = "gone"
        /\ proc["redis"] # "zombie" => proc'["redis"] = proc["redis"]
    BY <1>4 DEF IInv, TypeOK, Children
  <2> QED
    BY <1>1, <1>2, <1>4, <2>1
       DEF IInv, Placed, Reported, Reaping, Ended, waitpid
<1> QED BY <1>3, <1>4 DEF waitpid

LEMMA KillHardKeeps ==
  ASSUME IInv, kill_hard
  PROVE  IInv'
<1> USE DEF shutdown
<1>1. TypeOK'
  <2>1. /\ reported' \in BOOLEAN
        /\ stage' \in {"none", "waiting"}
    BY DEF IInv, TypeOK, kill_hard
  <2>2. /\ proc' \in [Children -> {"none", "running", "stopping", "zombie", "gone"}]
        /\ pending' \subseteq Signals
    BY DEF IInv, TypeOK, kill_hard, Ends, Children, Signals
  <2> QED BY <2>1, <2>2 DEF IInv, TypeOK, kill_hard
<1>2. stage = "waiting" /\ tries > 0 /\ pc \in {"dispatch", "final"} /\ proc["redis"] # "none"
  BY DaemonAssumption DEF IInv, Placed, kill_hard
<1>3. /\ parent => proc'["redis"] \in {"zombie", "gone"}
      /\ proc["redis"] = "gone" => proc'["redis"] = "gone"
      /\ proc'["redis"] # "none"
  BY <1>2 DEF IInv, TypeOK, kill_hard, Ends, Alive, Children
<1>4. Placed' /\ Reported' /\ Reaping'
  BY <1>2, <1>3 DEF IInv, Placed, Reported, Reaping, Ended, kill_hard
<1> QED BY <1>1, <1>4 DEF IInv

-----------------------------------------------------------------------------
(* The event loop and the end of main *)

LEMMA HandlerKeeps ==
  ASSUME IInv, NEW sig \in Signals, sig_handler(sig)
  PROVE  IInv'
<1> USE DEF shutdown
<1>1. TypeOK'
  <2>1. exiting' \in BOOLEAN /\ reported' \in BOOLEAN
    BY DEF IInv, TypeOK, sig_handler, redis_shutdown
  <2>2. /\ stage' \in {"none", "waiting"}
        /\ tries' \in 0..WaitTries
        /\ pending' \subseteq Signals
    BY DaemonAssumption DEF IInv, TypeOK, sig_handler, redis_shutdown
  <2>3. proc' \in [Children -> {"none", "running", "stopping", "zombie", "gone"}]
    BY DEF IInv, TypeOK, sig_handler, redis_shutdown, Children
  <2> QED BY <2>1, <2>2, <2>3 DEF IInv, TypeOK, sig_handler
<1>2. /\ Ended => proc'["redis"] = proc["redis"]
      /\ proc["redis"] # "none" => proc'["redis"] # "none"
  BY DEF IInv, TypeOK, sig_handler, redis_shutdown, Ended, Children
<1>3. Placed' /\ Reported' /\ Reaping'
  BY <1>2 DEF IInv, Placed, Reported, Reaping, Ended, sig_handler, redis_shutdown
<1> QED BY <1>1, <1>3 DEF IInv

LEMMA EndKeeps ==
  ASSUME IInv, LoopExits \/ Returns
  PROVE  IInv'
<1> USE DEF shutdown
<1>1. TypeOK'
  BY DaemonAssumption DEF IInv, TypeOK, LoopExits, Returns, redis_shutdown, Children, Signals
<1>2. CASE LoopExits
  <2>1. parent => Ended
    BY <1>2 DEF IInv, Reported, LoopExits, redis_shutdown
  <2>2. /\ Ended => proc'["redis"] = proc["redis"]
        /\ proc["redis"] # "none" => proc'["redis"] # "none"
    BY <1>2 DEF IInv, TypeOK, LoopExits, redis_shutdown, Ended, Children
  <2>3. Placed' /\ Reported' /\ Reaping'
    BY <1>2, <2>1, <2>2
       DEF IInv, Placed, Reported, Reaping, Ended, LoopExits, redis_shutdown
  <2> QED BY <1>1, <2>3 DEF IInv
<1>3. CASE Returns
  BY <1>1, <1>3 DEF IInv, Placed, Reported, Reaping, Ended, Returns
<1> QED BY <1>2, <1>3

-----------------------------------------------------------------------------
(* IInv is an invariant of the root process, in both modes. *)
THEOREM Invariance == Safety => []IInv
<1>1. IInv /\ [Next]_vars => IInv'
  <2> SUFFICES ASSUME IInv, [Next]_vars PROVE IInv'
    OBVIOUS
  <2>1. CASE Next
    BY <2>1, ForkKeeps, StartKeeps, ChildEndsKeeps, SignalKeeps, WaitpidKeeps,
       KillHardKeeps, HandlerKeeps, EndKeeps DEF Next
  <2>2. CASE UNCHANGED vars
    BY <2>2 DEF vars, shutdown, IInv, TypeOK, Placed, Reported, Reaping, Ended
  <2> QED BY <2>1, <2>2
<1> QED BY Starts, <1>1, PTL DEF Safety

(* Every variable has its type; above all kill_wait keeps to its turns. *)
THEOREM TypeCorrect == Spec => []TypeOK
<1>1. IInv => TypeOK
  BY DEF IInv
<1> QED BY Invariance, <1>1, PTL DEF Spec

(* The parent of redis says that redis is down only when it is: however    *)
(* signals, the end of redis and the turns of kill_wait interleave.        *)
THEOREM TrueReport == Spec => []ParentReportsTruly
<1>1. IInv => ParentReportsTruly
  BY DEF IInv, Reported, Ended, ParentReportsTruly, Alive
<1> QED BY Invariance, <1>1, PTL DEF Spec

(* The parent of redis returns from main only when redis was waited for,   *)
(* although kill_wait does not wait for a process it had to kill.          *)
THEOREM Reaped == Spec => []RedisIsReaped
<1>1. IInv => RedisIsReaped
  <2> SUFFICES ASSUME IInv, parent, pc = "exited" PROVE proc["redis"] = "gone"
    BY DEF RedisIsReaped
  <2>1. stage = "none"
    BY DEF IInv, TypeOK, Placed
  <2> QED BY <2>1 DEF IInv, Reaping
<1> QED BY Invariance, <1>1, PTL DEF Spec

-----------------------------------------------------------------------------
(* GGServer                                                                *)
(*                                                                         *)
(* The invariants together are inductive: a new id is fresh because all    *)
(* ids are below user_id_count (ServerTypeOK), and a new address is        *)
(* because user_find found nothing.                                        *)

(* The inductive invariant. *)
ServerIInv ==
  /\ ServerTypeOK
  /\ OneUserPerAddress
  /\ UsersCounted
  /\ HandledForSender
  /\ IdsNeverReused

(* addrcmp tells addresses apart: what user_find relies on. *)
LEMMA AddressesCompared ==
  ASSUME NEW a \in Addr, NEW b \in Addr
  PROVE  addrcmp(a, b) = 0 <=> a = b
<1>1. a.ip = b.ip /\ a.port = b.port <=> a = b  BY DEF Addr
<1>2. CASE a.ip # b.ip  BY <1>1, <1>2 DEF addrcmp
<1>3. CASE a.ip = b.ip /\ a.port # b.port  BY <1>1, <1>3 DEF addrcmp
<1>4. CASE a.ip = b.ip /\ a.port = b.port  BY <1>1, <1>4 DEF addrcmp
<1> QED  BY <1>2, <1>3, <1>4

(* The server starts with no user (gg_server_start). *)
LEMMA ServerStarts == ServerInit => ServerIInv
<1> SUFFICES ASSUME ServerInit PROVE ServerIInv  OBVIOUS
<1>1. IsFiniteSet({}) /\ Cardinality({}) = 0  BY FS_EmptySet
<1>2. ServerTypeOK
  <2>1. handle_packet \in BOOLEAN  BY DEF ServerInit
  <2>2. user_id_count \in 0..MaxUsers  BY GGServerAssumption DEF ServerInit
  <2> QED  BY <1>1, <2>1, <2>2 DEF ServerInit, ServerTypeOK
<1>3. OneUserPerAddress /\ HandledForSender /\ IdsNeverReused
  BY DEF ServerInit, OneUserPerAddress, HandledForSender, IdsNeverReused
<1>4. UsersCounted  BY <1>1 DEF ServerInit, UsersCounted
<1> QED  BY <1>2, <1>3, <1>4 DEF ServerIInv

(* What is sent only adds to what may have been handled. *)
LEMMA SendIInv ==
  ASSUME ServerIInv, NEW d \in Datagram, Send(d)
  PROVE  ServerIInv'
<1>1. ServerTypeOK'  BY DEF ServerIInv, ServerTypeOK, Send
<1>2. OneUserPerAddress' /\ UsersCounted' /\ IdsNeverReused'
  BY DEF ServerIInv, Send, OneUserPerAddress, UsersCounted, IdsNeverReused
<1>3. HandledForSender'  BY DEF ServerIInv, HandledForSender, Send
<1> QED  BY <1>1, <1>2, <1>3 DEF ServerIInv

(* A new user: its address was unknown and its id is above all others. *)
LEMMA HelloIInv ==
  ASSUME ServerIInv, NEW d \in Datagram, Hello(d)
  PROVE  ServerIInv'
<1> DEFINE new == [id |-> user_id_count, addr |-> d.from]
<1>1. /\ user_list' = user_list \cup {new}
      /\ user_count' = user_count + 1
      /\ user_id_count' = user_id_count + 1
      /\ user_id_count < MaxUsers
      /\ UNCHANGED <<phase, handle_packet, datagrams, handled>>
  BY DEF Hello, user_add
<1>2. new \in User
  <2>1. MaxUsers \in Nat /\ IntMax \in Nat /\ MaxUsers <= IntMax
    BY GGServerAssumption DEF IntMax
  <2>2. user_id_count \in 0..MaxUsers  BY DEF ServerIInv, ServerTypeOK
  <2>3. user_id_count \in 0..IntMax  BY <2>1, <2>2
  <2>4. d.from \in Addr  BY DEF Datagram
  <2> QED  BY <2>3, <2>4 DEF User
<1>3. \A u \in user_list : u.addr # d.from
  <2> SUFFICES ASSUME NEW u \in user_list, u.addr = d.from PROVE FALSE  OBVIOUS
  <2>1. u.addr \in Addr /\ d.from \in Addr  BY DEF ServerIInv, ServerTypeOK, User, Datagram
  <2>2. addrcmp(u.addr, d.from) = 0  BY <2>1, AddressesCompared
  <2> QED  BY <2>2 DEF Hello, user_find
<1>4. \A u \in user_list : u.id < user_id_count /\ u.id \in Nat  BY DEF ServerIInv, ServerTypeOK, User
<1>5. new \notin user_list  BY <1>3
<1>6. ServerTypeOK'
  <2>1. IsFiniteSet(user_list')  BY <1>1, FS_AddElement DEF ServerIInv, ServerTypeOK
  <2>2. user_id_count' \in 0..MaxUsers
    BY <1>1, GGServerAssumption DEF ServerIInv, ServerTypeOK
  <2>3. \A u \in user_list' : u.id < user_id_count'
    BY <1>1, <1>4, GGServerAssumption DEF ServerIInv, ServerTypeOK
  <2>4. \A h \in handled' : h.user.id < user_id_count'
    <3>1. \A h \in handled : h.user.id < user_id_count /\ h.user.id \in Nat
      BY DEF ServerIInv, ServerTypeOK, User
    <3> QED  BY <1>1, <3>1, GGServerAssumption DEF ServerIInv, ServerTypeOK
  <2> QED  BY <1>1, <1>2, <2>1, <2>2, <2>3, <2>4 DEF ServerIInv, ServerTypeOK
<1>7. OneUserPerAddress'
  BY <1>1, <1>3, <1>4, GGServerAssumption DEF ServerIInv, OneUserPerAddress, ServerTypeOK
<1>8. UsersCounted'
  <2>1. Cardinality(user_list \cup {new}) = Cardinality(user_list) + 1
    BY <1>5, FS_AddElement DEF ServerIInv, ServerTypeOK
  <2> QED  BY <1>1, <2>1 DEF ServerIInv, UsersCounted
<1>9. HandledForSender'  BY <1>1 DEF ServerIInv, HandledForSender
<1>10. IdsNeverReused'
  <2>1. \A h \in handled : h.user.id < user_id_count /\ h.user.id \in Nat
    BY DEF ServerIInv, ServerTypeOK, User
  <2> QED  BY <1>1, <2>1, GGServerAssumption DEF ServerIInv, IdsNeverReused, ServerTypeOK
<1> QED  BY <1>6, <1>7, <1>8, <1>9, <1>10 DEF ServerIInv

(* A user that goes leaves its id to nobody. *)
LEMMA GoodbyeIInv ==
  ASSUME ServerIInv, NEW d \in Datagram, Goodbye(d)
  PROVE  ServerIInv'
<1>1. PICK usr \in user_list :
        /\ user_list' = user_list \ {usr}
        /\ user_count' = user_count - 1
  BY DEF Goodbye, user_find, user_del
<1>2. UNCHANGED <<phase, handle_packet, user_id_count, datagrams, handled>>  BY DEF Goodbye
<1>3. /\ IsFiniteSet(user_list \ {usr})
      /\ Cardinality(user_list \ {usr}) = Cardinality(user_list) - 1
  BY FS_RemoveElement DEF ServerIInv, ServerTypeOK
<1>4. UsersCounted'  BY <1>1, <1>3 DEF ServerIInv, UsersCounted
<1>5. user_count' \in Nat
  BY <1>1, <1>3, <1>4, FS_CardinalityType DEF UsersCounted
<1>6. ServerTypeOK'  BY <1>1, <1>2, <1>3, <1>5 DEF ServerIInv, ServerTypeOK
<1>7. OneUserPerAddress' /\ HandledForSender' /\ IdsNeverReused'
  BY <1>1, <1>2 DEF ServerIInv, OneUserPerAddress, HandledForSender, IdsNeverReused
<1> QED  BY <1>4, <1>6, <1>7 DEF ServerIInv

(* Packets are handled for the user with the address of their sender. *)
LEMMA PacketsIInv ==
  ASSUME ServerIInv, NEW d \in Datagram, PacketsArrive(d)
  PROVE  ServerIInv'
<1>1. PICK usr \in user_find(d.from) :
        \/ handled' = handled
        \/ handled' = handled \cup [user : {usr}, packet : d.packets]
  BY DEF PacketsArrive
<1>2. /\ d \in datagrams
      /\ UNCHANGED <<phase, handle_packet, user_list, user_count, user_id_count, datagrams>>
  BY DEF PacketsArrive
<1>3. usr \in user_list /\ usr \in User /\ usr.addr = d.from
  <2>1. usr \in user_list /\ addrcmp(usr.addr, d.from) = 0  BY DEF user_find
  <2>2. usr \in User  BY <2>1 DEF ServerIInv, ServerTypeOK
  <2>3. usr.addr \in Addr /\ d.from \in Addr  BY <2>2 DEF User, Datagram
  <2> QED  BY <2>1, <2>2, <2>3, AddressesCompared
<1>4. d.packets \subseteq Packets  BY DEF Datagram
<1>5. ServerTypeOK'
  BY <1>1, <1>2, <1>3, <1>4 DEF ServerIInv, ServerTypeOK
<1>6. OneUserPerAddress' /\ UsersCounted'
  BY <1>2 DEF ServerIInv, OneUserPerAddress, UsersCounted
<1>7. HandledForSender'  BY <1>1, <1>2, <1>3 DEF ServerIInv, HandledForSender
<1>8. IdsNeverReused'
  BY <1>1, <1>2, <1>3 DEF ServerIInv, IdsNeverReused, OneUserPerAddress
<1> QED  BY <1>5, <1>6, <1>7, <1>8 DEF ServerIInv

(* The last users go together (gg_server_stop). *)
LEMMA StopIInv ==
  ASSUME ServerIInv, gg_server_stop
  PROVE  ServerIInv'
<1>1. IsFiniteSet({}) /\ Cardinality({}) = 0  BY FS_EmptySet
<1>2. user_count' = 0  BY FS_CardinalityType DEF ServerIInv, ServerTypeOK, UsersCounted, gg_server_stop
<1>3. ServerTypeOK'  BY <1>1, <1>2 DEF ServerIInv, ServerTypeOK, gg_server_stop
<1>4. OneUserPerAddress' /\ HandledForSender' /\ IdsNeverReused'
  BY DEF ServerIInv, OneUserPerAddress, HandledForSender, IdsNeverReused, gg_server_stop
<1>5. UsersCounted'  BY <1>1, <1>2 DEF UsersCounted, gg_server_stop
<1> QED  BY <1>3, <1>4, <1>5 DEF ServerIInv

(* Every step keeps the invariant. *)
LEMMA ServerKeeps == ServerIInv /\ [ServerNext]_serverVars => ServerIInv'
<1> SUFFICES ASSUME ServerIInv, [ServerNext]_serverVars PROVE ServerIInv'  OBVIOUS
<1>1. CASE gg_server_start
  BY <1>1 DEF gg_server_start, ServerIInv, ServerTypeOK, OneUserPerAddress, UsersCounted,
              HandledForSender, IdsNeverReused
<1>2. ASSUME NEW d \in Datagram, Send(d) PROVE ServerIInv'  BY <1>2, SendIInv
<1>3. ASSUME NEW d \in Datagram, cb_srv_receive(d) PROVE ServerIInv'
  <2>1. CASE Hello(d)  BY <2>1, HelloIInv
  <2>2. CASE HelloFails(d)
    BY <2>2 DEF HelloFails, ServerIInv, ServerTypeOK, OneUserPerAddress, UsersCounted,
                HandledForSender, IdsNeverReused
  <2>3. CASE Goodbye(d)  BY <2>3, GoodbyeIInv
  <2>4. CASE PacketsArrive(d)  BY <2>4, PacketsIInv
  <2> QED  BY <1>3, <2>1, <2>2, <2>3, <2>4 DEF cb_srv_receive
<1>4. CASE gg_server_stop  BY <1>4, StopIInv
<1>5. CASE UNCHANGED serverVars
  BY <1>5 DEF serverVars, ServerIInv, ServerTypeOK, OneUserPerAddress, UsersCounted,
              HandledForSender, IdsNeverReused
<1> QED  BY <1>1, <1>2, <1>3, <1>4, <1>5 DEF ServerNext

-----------------------------------------------------------------------------
(* The inductive invariant holds in every reachable state. *)
THEOREM ServerInvariance == ServerSpec => []ServerIInv
<1> QED  BY ServerStarts, ServerKeeps, PTL DEF ServerSpec

(* An address is one user at most and ids are unique, for any number of    *)
(* addresses and any network (user_add, user_del). *)
THEOREM UsersAreUnique == ServerSpec => []OneUserPerAddress
<1>1. ServerIInv => OneUserPerAddress  BY DEF ServerIInv
<1> QED  BY <1>1, ServerInvariance, PTL

(* The list stays finite, and every id in use below user_id_count.         *)
THEOREM ServerTypeCorrect == ServerSpec => []ServerTypeOK
<1>1. ServerIInv => ServerTypeOK  BY DEF ServerIInv
<1> QED  BY <1>1, ServerInvariance, PTL

(* user_count is the length of the list. *)
THEOREM CountIsLength == ServerSpec => []UsersCounted
<1>1. ServerIInv => UsersCounted  BY DEF ServerIInv
<1> QED  BY <1>1, ServerInvariance, PTL

(* Packets are handled for who sent them. *)
THEOREM PacketsAreAttributed == ServerSpec => []HandledForSender
<1>1. ServerIInv => HandledForSender  BY DEF ServerIInv
<1> QED  BY <1>1, ServerInvariance, PTL

(* An id stands for one address for ever. *)
THEOREM IdsAreForEver == ServerSpec => []IdsNeverReused
<1>1. ServerIInv => IdsNeverReused  BY DEF ServerIInv
<1> QED  BY <1>1, ServerInvariance, PTL
=============================================================================
