------------------------------- MODULE Daemon -------------------------------
(***************************************************************************)
(* The root process of glougloud: it forks redis, the probes server and    *)
(* the viz server (glougloud.c, and the parents' side of redis.c, probes.c *)
(* and viz.c), may fork once more to become a daemon, waits for signals,   *)
(* and stops redis with kill_wait (libglouglou/utils.c) before it ends.    *)
(*                                                                         *)
(* Only root stops redis.  A process is "running", "stopping" once it was  *)
(* told to terminate, "zombie" when it ended and its parent has not waited *)
(* for it, "gone" when nothing is left of it.  Init (process 1) reaps the  *)
(* children root is not the parent of.                                     *)
(***************************************************************************)
EXTENDS Integers

CONSTANTS
  WaitTries,   \* turns of the loop of kill_wait: 10
  MaxSignals   \* bound of the model: signals sent to root

ASSUME DaemonAssumption ==
  /\ WaitTries \in Nat \ {0}
  /\ MaxSignals \in Nat

Children == {"redis", "probes", "viz"}
Deadly == {"TERM", "INT"}                \* sig_handler shuts down on these
Signals == Deadly \cup {"HUP", "CHLD"}

VARIABLES
  daemonize,\* set unless the option -D is given
  pc,       \* where root is in main()
  role,     \* the program root runs: itself, or that of a child
  parent,   \* root is the parent of the three others
  proc,     \* state of each child
  pending,  \* signals caught by libevent, their callback not run yet
  exiting,  \* event_base_loopexit was called
  stage,    \* of kill_wait: "none" outside, "waiting" in its loop
  tries,    \* turns of its loop done
  reported, \* history: "redis shutdown ok" was logged
  sent      \* signals sent so far, bounded by MaxSignals

shutdown == <<stage, tries, reported>>
vars == <<daemonize, pc, role, parent, proc, pending, exiting, shutdown, sent>>

Init ==
  /\ daemonize \in BOOLEAN
  /\ pc = "redis_init"
  /\ role = "root"
  /\ parent = TRUE
  /\ proc = [p \in Children |-> "none"]
  /\ pending = {}
  /\ exiting = FALSE
  /\ stage = "none"
  /\ tries = 0
  /\ reported = FALSE
  /\ sent = 0

Alive(p) == proc[p] \in {"running", "stopping"}

-----------------------------------------------------------------------------
(* Start *)

(* The parent's side of an init function returns 0, and main goes on.  A   *)
(* fork that fails is not told from the child's side: root itself goes on  *)
(* as the child.                                                           *)
ForkChild(here, child, next) ==
  /\ pc = here
  /\ \/ /\ proc' = [proc EXCEPT ![child] = "running"]
        /\ pc' = next
        /\ UNCHANGED role
     \/ /\ role' = child
        /\ pc' = "child"
        /\ UNCHANGED proc
  /\ UNCHANGED <<daemonize, parent, pending, exiting, shutdown, sent>>

redis_init == ForkChild("redis_init", "redis", "probes_init")
probes_init == ForkChild("probes_init", "probes", "viz_init")
viz_init == ForkChild("viz_init", "viz", "evsignal_add")

evsignal_add ==
  /\ pc = "evsignal_add"
  /\ pc' = "daemonize"
  /\ UNCHANGED <<daemonize, role, parent, proc, pending, exiting, shutdown, sent>>

(* The process that goes on is a child of the one that forked the others,  *)
(* which returns and leaves them to Init; if the fork fails it goes on as  *)
(* their parent.                                                           *)
Daemonizes ==
  /\ pc = "daemonize"
  /\ \/ /\ daemonize
        /\ parent' = FALSE
        /\ proc' = [p \in Children |->
                      IF proc[p] = "zombie" THEN "gone" ELSE proc[p]]
     \/ UNCHANGED <<parent, proc>>
  /\ pc' = "dispatch"
  /\ UNCHANGED <<daemonize, role, pending, exiting, shutdown, sent>>

-----------------------------------------------------------------------------
(* Children and signals (external) *)

Caught == pc \in {"daemonize", "dispatch", "final"}

(* A child that ends: its parent is told, Init cleans up at once. *)
Ends(p) ==
  /\ proc' = [proc EXCEPT ![p] = IF parent THEN "zombie" ELSE "gone"]
  /\ pending' = IF parent /\ Caught THEN pending \cup {"CHLD"} ELSE pending

(* redis exits when it has saved, or fails; the others may fail. *)
ChildEnds(p) ==
  /\ Alive(p)
  /\ Ends(p)
  /\ UNCHANGED <<daemonize, pc, role, parent, exiting, shutdown, sent>>

(* Before evsignal_add the default action is taken, and SIGCHLD has none.  *)
SignalRoot(sig) ==
  /\ sent < MaxSignals
  /\ sent' = sent + 1
  /\ \/ /\ Caught
        /\ pending' = pending \cup {sig}
        /\ UNCHANGED pc
     \/ /\ pc \in {"redis_init", "probes_init", "viz_init", "evsignal_add"}
        /\ sig # "CHLD"
        /\ pc' = "killed"
        /\ UNCHANGED pending
  /\ UNCHANGED <<daemonize, role, parent, proc, exiting, shutdown>>

(* Interrupting the terminal signals every process in the foreground. *)
Interrupt ==
  /\ ~daemonize \/ pc = "daemonize"
  /\ Caught
  /\ sent < MaxSignals
  /\ sent' = sent + 1
  /\ proc' = [p \in Children |->
                IF ~Alive(p) THEN proc[p]
                ELSE IF p = "redis" THEN "stopping" ELSE "zombie"]
  /\ pending' = pending \cup {"INT", "CHLD"}
  /\ UNCHANGED <<daemonize, pc, role, parent, exiting, shutdown>>

-----------------------------------------------------------------------------
(* redis_shutdown and kill_wait *)

(* SIGTERM to redis, if its pid still names it, and the loop begins. *)
redis_shutdown ==
  /\ stage = "none"
  /\ proc' = [proc EXCEPT !["redis"] = IF @ = "running" THEN "stopping" ELSE @]
  /\ stage' = "waiting"
  /\ tries' = 0
  /\ UNCHANGED reported

(* kill_wait returns and redis_shutdown logs that redis is down. *)
Reports ==
  /\ stage' = "none"
  /\ reported' = TRUE
  /\ UNCHANGED tries

(* waitpid(WNOHANG) has no such child, finds it ended, or finds it alive. *)
NoChild == ~parent \/ proc["redis"] = "gone"

(* Seeded bug: the turns of the loop are not counted. *)
waitpid_uncounted ==
  /\ stage = "waiting"
  /\ tries < WaitTries
  /\ \/ NoChild /\ Reports /\ UNCHANGED proc
     \/ /\ ~NoChild
        /\ proc' = [proc EXCEPT !["redis"] = IF @ = "zombie" THEN "gone" ELSE @]
        /\ UNCHANGED shutdown
  /\ UNCHANGED <<daemonize, pc, role, parent, pending, exiting, sent>>

(* Seeded bug: the loop also returns when waitpid finds redis alive. *)
waitpid_impatient ==
  /\ stage = "waiting"
  /\ tries < WaitTries
  /\ Reports
  /\ proc' = [proc EXCEPT !["redis"] = IF @ = "zombie" THEN "gone" ELSE @]
  /\ UNCHANGED <<daemonize, pc, role, parent, pending, exiting, sent>>

waitpid ==
  /\ stage = "waiting"
  /\ tries < WaitTries
  /\ \/ NoChild /\ Reports /\ UNCHANGED proc
     \/ /\ ~NoChild
        /\ proc' = [proc EXCEPT !["redis"] = IF @ = "zombie" THEN "gone" ELSE @]
        /\ tries' = tries + 1
        /\ UNCHANGED <<stage, reported>>
  /\ UNCHANGED <<daemonize, pc, role, parent, pending, exiting, sent>>

(* Seeded bug: the turn after the last one is counted too. *)
kill_hard_again ==
  /\ stage = "waiting"
  /\ tries = WaitTries
  /\ IF Alive("redis") THEN Ends("redis") ELSE UNCHANGED <<proc, pending>>
  /\ tries' = tries + 1
  /\ stage' = "none"
  /\ reported' = TRUE
  /\ UNCHANGED <<daemonize, pc, role, parent, exiting, sent>>

(* After the last turn SIGKILL goes to the pid, whatever the last waitpid  *)
(* found; one second later the function returns. *)
kill_hard ==
  /\ stage = "waiting"
  /\ tries = WaitTries
  /\ IF Alive("redis") THEN Ends("redis") ELSE UNCHANGED <<proc, pending>>
  /\ stage' = "none"
  /\ reported' = TRUE
  /\ UNCHANGED <<daemonize, pc, role, parent, exiting, tries, sent>>

-----------------------------------------------------------------------------
(* The event loop *)

(* The callback of a deadly signal: viz_shutdown and probes_shutdown have  *)
(* nothing to do in root, redis_shutdown blocks, then the loop is told to  *)
(* exit.  Callbacks already due still run.                                 *)
sig_handler(sig) ==
  /\ pc = "dispatch"
  /\ sig \in pending
  /\ pending' = pending \ {sig}
  /\ IF sig \in Deadly
     THEN redis_shutdown /\ exiting' = TRUE
     ELSE stage = "none" /\ UNCHANGED <<proc, shutdown, exiting>>
  /\ UNCHANGED <<daemonize, pc, role, parent, sent>>

(* Seeded bug: main returns without shutting down once more. *)
LoopExitsAtOnce ==
  /\ pc = "dispatch"
  /\ exiting
  /\ stage = "none"
  /\ pc' = "final"
  /\ UNCHANGED <<daemonize, role, parent, proc, pending, exiting, shutdown, sent>>

(* main shuts everything down once more. *)
LoopExits ==
  /\ pc = "dispatch"
  /\ exiting
  /\ redis_shutdown
  /\ pc' = "final"
  /\ UNCHANGED <<daemonize, role, parent, pending, exiting, sent>>

Returns ==
  /\ pc = "final"
  /\ stage = "none"
  /\ pc' = "exited"
  /\ UNCHANGED <<daemonize, role, parent, proc, pending, exiting, shutdown, sent>>

Next ==
  \/ redis_init \/ probes_init \/ viz_init \/ evsignal_add \/ Daemonizes
  \/ \E p \in Children : ChildEnds(p)
  \/ \E sig \in Signals : SignalRoot(sig)
  \/ Interrupt
  \/ waitpid \/ kill_hard
  \/ \E sig \in Signals : sig_handler(sig)
  \/ LoopExits \/ Returns

Safety == Init /\ [][Next]_vars

(* Root is scheduled and its system calls return.  Nothing is assumed of   *)
(* the children: redis may never obey SIGTERM.                             *)
Fairness ==
  /\ WF_vars(redis_init \/ probes_init \/ viz_init \/ evsignal_add \/ Daemonizes)
  /\ WF_vars(waitpid) /\ WF_vars(kill_hard)
  /\ \A sig \in Signals : WF_vars(sig_handler(sig))
  /\ WF_vars(LoopExits) /\ WF_vars(Returns)

Spec == Safety /\ Fairness

-----------------------------------------------------------------------------
(* Properties *)

(* Every variable has its type, and kill_wait does not exceed its turns.   *)
TypeOK ==
  /\ daemonize \in BOOLEAN
  /\ pc \in {"redis_init", "probes_init", "viz_init", "evsignal_add",
             "daemonize", "dispatch", "final", "exited", "killed", "child"}
  /\ role \in {"root"} \cup Children
  /\ parent \in BOOLEAN
  /\ proc \in [Children -> {"none", "running", "stopping", "zombie", "gone"}]
  /\ pending \subseteq Signals
  /\ exiting \in BOOLEAN
  /\ stage \in {"none", "waiting"}
  /\ tries \in 0..WaitTries
  /\ reported \in BOOLEAN
  /\ sent \in 0..MaxSignals

(* When root is the parent of redis, "redis shutdown ok" (redis.c:70) is   *)
(* true: whether redis obeyed at once, late, or had to be killed.          *)
ParentReportsTruly == (parent /\ reported) => ~Alive("redis")

(* When root is the parent of redis and returns from main, redis has been  *)
(* waited for, even if it had to be killed, which kill_wait does not wait  *)
(* for: the second shutdown of glougloud.c:123-125 does.                   *)
RedisIsReaped == (parent /\ pc = "exited") => proc["redis"] = "gone"

(* A deadly signal ends root in a bounded time, whatever redis does.       *)
DeadlySignalEndsRoot ==
  (pc = "dispatch" /\ pending \cap Deadly # {}) ~> (pc = "exited")

-----------------------------------------------------------------------------
(* What the code, its messages and its documentation say, and is not so *)

(* "redis shutdown ok" (redis.c:70), in every mode.                        *)
ReportsTruly == reported => ~Alive("redis")
=============================================================================
