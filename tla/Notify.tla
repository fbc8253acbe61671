------------------------------- MODULE Notify --------------------------------
(***************************************************************************)
(* What viz makes of one reply on its subscription: the head of            *)
(* _redis_cb_notification (viz.c), which calls                             *)
(* redis_parse_keyspace_notification (redis.c) to cut the channel of an    *)
(* event into its parts with strtok.  Viz.tla takes an event for what      *)
(* Redis published; this module is why it may.                             *)
(*                                                                         *)
(* A text is a sequence of characters.  The outputs of the parser are      *)
(* local variables of the callback, Garbage until they are set.  NULL is   *)
(* the empty text, as strtok never returns an empty token.                 *)
(***************************************************************************)
EXTENDS Integers, Sequences, FiniteSetsExt, SequencesExt

CONSTANTS
  Letters,   \* characters of names, other than "_"
  MaxName,   \* bound of the model: length of the name of an operation
  Targets    \* keys

NameRoom == 64   \* the static buffers of the parser, with the end of the text

(* The parser copies names without looking at their length; names that do  *)
(* not fit are beyond the model.                                           *)
ASSUME NotifyAssumption ==
  /\ Letters \cap {"_", "@", ":"} = {}
  /\ MaxName \in Nat \ {0} /\ MaxName < NameRoom

NULL == <<>>
Garbage == <<"garbage">>

VARIABLES
  reply,    \* the reply handled last
  outputs,  \* what the parser set: pointers and the number of the database
  verdict   \* "none", "skipped", "unparsable", "ignored", "event"

vars == <<reply, outputs, verdict>>

-----------------------------------------------------------------------------
(* Replies (external: Redis and hiredis) *)

Digits == <<"0", "1", "2", "3", "4", "5", "6", "7", "8", "9">>

Decimal(n) ==
  IF n < 10 THEN <<Digits[n + 1]>> ELSE <<Digits[(n \div 10) + 1], Digits[(n % 10) + 1]>>

Databases == 0..15   \* "databases 16" (redis.c:49)

(* Names have "_" in them: rename_from. *)
Operations == UNION {[1..n -> Letters \cup {"_"}] : n \in 1..MaxName}

Text(t) == [type |-> "string", str |-> t]

Event(db, op, target) ==
  [type |-> "array",
   element |-> <<Text(<<"pmessage">>), Text(<<"pattern">>),
                 Text(<<"_", "_", "keyevent", "@">> \o Decimal(db)
                        \o <<"_", "_", ":">> \o op),
                 Text(target)>>]

Confirmation ==
  [type |-> "array",
   element |-> <<Text(<<"psubscribe">>), Text(<<"pattern">>),
                 [type |-> "integer", str |-> NULL]>>]

Failure == [type |-> "error", element |-> <<>>]

(* hiredis calls back with a null pointer when the connection is lost. *)
Lost == [type |-> "NULL", element |-> <<>>]

-----------------------------------------------------------------------------
(* redis_parse_keyspace_notification *)

(* Delimiters are skipped, the token ends before the next one, and the     *)
(* next search begins after that. *)
strtok(text, from, delimiters) ==
  LET start == Min({i \in from..Len(text) : text[i] \notin delimiters}
                     \cup {Len(text) + 1})
      end == Min({i \in start..Len(text) : text[i] \in delimiters}
                   \cup {Len(text) + 1})
  IN [token |-> SubSeq(text, start, end - 1), next |-> end + 1]

ValueOf(c) == (CHOOSE i \in DOMAIN Digits : Digits[i] = c) - 1

(* atoi stops at the first character that is no digit. *)
atoi(text) ==
  LET end == SelectInSeq(text, LAMBDA c : c \notin ToSet(Digits))
  IN FoldLeft(LAMBDA value, c : 10 * value + ValueOf(c), 0,
              IF end = 0 THEN text ELSE SubSeq(text, 1, end - 1))

(* Seeded bug: the operation, too, is cut at "_". *)
OperationFromCut(text, from) == strtok(text, strtok(text, from, {":"}).next, {"_"}).token

(* The second "_" of the channel is a token of its own, then the rest. *)
OperationFrom(text, from) == strtok(text, strtok(text, from, {":"}).next, {}).token

(* The number of elements, when every strtok found a token, or an error:   *)
(* -5 is not told from -6 here, and -4 needs a number below 0.             *)
Parsed(element) ==
  LET channel == element[3].str
      type == strtok(channel, 3, {"@"})
      db == strtok(channel, type.next, {"_"})
      op == OperationFrom(channel, db.next)
      target == IF Len(element) > 3 THEN element[4].str ELSE NULL
  IN IF element[3].type # "string"
     THEN [result |-> Len(element),
           outputs |-> [event_type |-> NULL, db |-> -1, op |-> NULL, target |-> target]]
     ELSE [result |-> CASE db.token = NULL -> -3
                        [] op = NULL -> -6
                        [] OTHER -> Len(element),
           outputs |-> [event_type |-> type.token, db |-> atoi(db.token),
                        op |-> op, target |-> target]]

Unset == [event_type |-> Garbage, db |-> -2, op |-> Garbage, target |-> Garbage]

redis_parse_keyspace_notification(r) ==
  CASE r.type # "array" -> [result |-> -1, outputs |-> Unset]
    [] r.type = "array" /\ r.element = <<>> -> [result |-> -2, outputs |-> Unset]
    [] OTHER -> Parsed(r.element)

-----------------------------------------------------------------------------
(* _redis_cb_notification, up to the loop over the modules *)

(* Seeded bug: only errors are told from events. *)
VerdictLenient(result) == IF result < 0 THEN "unparsable" ELSE "event"

Verdict(result) ==
  CASE result < 0 -> "unparsable"
    [] result \in 0..3 -> "ignored"
    [] OTHER -> "event"

Init ==
  /\ reply = Lost
  /\ outputs = Unset
  /\ verdict = "none"

Handle(r) ==
  /\ reply' = r
  /\ \/ /\ r = Lost
        /\ outputs' = Unset
        /\ verdict' = "skipped"
     \/ /\ r # Lost
        /\ LET parsed == redis_parse_keyspace_notification(r)
           IN /\ outputs' = parsed.outputs
              /\ verdict' = Verdict(parsed.result)

Next ==
  \/ \E db \in Databases, op \in Operations, target \in Targets :
       Handle(Event(db, op, target))
  \/ Handle(Confirmation) \/ Handle(Failure) \/ Handle(Lost)

Spec == Init /\ [][Next]_vars

-----------------------------------------------------------------------------
(* Properties *)

(* The event viz acts on is the one Redis published, whatever "_" the name *)
(* of the operation has in it and however many digits the database has.    *)
EventsAreRead ==
  verdict = "event" =>
    /\ reply = Event(outputs.db, outputs.op, outputs.target)
    /\ outputs.event_type = <<"keyevent">>

(* Every event is acted on, and nothing else is: no confirmation, error or *)
(* lost connection reaches the modules with outputs nobody set.            *)
OnlyEventsPass ==
  (verdict = "event") <=>
    (reply.type = "array" /\ Len(reply.element) = 4)
=============================================================================
