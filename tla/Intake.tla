------------------------------- MODULE Intake -------------------------------
(***************************************************************************)
(* A message enters: handle_text_message of bot/feishu_bot.py and what it  *)
(* does first, for both values of TASK_QUEUE_BACKEND.  With "local" the    *)
(* message is appended to the write-ahead log of its space (core/wal.py);  *)
(* with "redis_streams" apps/receiver.py guards receive_command with an    *)
(* idempotency key in Redis.  Feishu delivers a message until some         *)
(* delivery is acknowledged, which is when the event handler returns: it   *)
(* swallows every exception, so it always does unless the process dies.    *)
(*                                                                         *)
(* One space.  The log is a sequence of messages, in which each is kept    *)
(* once; with "redis_streams" it stands for the inbox table, and what      *)
(* happens to a row is the subject of TaskPipeline.                        *)
(***************************************************************************)
EXTENDS Naturals, Sequences, FiniteSets

CONSTANTS
  Message,       \* messages that ask for a note
  Sensitive,     \* sets of messages whose text may not be stored, to choose from
  Handler,       \* threads and processes that handle events
  Backend,       \* the values of TASK_QUEUE_BACKEND that are checked
  MaxEvents,     \* bound: duplicates, failures and crashes in one execution
  None           \* no message, no holder

ASSUME IntakeAssumption ==
  /\ Sensitive \subseteq SUBSET Message
  /\ Handler # {}
  /\ Backend \subseteq {"local", "redis_streams"}
  /\ MaxEvents \in Nat
  /\ None \notin Message

VARIABLES
  backend,       \* TASK_QUEUE_BACKEND
  sensitive,     \* messages whose text may not be stored
  log,           \* the write-ahead log, or the inbox: messages in order
  status,        \* status[m]: of the record of m
  readable,      \* the log file can be parsed
  key,           \* key[m]: idempotency key of m in Redis
  handler,       \* handler[h]: the event that h handles
  acked,         \* messages Feishu delivers no more
  events,        \* duplicates, failures and crashes so far
  excused        \* history: messages lost in a way the code does not guard against

entry == <<key, handler, acked>>
intakeVars == <<backend, sensitive, log, status, readable, key, handler, acked, events, excused>>

Elements(s) == {s[i] : i \in DOMAIN s}
Logged == Elements(log)
Unhandled == [pc |-> "idle", message |-> None, keyed |-> FALSE]

IntakeTypeOK ==
  /\ backend \in Backend
  /\ sensitive \in Sensitive
  /\ log \in Seq(Message)
  /\ status \in [Message -> {"none", "pending", "processed", "blocked_sensitive"}]
  /\ readable \in BOOLEAN
  /\ key \in [Message -> {"none", "processing", "completed", "failed"}]
  /\ handler \in [Handler -> [pc: {"idle", "append", "submit", "get", "begin", "insert",
                                   "complete", "raised"},
                              message: Message \cup {None}, keyed: BOOLEAN]]
  /\ acked \subseteq Message
  /\ events \in 0..MaxEvents
  /\ excused \subseteq Message

IntakeInit ==
  /\ backend \in Backend
  /\ sensitive \in Sensitive
  /\ log = <<>>
  /\ status = [m \in Message |-> "none"]
  /\ readable = TRUE
  /\ key = [m \in Message |-> "none"]
  /\ handler = [h \in Handler |-> Unhandled]
  /\ acked = {}
  /\ events = 0
  /\ excused = {}

Event == events < MaxEvents /\ events' = events + 1
Handling(m) == {h \in Handler : handler[h].message = m}
In(h, pc) == handler[h].pc = pc
Continues(h, pc) == handler' = [handler EXCEPT ![h].pc = pc] /\ UNCHANGED acked
(* The event handler returns, and the event is acknowledged.                *)
Returns(h) == /\ handler' = [handler EXCEPT ![h] = Unhandled]
              /\ acked' = acked \cup {handler[h].message}
(* The handler raised, and do_p2_im_message_receive_v1 swallowed it.        *)
Swallows(h) == Returns(h) /\ excused' = excused \cup ({handler[h].message} \ Logged)

(* Feishu delivers m, and may do so again whatever became of the first one. *)
(* The bot of the local runtime handles one event at a time.                *)
handle_text_message(h, m) ==
  /\ In(h, "idle")
  /\ backend = "local" => h = CHOOSE bot \in Handler : TRUE
  /\ IF m \notin acked /\ Handling(m) = {} THEN UNCHANGED events ELSE Event
  /\ handler' = [handler EXCEPT ![h] =
       [pc |-> IF backend = "local" \/ m \in sensitive THEN "append" ELSE "get",
        message |-> m, keyed |-> FALSE]]
  /\ UNCHANGED <<backend, sensitive, log, status, readable, key, acked, excused>>

(* A log that cannot be parsed raises: message_exists reads all of it.      *)
append_message_once(h) ==
  LET m == handler[h].message
      new == m \notin Logged
  IN /\ In(h, "append")
     /\ IF ~readable
        THEN Swallows(h) /\ UNCHANGED <<log, status>>
        ELSE /\ log' = IF new THEN Append(log, m) ELSE log
             /\ status' = IF new THEN [status EXCEPT ![m] = IF m \in sensitive
                                        THEN "blocked_sensitive" ELSE "pending"] ELSE status
             /\ IF new /\ m \notin sensitive THEN Continues(h, "submit") ELSE Returns(h)
             /\ UNCHANGED excused
     /\ UNCHANGED <<backend, sensitive, readable, key, events>>
-----------------------------------------------------------------------------
(* apps/receiver.receive.                                                   *)

idempotency_get(h) ==
  LET m == handler[h].message
  IN /\ In(h, "get")
     /\ IF key[m] \in {"completed", "processing"} THEN Returns(h) ELSE Continues(h, "begin")
     /\ UNCHANGED <<backend, sensitive, log, status, readable, key, events, excused>>

idempotency_begin(h) ==
  LET m == handler[h].message
      free == key[m] \in {"none", "failed"}
  IN /\ In(h, "begin")
     /\ key' = IF free THEN [key EXCEPT ![m] = "processing"] ELSE key
     /\ IF free THEN /\ handler' = [handler EXCEPT ![h].pc = "insert", ![h].keyed = TRUE]
                     /\ UNCHANGED acked
                ELSE Returns(h)
     /\ UNCHANGED <<backend, sensitive, log, status, readable, events, excused>>

(* Redis does not answer: the message goes on without a key.                *)
idempotency_unavailable(h) ==
  /\ Event
  /\ handler[h].pc \in {"get", "begin"}
  /\ Continues(h, "insert")
  /\ UNCHANGED <<backend, sensitive, log, status, readable, key, excused>>

receive_command(h) ==
  LET m == handler[h].message
  IN IF m \in Logged THEN UNCHANGED <<log, status>>
     ELSE log' = Append(log, m) /\ status' = [status EXCEPT ![m] = "pending"]

receive(h) ==
  /\ In(h, "insert")
  /\ receive_command(h)
  /\ IF handler[h].keyed THEN Continues(h, "complete") ELSE Returns(h)
  /\ UNCHANGED <<backend, sensitive, readable, key, events, excused>>

receive_raises(h) ==
  /\ Event
  /\ In(h, "insert")
  /\ Continues(h, "raised")
  /\ UNCHANGED <<backend, sensitive, log, status, readable, key, excused>>

idempotency_fail(h) ==
  /\ In(h, "raised")
  /\ key' = IF handler[h].keyed THEN [key EXCEPT ![handler[h].message] = "failed"] ELSE key
  /\ Swallows(h)
  /\ UNCHANGED <<backend, sensitive, log, status, readable, events>>

idempotency_complete(h) ==
  /\ In(h, "complete")
  /\ key' = [key EXCEPT ![handler[h].message] = "completed"]
  /\ Returns(h)
  /\ UNCHANGED <<backend, sensitive, log, status, readable, events, excused>>

(* IDEMPOTENCY_TTL_SECONDS pass.                                            *)
key_expires(m) ==
  /\ key[m] # "none"
  /\ IF Handling(m) = {} THEN UNCHANGED events ELSE Event
  /\ key' = [key EXCEPT ![m] = "none"]
  /\ UNCHANGED <<backend, sensitive, log, status, readable, handler, acked, excused>>

(* A receiver dies.  A key it took stays, and answers later deliveries.     *)
receiver_dies(h) ==
  LET m == handler[h].message
  IN /\ Event
     /\ backend = "redis_streams"
     /\ ~In(h, "idle")
     /\ handler' = [handler EXCEPT ![h] = Unhandled]
     /\ excused' = IF handler[h].keyed /\ m \notin Logged THEN excused \cup {m} ELSE excused
     /\ UNCHANGED <<backend, sensitive, log, status, readable, key, acked>>
-----------------------------------------------------------------------------
Receive(h) ==
  \/ append_message_once(h)
  \/ idempotency_get(h) \/ idempotency_begin(h) \/ receive(h)
  \/ idempotency_fail(h) \/ idempotency_complete(h)

IntakeFaults ==
  \/ \E h \in Handler : idempotency_unavailable(h) \/ receive_raises(h) \/ receiver_dies(h)
  \/ \E m \in Message : key_expires(m)

Deliver == \E h \in Handler, m \in Message : handle_text_message(h, m)
=============================================================================
