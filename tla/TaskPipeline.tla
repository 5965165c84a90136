---------------------------- MODULE TaskPipeline ----------------------------
(***************************************************************************)
(* The way of a task request through the system: the transactional outbox  *)
(* (repositories/postgres/outbox.py, apps/outbox_relay.py), the Redis      *)
(* stream with its consumer group (runtime/streams/client.py) and the      *)
(* worker loop (runtime/streams/worker.py), around the tables of TaskLease.*)
(* A claim here is a step of TaskLease made through a stream message.      *)
(*                                                                         *)
(* Each event of a relay batch is followed on its own, and so is each      *)
(* message of a worker's batch: a relay or worker with several of them is  *)
(* several relays or workers with one.  The idle time that XAUTOCLAIM      *)
(* compares is not kept: any pending message may be idle for long enough.  *)
(*                                                                         *)
(* Faults (a crash, a lost connection, a lease or an idle time that runs   *)
(* out under a live holder) are counted and bounded, so that under fair    *)
(* scheduling the rest of the execution is fault-free.                     *)
(***************************************************************************)
EXTENDS TaskLease, Sequences

CONSTANTS
  OutboxMaxAttempts,   \* outbox_events.max_attempts
  MaxDefers,           \* bound: RetryLater raised for one task
  MaxFaults            \* bound: faults in one execution

ASSUME PipelineAssumption ==
  /\ OutboxMaxAttempts \in Nat \ {0}
  /\ MaxDefers \in Nat
  /\ MaxFaults \in Nat
  /\ IsFiniteSet(Task)

VARIABLES
  outbox,    \* outbox[t][n]: the event of the n-th request of t
  sending,   \* claims of events that a relay is publishing
  stream,    \* entries of the stream not delivered to the group yet
  pel,       \* pending entries of the group: delivered, not acknowledged
  lastId,    \* last id XADD assigned
  at,        \* at[w]: the message worker w is handling, and where it is in _handle
  dlq,       \* tasks in the dead-letter stream
  faults,    \* faults so far
  poached    \* history: tasks whose last claim took a "retry" row directly

pipe == <<outbox, sending, stream, pel, lastId, at, dlq, faults, poached>>
allvars == <<vars, pipe>>

MaxRequests == MaxClaims + 1
Request == 1..MaxRequests
NoMessage == [pc |-> "idle", id |-> 0, task |-> NoTask]
Sent == {"claimed", "added", "raised"}

PipelineTypeOK ==
  /\ \A t \in Task : \A n \in Request :
       /\ outbox[t][n].status \in {"pending", "publishing", "retry", "published", "dead"}
       /\ outbox[t][n].publish_attempt_count \in 0..OutboxMaxAttempts + MaxFaults
       /\ outbox[t][n].lease_expires_at \in Instant
       /\ outbox[t][n].next_attempt_at \in Instant
  /\ \A c \in sending : c.task \in Task /\ c.request \in Request /\ c.phase \in Sent
  /\ \A i \in DOMAIN stream : stream[i].id <= lastId /\ stream[i].task \in Task
  /\ \A m \in pel : m.id <= lastId /\ m.task \in Task /\ m.consumer \in Worker
  /\ \A w \in Worker :
       /\ at[w].pc \in {"idle", "got", "unclaimed", "handler", "dead_letter", "ack"}
       /\ at[w].pc = "handler" <=> held[w] # NoLease
  /\ faults \in 0..MaxFaults

PipelineInit ==
  /\ Init
  /\ \A t \in Task : task[t].status = "queued"
  /\ outbox = [t \in Task |-> [n \in Request |->
       [status |-> "pending", publish_attempt_count |-> 0,
        lease_expires_at |-> "null", next_attempt_at |-> "null"]]]
  /\ sending = {} /\ stream = <<>> /\ pel = {} /\ lastId = 0
  /\ at = [w \in Worker |-> NoMessage]
  /\ dlq = {} /\ faults = 0 /\ poached = {}

Fault == faults < MaxFaults /\ faults' = faults + 1
-----------------------------------------------------------------------------
(* The outbox.  A lease token is a fresh uuid4 for every claim of an event; *)
(* so is the number of the attempt, which stands for it.                    *)
Unpublished(t, n) == n <= requested[t] /\ outbox[t][n].status \notin {"published", "dead"}

(* A relay that passes over the events a dead relay left "publishing".       *)
claim_outbox_batch_waiting_only(t, n) ==
  /\ n <= requested[t]
  /\ outbox[t][n].status \in {"pending", "retry"}
  /\ outbox[t][n].next_attempt_at \in {"null", "past"}
  /\ LET attempt_no == outbox[t][n].publish_attempt_count + 1
     IN /\ outbox' = [outbox EXCEPT ![t][n] =
             [status |-> "publishing", publish_attempt_count |-> attempt_no,
              lease_expires_at |-> "future",
              next_attempt_at |-> outbox[t][n].next_attempt_at]]
        /\ sending' = sending \cup
             {[task |-> t, request |-> n, lease_token |-> attempt_no,
               phase |-> "claimed"]}
  /\ UNCHANGED <<vars, stream, pel, lastId, at, dlq, faults, poached>>

claim_outbox_batch(t, n) ==
  /\ n <= requested[t]
  /\ \/ /\ outbox[t][n].status \in {"pending", "retry"}
        /\ outbox[t][n].next_attempt_at \in {"null", "past"}
     \/ /\ outbox[t][n].status = "publishing"
        /\ outbox[t][n].lease_expires_at = "past"
  /\ LET attempt_no == outbox[t][n].publish_attempt_count + 1
     IN /\ outbox' = [outbox EXCEPT ![t][n] =
             [status |-> "publishing", publish_attempt_count |-> attempt_no,
              lease_expires_at |-> "future",
              next_attempt_at |-> outbox[t][n].next_attempt_at]]
        /\ sending' = sending \cup
             {[task |-> t, request |-> n, lease_token |-> attempt_no,
               phase |-> "claimed"]}
  /\ UNCHANGED <<vars, stream, pel, lastId, at, dlq, faults, poached>>

Moved(c, phase) == (sending \ {c}) \cup {[c EXCEPT !.phase = phase]}

(* publish_task: XADD.  The call may raise although the entry was added.    *)
publish_task(c) ==
  /\ c.phase = "claimed"
  /\ \/ /\ stream' = Append(stream, [id |-> lastId + 1, task |-> c.task])
        /\ lastId' = lastId + 1
        /\ sending' = Moved(c, "added")
        /\ UNCHANGED faults
     \/ /\ stream' = Append(stream, [id |-> lastId + 1, task |-> c.task])
        /\ lastId' = lastId + 1
        /\ sending' = Moved(c, "raised")
        /\ Fault
     \/ /\ sending' = Moved(c, "raised")
        /\ Fault
        /\ UNCHANGED <<stream, lastId>>
  /\ UNCHANGED <<vars, outbox, pel, at, dlq, poached>>

StillMine(c) ==
  /\ outbox[c.task][c.request].status = "publishing"
  /\ outbox[c.task][c.request].publish_attempt_count = c.lease_token

(* A publication that is not recorded: the event waits for its lease.       *)
mark_outbox_published_lost(c) ==
  /\ c.phase = "added"
  /\ sending' = sending \ {c}
  /\ UNCHANGED <<vars, outbox, stream, pel, lastId, at, dlq, faults, poached>>

(* mark_outbox_published and mark_outbox_failed compare the token, not the  *)
(* expiry; a claim that was taken over is stale and writes nothing.         *)
mark_outbox_published(c) ==
  /\ c.phase = "added"
  /\ outbox' = IF StillMine(c)
               THEN [outbox EXCEPT ![c.task][c.request] =
                       [status |-> "published",
                        publish_attempt_count |-> c.lease_token,
                        lease_expires_at |-> "null", next_attempt_at |-> "null"]]
               ELSE outbox
  /\ sending' = sending \ {c}
  /\ UNCHANGED <<vars, stream, pel, lastId, at, dlq, faults, poached>>

mark_outbox_failed(c) ==
  /\ c.phase = "raised"
  /\ LET exhausted == c.lease_token >= OutboxMaxAttempts
     IN outbox' = IF StillMine(c)
                  THEN [outbox EXCEPT ![c.task][c.request] =
                          [status |-> IF exhausted THEN "dead" ELSE "retry",
                           publish_attempt_count |-> c.lease_token,
                           lease_expires_at |-> "null",
                           next_attempt_at |-> IF exhausted THEN "null" ELSE "future"]]
                  ELSE outbox
  /\ sending' = sending \ {c}
  /\ UNCHANGED <<vars, stream, pel, lastId, at, dlq, faults, poached>>

(* The relay dies, or a mark_ call raises, which ends its process.          *)
relay_crash(c) ==
  /\ Fault
  /\ sending' = sending \ {c}
  /\ UNCHANGED <<vars, outbox, stream, pel, lastId, at, dlq, poached>>

(* Time passes for an event.  The lease of a live claim running out is a    *)
(* fault; that of a dead one, and a backoff, only a matter of time.         *)
event_time_passes(t, n) ==
  /\ \/ /\ outbox[t][n].lease_expires_at = "future"
        /\ outbox' = [outbox EXCEPT ![t][n].lease_expires_at = "past"]
        /\ IF \E c \in sending : c.task = t /\ c.request = n /\ StillMine(c)
           THEN Fault ELSE UNCHANGED faults
     \/ /\ outbox[t][n].next_attempt_at = "future"
        /\ outbox' = [outbox EXCEPT ![t][n].next_attempt_at = "past"]
        /\ UNCHANGED faults
  /\ UNCHANGED <<vars, sending, stream, pel, lastId, at, dlq, poached>>
-----------------------------------------------------------------------------
(* run_once: read new messages, and reclaim only when there are none.       *)
read(w) ==
  /\ at[w] = NoMessage
  /\ stream # <<>>
  /\ LET m == Head(stream)
     IN /\ pel' = pel \cup {[id |-> m.id, task |-> m.task, consumer |-> w]}
        /\ at' = [at EXCEPT ![w] = [pc |-> "got", id |-> m.id, task |-> m.task]]
  /\ stream' = Tail(stream)
  /\ UNCHANGED <<vars, outbox, sending, lastId, dlq, faults, poached>>

(* XAUTOCLAIM.  The heartbeat renews the lease of the task but not the idle *)
(* time of the message, so a handler that takes long loses its message.     *)
Handled(m) == \E v \in Worker : at[v].pc # "idle" /\ at[v].id = m.id

reclaim(w, m) ==
  /\ at[w] = NoMessage
  /\ stream = <<>>
  /\ m \in pel
  /\ IF Handled(m) THEN Fault ELSE UNCHANGED faults
  /\ pel' = (pel \ {m}) \cup {[id |-> m.id, task |-> m.task, consumer |-> w]}
  /\ at' = [at EXCEPT ![w] = [pc |-> "got", id |-> m.id, task |-> m.task]]
  /\ UNCHANGED <<vars, outbox, sending, stream, lastId, dlq, poached>>

Goes(w, pc) == at' = [at EXCEPT ![w] = IF pc = "idle" THEN NoMessage
                                       ELSE [at[w] EXCEPT !.pc = pc]]

(* _handle, up to the handler: the claim answers the task or None.          *)
handle_claims(w) ==
  LET t == at[w].task
  IN /\ at[w].pc = "got"
     /\ claim_task(w, t)
     /\ Goes(w, "handler")
     /\ poached' = IF task[t].status = "retry" THEN poached \cup {t} ELSE poached
     /\ UNCHANGED <<outbox, sending, stream, pel, lastId, dlq, faults>>

handle_finds_none(w) ==
  /\ at[w].pc = "got"
  /\ ~Claimable(at[w].task)
  /\ Goes(w, "unclaimed")
  /\ UNCHANGED <<vars, outbox, sending, stream, pel, lastId, dlq, faults, poached>>

(* A worker that acknowledges whatever it could not claim.                  *)
get_task_acking_all(w) ==
  /\ at[w].pc = "unclaimed"
  /\ Goes(w, "ack")
  /\ UNCHANGED <<vars, outbox, sending, stream, pel, lastId, dlq, faults, poached>>

(* get_task, in a later transaction: a queued or running task keeps its     *)
(* message pending.                                                         *)
get_task(w) ==
  /\ at[w].pc = "unclaimed"
  /\ Goes(w, IF task[at[w].task].status \in
                 {"blocked", "cancelled", "completed", "dead_letter", "retry"}
             THEN "ack" ELSE "idle")
  /\ UNCHANGED <<vars, outbox, sending, stream, pel, lastId, dlq, faults, poached>>

(* The heartbeat thread matters when the lease is about to be lost.         *)
heartbeat(w) ==
  /\ at[w].pc = "handler"
  /\ task[at[w].task].lease_expires_at = "past"
  /\ renew_task_lease(w, at[w].task)
  /\ UNCHANGED pipe

(* The handler returns, raises, or raises RetryLater; what follows is the   *)
(* database step.  A stale answer leaves the message pending.               *)
handle_completes(w) ==
  /\ at[w].pc = "handler"
  /\ complete_task(w, at[w].task, {})
  /\ Goes(w, "ack")
  /\ UNCHANGED <<outbox, sending, stream, pel, lastId, dlq, faults, poached>>

handle_fails(w) ==
  LET t == at[w].task
  IN /\ at[w].pc = "handler"
     /\ fail_task(w, t)
     /\ Goes(w, IF task'[t].status = "dead_letter" THEN "dead_letter" ELSE "ack")
     /\ UNCHANGED <<outbox, sending, stream, pel, lastId, dlq, faults, poached>>

handle_defers(w) ==
  /\ at[w].pc = "handler"
  /\ task[at[w].task].defer_count < MaxDefers
  /\ defer_task(w, at[w].task)
  /\ Goes(w, "ack")
  /\ UNCHANGED <<outbox, sending, stream, pel, lastId, dlq, faults, poached>>

(* A stale worker that leaves its heartbeat running.                        *)
handle_stale_keeping_lease(w) ==
  /\ at[w].pc = "handler"
  /\ held[w] # NoLease
  /\ ~Owns(w, at[w].task)
  /\ Goes(w, "idle")
  /\ UNCHANGED <<vars, outbox, sending, stream, pel, lastId, dlq, faults, poached>>

handle_stale(w) ==
  /\ at[w].pc = "handler"
  /\ stale_settle(w, at[w].task)
  /\ Goes(w, "idle")
  /\ UNCHANGED <<outbox, sending, stream, pel, lastId, dlq, faults, poached>>

dead_letter(w) ==
  /\ at[w].pc = "dead_letter"
  /\ dlq' = dlq \cup {at[w].task}
  /\ Goes(w, "ack")
  /\ UNCHANGED <<vars, outbox, sending, stream, pel, lastId, faults, poached>>

(* XACK removes the entry from the group, whoever it is pending for.        *)
ack(w) ==
  /\ at[w].pc = "ack"
  /\ pel' = {m \in pel : m.id # at[w].id}
  /\ Goes(w, "idle")
  /\ UNCHANGED <<vars, outbox, sending, stream, lastId, dlq, faults, poached>>

(* A crash after which the task is claimable at once.                       *)
crash_requeues(w) ==
  /\ at[w] # NoMessage
  /\ Fault
  /\ task' = IF at[w].pc = "handler"
             THEN [task EXCEPT ![at[w].task].status = "queued"] ELSE task
  /\ Drop(w)
  /\ Goes(w, "idle")
  /\ UNCHANGED <<attempt, requested, lastToken,
                 outbox, sending, stream, pel, lastId, dlq, poached>>

(* The process dies, or a call to the database or to Redis raises out of    *)
(* _handle into run_forever: the message stays pending, the lease stays.    *)
crash(w) ==
  /\ at[w] # NoMessage
  /\ Fault
  /\ Drop(w)
  /\ Goes(w, "idle")
  /\ UNCHANGED <<task, attempt, requested, lastToken,
                 outbox, sending, stream, pel, lastId, dlq, poached>>
-----------------------------------------------------------------------------
(* The retry sweep of apps/outbox_relay.py and apps/scheduler.py.           *)
sweep(t) ==
  /\ enqueue_due_retries(t)
  /\ poached' = poached \ {t}
  /\ UNCHANGED <<outbox, sending, stream, pel, lastId, at, dlq, faults>>

task_time_passes(t) ==
  /\ \/ lease_passes(t) /\ (IF \E w \in Worker : Fenced(w, t) THEN Fault
                                                               ELSE UNCHANGED faults)
     \/ retry_passes(t) /\ UNCHANGED faults
  /\ UNCHANGED <<outbox, sending, stream, pel, lastId, at, dlq, poached>>

Relay ==
  \/ \E t \in Task, n \in Request : claim_outbox_batch(t, n)
  \/ \E c \in sending :
       publish_task(c) \/ mark_outbox_published(c) \/ mark_outbox_failed(c)
  \/ \E t \in Task : sweep(t)

Time == \E t \in Task : \/ task_time_passes(t)
                        \/ \E n \in Request : event_time_passes(t, n)

Handling(w) ==
  \/ handle_claims(w) \/ handle_finds_none(w) \/ get_task(w)
  \/ handle_completes(w) \/ handle_fails(w) \/ handle_defers(w) \/ handle_stale(w)
  \/ dead_letter(w) \/ ack(w)

PipelineNext ==
  \/ Relay
  \/ Time
  \/ \E c \in sending : relay_crash(c)
  \/ \E w \in Worker :
       \/ read(w)
       \/ \E m \in pel : reclaim(w, m)
       \/ Handling(w)
       \/ heartbeat(w)
       \/ crash(w)

(* The relay and the workers loop for ever, a handler returns or raises,    *)
(* and time passes; each worker polls the stream and, when it is empty, the *)
(* pending entries.  Nothing is assumed of faults or of the heartbeat.      *)
Fairness ==
  /\ WF_allvars(Relay /\ UNCHANGED faults)
  /\ \A t \in Task : WF_allvars(task_time_passes(t) /\ UNCHANGED faults)
  /\ \A t \in Task : \A n \in Request :
       WF_allvars(event_time_passes(t, n) /\ UNCHANGED faults)
  /\ \A w \in Worker : WF_allvars(Handling(w)) /\ WF_allvars(read(w))
  /\ WF_allvars(\E w \in Worker : \E m \in pel : reclaim(w, m) /\ UNCHANGED faults)

PipelineSpec == PipelineInit /\ [][PipelineNext]_allvars /\ Fairness
-----------------------------------------------------------------------------
(* Somebody will still claim t: a request on its way, a message of the      *)
(* stream or of the group, or a worker that has one in its hands.           *)
Carried(t) ==
  \/ \E n \in Request : Unpublished(t, n)
  \/ \E i \in DOMAIN stream : stream[i].task = t
  \/ \E m \in pel : m.task = t
  \/ \E w \in Worker : at[w].pc \in {"got", "handler"} /\ at[w].task = t

DeadEvent(t) == \E n \in Request : n <= requested[t] /\ outbox[t][n].status = "dead"
Waiting(t) == task[t].status \in {"queued", "running"}

(* The outbox and the group lose no request: a task that is queued or       *)
(* running, and that nothing carries, lost its request in one of two known  *)
(* ways: all attempts to publish it failed, or its last claim took the      *)
(* "retry" row directly, through a message acknowledged since.              *)
OnlyKnownLosses ==
  \A t \in Task : Waiting(t) /\ ~Carried(t) => DeadEvent(t) \/ t \in poached

(* A message that is not the first of its request stems from a fault: the   *)
(* relay, its retries and its expired leases publish nothing twice by       *)
(* themselves.                                                              *)
DuplicatesAreFaults ==
  lastId <= Cardinality({e \in Task \X Request : e[2] <= requested[e[1]]}) + faults

(* The worker loop, the relay and the sweep use the lease protocol as       *)
(* TaskLease describes it, so what is proved of TaskLease holds of them.    *)
ImplementsLease == Spec

(* "relay failures can replay the outbox", "timed-out tasks can be          *)
(* reclaimed": every task is settled in the end, or lost in a known way.    *)
EventuallySettled ==
  \A t \in Task :
    <>(task[t].status \in Terminal \/ DeadEvent(t) \/ (~Carried(t) /\ t \in poached))

(* "a timed-out task can be reclaimed": a running task that nobody executes *)
(* any more still has a message through which a worker will claim it.       *)
TimedOutIsReclaimable ==
  \A t \in Task :
    task[t].status = "running" /\ (\A w \in Worker : ~Fenced(w, t)) => Carried(t)
=============================================================================
