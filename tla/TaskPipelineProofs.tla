-------------------------- MODULE TaskPipelineProofs --------------------------
(***************************************************************************)
(* Proofs about the way of a request through outbox, stream and workers:   *)
(* the pipeline implements the lease protocol, so that all that is proved  *)
(* of TaskLease holds of it; no request is lost but in the two known ways; *)
(* and every duplicate of a message is paid for by a fault.                *)
(***************************************************************************)
EXTENDS TaskPipeline, TaskLeaseProofs

(* The types of the pipeline's own state.                                   *)
Event == [status: {"pending", "publishing", "retry", "published", "dead"},
          publish_attempt_count: Nat, lease_expires_at: Instant, next_attempt_at: Instant]
Claim == [task: Task, request: Request, lease_token: Nat, phase: Sent]
Entry == [id: Nat, task: Task]
Pending == [id: Nat, task: Task, consumer: Worker]
Place == [pc: {"idle", "got", "unclaimed", "handler", "dead_letter", "ack"},
          id: Nat, task: Task \cup {NoTask}]

PipeTypes ==
  /\ outbox \in [Task -> [Request -> Event]]
  /\ sending \in SUBSET Claim
  /\ stream \in Seq(Entry)
  /\ pel \in SUBSET Pending
  /\ lastId \in Nat
  /\ at \in [Worker -> Place]
  /\ faults \in 0..MaxFaults

(* A worker has a message exactly while it is not idle, and a claim exactly *)
(* while it is in the handler.                                              *)
Placed ==
  \A w \in Worker : /\ at[w].pc # "idle" => at[w].task \in Task
                    /\ at[w].pc = "handler" <=> held[w] # NoLease

(* Ids grow along the stream, and everything the group has read is older.   *)
IdsGrow ==
  /\ \A i \in DOMAIN stream : stream[i].id <= lastId
  /\ \A i, j \in DOMAIN stream : i < j => stream[i].id < stream[j].id
  /\ \A m \in pel : m.id <= lastId
  /\ \A w \in Worker : at[w].id <= lastId
  /\ \A i \in DOMAIN stream : /\ \A w \in Worker : at[w].id < stream[i].id
                              /\ \A m \in pel : m.id < stream[i].id

(* One id is one message, whoever it is pending for and whoever has it.     *)
IdsAgree ==
  /\ \A m, p \in pel : m.id = p.id => m.task = p.task
  /\ \A m \in pel : \A w \in Worker :
       at[w].pc # "idle" /\ at[w].id = m.id => at[w].task = m.task

(* A request is made for the first claim and after a failed or deferred     *)
(* one, so no task makes more requests than the model follows.              *)
RequestsFit ==
  \A t \in Task : /\ requested[t] >= 1
                  /\ requested[t] <= task[t].attempt_count + 1
                  /\ task[t].status # "queued" => requested[t] <= task[t].attempt_count

(* The claim of an event is not lost by a relay without a fault.            *)
InHand(t, n) ==
  /\ outbox[t][n].status = "publishing"
  /\ outbox[t][n].lease_expires_at # "past"
  /\ \E c \in sending : c.task = t /\ c.request = n /\ StillMine(c)

(* An event that was not given up was tried OutboxMaxAttempts times and     *)
(* once more for every fault.                                               *)
AttemptsFit ==
  /\ \A c \in sending : c.request <= requested[c.task]
  /\ \A t \in Task : \A n \in Request :
       LET e == outbox[t][n]
       IN /\ n > requested[t] => e.status = "pending"
          /\ e.publish_attempt_count <= OutboxMaxAttempts + faults
          /\ e.status \in {"pending", "retry"} => e.publish_attempt_count < OutboxMaxAttempts
          /\ e.status = "publishing" /\ ~InHand(t, n)
               => e.publish_attempt_count < OutboxMaxAttempts + faults

(* What may still be published: the events a relay may claim, now or when   *)
(* their instant has passed, and the claims that are not settled.           *)
Requests == {e \in Task \X Request : e[2] <= requested[e[1]]}
Claimables ==
  {e \in Requests : \/ outbox[e[1]][e[2]].status \in {"pending", "retry"}
                    \/ outbox[e[1]][e[2]].status = "publishing" /\ ~InHand(e[1], e[2])}
Unsettled == {c \in sending : c.phase \in {"claimed", "raised"}}

(* Every message, and everything that may become one, is paid for by a      *)
(* request or by a fault.                                                   *)
PaidFor ==
  /\ IsFiniteSet(sending)
  /\ lastId + Cardinality(Claimables) + Cardinality(Unsettled)
       <= Cardinality(Requests) + faults

(* The last request of t is in the stream's hands, and a message of t that  *)
(* no worker is about to acknowledge is there to be claimed.                *)
Acking(w, id) == at[w].pc \in {"dead_letter", "ack"} /\ at[w].id = id
Delivered(t) ==
  \/ outbox[t][requested[t]].status = "published"
  \/ \E c \in sending : c.phase = "added" /\ c.task = t /\ c.request = requested[t]
Reachable(t) ==
  \/ \E i \in DOMAIN stream : stream[i].task = t
  \/ \E m \in pel : m.task = t /\ \A w \in Worker : ~Acking(w, m.id)

DeliveredReaches ==
  \A t \in Task : Waiting(t) /\ t \notin poached /\ Delivered(t) => Reachable(t)

PipeInv == PipeTypes /\ Placed /\ IdsGrow /\ IdsAgree /\ RequestsFit /\ AttemptsFit /\ PaidFor
           /\ DeliveredReaches
-----------------------------------------------------------------------------
(* The assumptions of the module in the form the provers use.               *)
LEMMA PipeConstants ==
  /\ OutboxMaxAttempts \in Nat /\ OutboxMaxAttempts > 0
  /\ MaxFaults \in Nat
  /\ MaxRequests \in Nat /\ MaxRequests > 0
  /\ IsFiniteSet(Task)
  /\ NoTask \notin Task
BY PipelineAssumption, LeaseAssumption DEF MaxRequests

(* Where a worker goes.                                                     *)
LEMMA GoesTo ==
  ASSUME at \in [Worker -> Place], NEW w \in Worker, NEW pc, Goes(w, pc),
         pc \in {"idle", "got", "unclaimed", "handler", "dead_letter", "ack"}
  PROVE  /\ at' \in [Worker -> Place]
         /\ at'[w].pc = pc
         /\ pc # "idle" => at'[w].id = at[w].id /\ at'[w].task = at[w].task
         /\ pc = "idle" => at'[w] = NoMessage
         /\ \A v \in Worker \ {w} : at'[v] = at[v]
<1>1. at[w] \in Place
  OBVIOUS
<1>2. NoMessage \in Place
  BY DEF NoMessage, Place
<1>3. CASE pc = "idle"
  BY <1>2, <1>3 DEF Goes, NoMessage
<1>4. CASE pc # "idle"
  <2> DEFINE new == [at[w] EXCEPT !.pc = pc]
  <2>1. new \in Place /\ new.pc = pc /\ new.id = at[w].id /\ new.task = at[w].task
    BY <1>1 DEF Place
  <2>2. at' = [at EXCEPT ![w] = new]
    BY <1>4 DEF Goes
  <2> HIDE DEF new
  <2> QED BY <1>4, <2>1, <2>2
<1> QED BY <1>3, <1>4
-----------------------------------------------------------------------------
(* The refinement.  It needs two facts of the pipeline: a worker that is in *)
(* _handle has a message of a task, and holds a claim only in the handler.  *)
(* A step is one of the lease protocol, or invisible to it.                 *)
LEMMA StepOfLease ==
  ASSUME IInv, PipeTypes, Placed, PipelineNext
  PROVE  [Next]_vars
<1>1. /\ held \in [Worker -> Lease \cup {NoLease}]
      /\ at \in [Worker -> Place]
      /\ \A w \in Worker : at[w].pc # "idle" => at[w].task \in Task
  BY DEF IInv, TypeOK, PipeTypes, Placed
<1>2. ASSUME NEW t \in Task, NEW n \in Request,
             claim_outbox_batch(t, n) \/ event_time_passes(t, n)
      PROVE  UNCHANGED vars
  BY <1>2 DEF claim_outbox_batch, event_time_passes
<1>3. ASSUME NEW c \in sending,
             \/ publish_task(c) \/ mark_outbox_published(c) \/ mark_outbox_failed(c)
             \/ relay_crash(c)
      PROVE  UNCHANGED vars
  BY <1>3 DEF publish_task, mark_outbox_published, mark_outbox_failed, relay_crash
<1>4. ASSUME NEW t \in Task, sweep(t) \/ task_time_passes(t)
      PROVE  Next
  BY <1>4 DEF sweep, task_time_passes, Next
<1>5. ASSUME NEW w \in Worker, read(w) \/ (\E m \in pel : reclaim(w, m))
      PROVE  UNCHANGED vars
  BY <1>5 DEF read, reclaim
<1>6. ASSUME NEW w \in Worker,
             handle_finds_none(w) \/ get_task(w) \/ dead_letter(w) \/ ack(w)
      PROVE  UNCHANGED vars
  BY <1>6 DEF handle_finds_none, get_task, dead_letter, ack
<1>7. ASSUME NEW w \in Worker,
             \/ handle_claims(w) \/ handle_completes(w) \/ handle_fails(w)
             \/ handle_defers(w) \/ handle_stale(w) \/ heartbeat(w)
      PROVE  Next
  <2> DEFINE t == at[w].task
  <2>1. \/ claim_task(w, t) \/ complete_task(w, t, {}) \/ fail_task(w, t)
        \/ defer_task(w, t) \/ stale_settle(w, t) \/ renew_task_lease(w, t)
    BY <1>7 DEF handle_claims, handle_completes, handle_fails, handle_defers,
       handle_stale, heartbeat
  <2>2. at[w].pc \in {"got", "handler"}
    BY <1>7 DEF handle_claims, handle_completes, handle_fails, handle_defers,
       handle_stale, heartbeat
  <2>3. t \in Task
    BY <1>1, <2>2
  <2> HIDE DEF t
  <2> QED BY <2>1, <2>3 DEF Next
<1>8. ASSUME NEW w \in Worker, crash(w)
      PROVE  [Next]_vars
  <2>1. Drop(w) /\ UNCHANGED <<task, attempt, requested, lastToken>>
    BY <1>8 DEF crash
  <2>2. CASE held[w] # NoLease
    BY <2>1, <2>2 DEF worker_crash, Next
  <2>3. CASE held[w] = NoLease
    BY <1>1, <2>1, <2>3 DEF Drop, vars
  <2> QED BY <2>2, <2>3
<1>9. CASE Relay
  BY <1>9, <1>2, <1>3, <1>4 DEF Relay
<1>10. CASE Time
  BY <1>10, <1>2, <1>4 DEF Time
<1>11. CASE \E c \in sending : relay_crash(c)
  BY <1>11, <1>3
<1>12. ASSUME NEW w \in Worker,
              \/ read(w)
              \/ \E m \in pel : reclaim(w, m)
              \/ Handling(w)
              \/ heartbeat(w)
              \/ crash(w)
       PROVE  [Next]_vars
  BY <1>12, <1>5, <1>6, <1>7, <1>8 DEF Handling
<1> QED BY <1>9, <1>10, <1>11, <1>12 DEF PipelineNext
-----------------------------------------------------------------------------
(* One event is written.                                                    *)
LEMMA EventWritten ==
  ASSUME outbox \in [Task -> [Request -> Event]], NEW t \in Task, NEW n \in Request,
         NEW row \in Event, outbox' = [outbox EXCEPT ![t][n] = row]
  PROVE  /\ outbox' \in [Task -> [Request -> Event]]
         /\ outbox'[t][n] = row
         /\ \A u \in Task : \A k \in Request :
              u # t \/ k # n => outbox'[u][k] = outbox[u][k]
BY SMTT(30)

(* The claim that claim_outbox_batch makes of an event, and its new row.    *)
LEMMA BatchEffect ==
  ASSUME PipeTypes, NEW t \in Task, NEW n \in Request, claim_outbox_batch(t, n)
  PROVE  \E c \in Claim :
           /\ c.task = t /\ c.request = n /\ c.phase = "claimed"
           /\ c.lease_token = outbox[t][n].publish_attempt_count + 1
           /\ sending' = sending \cup {c}
           /\ outbox' \in [Task -> [Request -> Event]]
           /\ outbox'[t][n].status = "publishing"
           /\ outbox'[t][n].publish_attempt_count = c.lease_token
           /\ outbox'[t][n].lease_expires_at = "future"
           /\ \A u \in Task : \A k \in Request :
                u # t \/ k # n => outbox'[u][k] = outbox[u][k]
           /\ n <= requested[t]
           /\ \/ outbox[t][n].status \in {"pending", "retry"}
              \/ outbox[t][n].status = "publishing" /\ outbox[t][n].lease_expires_at = "past"
           /\ UNCHANGED <<vars, stream, pel, lastId, at, dlq, faults, poached>>
<1> DEFINE e == outbox[t][n]
           c == [task |-> t, request |-> n, lease_token |-> e.publish_attempt_count + 1,
                 phase |-> "claimed"]
           row == [status |-> "publishing", publish_attempt_count |-> e.publish_attempt_count + 1,
                   lease_expires_at |-> "future", next_attempt_at |-> e.next_attempt_at]
<1>1. outbox \in [Task -> [Request -> Event]] /\ e \in Event
  BY DEF PipeTypes
<1>2. e.publish_attempt_count \in Nat /\ e.next_attempt_at \in Instant
  BY <1>1 DEF Event
<1>3. row \in Event /\ c \in Claim
  BY <1>2 DEF Event, Claim, Instant, Sent
<1>4. /\ outbox' = [outbox EXCEPT ![t][n] = row]
      /\ sending' = sending \cup {c}
      /\ n <= requested[t]
      /\ \/ e.status \in {"pending", "retry"}
         \/ e.status = "publishing" /\ e.lease_expires_at = "past"
      /\ UNCHANGED <<vars, stream, pel, lastId, at, dlq, faults, poached>>
  BY DEF claim_outbox_batch
<1>5. /\ row.status = "publishing" /\ row.publish_attempt_count = c.lease_token
      /\ row.lease_expires_at = "future"
      /\ c.task = t /\ c.request = n /\ c.phase = "claimed"
      /\ c.lease_token = e.publish_attempt_count + 1
  OBVIOUS
<1> HIDE DEF row, c
<1>6. /\ outbox' \in [Task -> [Request -> Event]]
      /\ outbox'[t][n] = row
      /\ \A u \in Task : \A k \in Request :
           u # t \/ k # n => outbox'[u][k] = outbox[u][k]
  BY <1>1, <1>3, <1>4, EventWritten
<1> QED BY <1>3, <1>4, <1>5, <1>6

(* A claim c moves on to d, which differs in its phase.                     *)
LEMMA MovedTo ==
  ASSUME sending \in SUBSET Claim, NEW c \in sending, NEW phase \in Sent
  PROVE  \E d \in Claim :
           /\ d.task = c.task /\ d.request = c.request /\ d.lease_token = c.lease_token
           /\ d.phase = phase
           /\ Moved(c, phase) = (sending \ {c}) \cup {d}
<1> DEFINE d == [c EXCEPT !.phase = phase]
<1>1. c \in Claim
  OBVIOUS
<1>2. /\ d \in Claim
      /\ d.task = c.task /\ d.request = c.request /\ d.lease_token = c.lease_token
      /\ d.phase = phase
  BY <1>1 DEF Claim
<1>3. Moved(c, phase) = (sending \ {c}) \cup {d}
  BY DEF Moved
<1> HIDE DEF d
<1> QED BY <1>2, <1>3

(* What publish_task does: a message, or none, and the claim moves on; it   *)
(* raises only by a fault.                                                  *)
LEMMA PublishEffect ==
  ASSUME PipeTypes, NEW c \in sending, publish_task(c)
  PROVE  /\ c.phase = "claimed"
         /\ \/ /\ stream' = Append(stream, [id |-> lastId + 1, task |-> c.task])
               /\ lastId' = lastId + 1
            \/ stream' = stream /\ lastId' = lastId
         /\ \E d \in Claim :
              /\ d.task = c.task /\ d.request = c.request /\ d.lease_token = c.lease_token
              /\ sending' = (sending \ {c}) \cup {d}
              /\ \/ /\ d.phase = "added" /\ faults' = faults
                    /\ stream' = Append(stream, [id |-> lastId + 1, task |-> c.task])
                    /\ lastId' = lastId + 1
                 \/ d.phase = "raised" /\ faults' = faults + 1 /\ faults < MaxFaults
         /\ UNCHANGED <<vars, outbox, pel, at, dlq, poached>>
<1>1. sending \in SUBSET Claim /\ "added" \in Sent /\ "raised" \in Sent
  BY DEF PipeTypes, Sent
<1>2. c.phase = "claimed" /\ UNCHANGED <<vars, outbox, pel, at, dlq, poached>>
  BY DEF publish_task
<1>3. PICK a \in Claim :
           /\ a.task = c.task /\ a.request = c.request /\ a.lease_token = c.lease_token
           /\ a.phase = "added"
           /\ Moved(c, "added") = (sending \ {c}) \cup {a}
  BY <1>1, MovedTo
<1>4. PICK r \in Claim :
           /\ r.task = c.task /\ r.request = c.request /\ r.lease_token = c.lease_token
           /\ r.phase = "raised"
           /\ Moved(c, "raised") = (sending \ {c}) \cup {r}
  BY <1>1, MovedTo
<1>5. \/ /\ stream' = Append(stream, [id |-> lastId + 1, task |-> c.task])
         /\ lastId' = lastId + 1
         /\ sending' = Moved(c, "added")
         /\ faults' = faults
      \/ /\ stream' = Append(stream, [id |-> lastId + 1, task |-> c.task])
         /\ lastId' = lastId + 1
         /\ sending' = Moved(c, "raised")
         /\ faults' = faults + 1 /\ faults < MaxFaults
      \/ /\ sending' = Moved(c, "raised")
         /\ faults' = faults + 1 /\ faults < MaxFaults
         /\ stream' = stream /\ lastId' = lastId
  BY DEF publish_task, Fault
<1> QED BY <1>2, <1>3, <1>4, <1>5

(* What the two marks do with the event of a claim that is still valid.     *)
LEMMA MarkEffect ==
  ASSUME PipeTypes, NEW c \in sending, mark_outbox_published(c) \/ mark_outbox_failed(c)
  PROVE  /\ sending' = sending \ {c}
         /\ c.phase \in {"added", "raised"}
         /\ outbox' \in [Task -> [Request -> Event]]
         /\ \A u \in Task : \A k \in Request :
              u # c.task \/ k # c.request => outbox'[u][k] = outbox[u][k]
         /\ LET old == outbox[c.task][c.request]
                new == outbox'[c.task][c.request]
            IN \/ ~StillMine(c) /\ new = old
               \/ /\ StillMine(c)
                  /\ new.publish_attempt_count = old.publish_attempt_count
                  /\ \/ c.phase = "added" /\ new.status = "published"
                     \/ c.phase = "raised" /\ new.status = "dead"
                     \/ /\ c.phase = "raised" /\ new.status = "retry"
                        /\ new.publish_attempt_count < OutboxMaxAttempts
         /\ UNCHANGED <<vars, stream, pel, lastId, at, dlq, faults, poached>>
<1> DEFINE t == c.task
           n == c.request
           exhausted == c.lease_token >= OutboxMaxAttempts
           published == [status |-> "published", publish_attempt_count |-> c.lease_token,
                         lease_expires_at |-> "null", next_attempt_at |-> "null"]
           failed == [status |-> IF exhausted THEN "dead" ELSE "retry",
                      publish_attempt_count |-> c.lease_token,
                      lease_expires_at |-> "null",
                      next_attempt_at |-> IF exhausted THEN "null" ELSE "future"]
<1>1. c \in Claim /\ outbox \in [Task -> [Request -> Event]]
  BY DEF PipeTypes
<1>2. t \in Task /\ n \in Request /\ c.lease_token \in Nat
  BY <1>1 DEF Claim
<1>3. /\ published \in Event /\ published.publish_attempt_count = c.lease_token
      /\ published.status = "published"
  BY <1>2 DEF Event, Instant
<1>4. failed \in Event /\ failed.publish_attempt_count = c.lease_token
  BY <1>2 DEF Event, Instant
<1>5. \/ failed.status = "dead"
      \/ failed.status = "retry" /\ failed.publish_attempt_count < OutboxMaxAttempts
  BY <1>2, PipeConstants
<1>6. /\ sending' = sending \ {c}
      /\ c.phase \in {"added", "raised"}
      /\ UNCHANGED <<vars, stream, pel, lastId, at, dlq, faults, poached>>
  BY DEF mark_outbox_published, mark_outbox_failed
<1>7. \/ ~StillMine(c) /\ outbox' = outbox
      \/ /\ StillMine(c) /\ c.phase = "added"
         /\ outbox' = [outbox EXCEPT ![t][n] = published]
      \/ /\ StillMine(c) /\ c.phase = "raised"
         /\ outbox' = [outbox EXCEPT ![t][n] = failed]
  BY DEF mark_outbox_published, mark_outbox_failed
<1>8. StillMine(c) => outbox[t][n].publish_attempt_count = c.lease_token
  BY DEF StillMine
<1> HIDE DEF published, failed, t, n
<1>9. CASE ~StillMine(c) /\ outbox' = outbox
  BY <1>1, <1>6, <1>9 DEF t, n
<1>10. CASE StillMine(c) /\ c.phase = "added" /\ outbox' = [outbox EXCEPT ![t][n] = published]
  <2>1. /\ outbox' \in [Task -> [Request -> Event]]
        /\ outbox'[t][n] = published
        /\ \A u \in Task : \A k \in Request :
             u # t \/ k # n => outbox'[u][k] = outbox[u][k]
    BY <1>1, <1>2, <1>3, <1>10, EventWritten
  <2> QED BY <1>3, <1>6, <1>8, <1>10, <2>1 DEF t, n
<1>11. CASE StillMine(c) /\ c.phase = "raised" /\ outbox' = [outbox EXCEPT ![t][n] = failed]
  <2>1. /\ outbox' \in [Task -> [Request -> Event]]
        /\ outbox'[t][n] = failed
        /\ \A u \in Task : \A k \in Request :
             u # t \/ k # n => outbox'[u][k] = outbox[u][k]
    BY <1>1, <1>2, <1>4, <1>11, EventWritten
  <2> QED BY <1>4, <1>5, <1>6, <1>8, <1>11, <2>1 DEF t, n
<1> QED BY <1>7, <1>9, <1>10, <1>11

(* What the passing of an instant changes in an event.                      *)
LEMMA InstantEffect ==
  ASSUME PipeTypes, NEW t \in Task, NEW n \in Request, event_time_passes(t, n)
  PROVE  /\ outbox' \in [Task -> [Request -> Event]]
         /\ \A u \in Task : \A k \in Request :
              u # t \/ k # n => outbox'[u][k] = outbox[u][k]
         /\ outbox'[t][n].status = outbox[t][n].status
         /\ outbox'[t][n].publish_attempt_count = outbox[t][n].publish_attempt_count
         /\ \/ /\ outbox'[t][n].lease_expires_at = outbox[t][n].lease_expires_at
               /\ faults' = faults
            \/ /\ faults' = faults
               /\ ~\E c \in sending : c.task = t /\ c.request = n /\ StillMine(c)
            \/ faults' = faults + 1 /\ faults < MaxFaults
         /\ UNCHANGED <<vars, sending, stream, pel, lastId, at, dlq, poached>>
<1> DEFINE e == outbox[t][n]
           lapsed == [e EXCEPT !.lease_expires_at = "past"]
           due == [e EXCEPT !.next_attempt_at = "past"]
<1>1. outbox \in [Task -> [Request -> Event]] /\ e \in Event
  BY DEF PipeTypes
<1>2. /\ lapsed \in Event /\ lapsed.status = e.status
      /\ lapsed.publish_attempt_count = e.publish_attempt_count
      /\ due \in Event /\ due.status = e.status
      /\ due.publish_attempt_count = e.publish_attempt_count
      /\ due.lease_expires_at = e.lease_expires_at
  BY <1>1 DEF Event, Instant
<1>3. UNCHANGED <<vars, sending, stream, pel, lastId, at, dlq, poached>>
  BY DEF event_time_passes
<1>4. \/ /\ outbox' = [outbox EXCEPT ![t][n] = lapsed]
         /\ \/ /\ faults' = faults
               /\ ~\E c \in sending : c.task = t /\ c.request = n /\ StillMine(c)
            \/ faults' = faults + 1 /\ faults < MaxFaults
      \/ outbox' = [outbox EXCEPT ![t][n] = due] /\ faults' = faults
  BY <1>1 DEF event_time_passes, Fault
<1> HIDE DEF lapsed, due
<1>5. CASE outbox' = [outbox EXCEPT ![t][n] = lapsed]
  <2>1. /\ outbox' \in [Task -> [Request -> Event]]
        /\ outbox'[t][n] = lapsed
        /\ \A u \in Task : \A k \in Request :
             u # t \/ k # n => outbox'[u][k] = outbox[u][k]
    BY <1>1, <1>2, <1>5, EventWritten
  <2>2. \/ outbox'[t][n].lease_expires_at = e.lease_expires_at /\ faults' = faults
        \/ /\ faults' = faults
           /\ ~\E c \in sending : c.task = t /\ c.request = n /\ StillMine(c)
        \/ faults' = faults + 1 /\ faults < MaxFaults
    <3>1. CASE outbox' = [outbox EXCEPT ![t][n] = due] /\ faults' = faults
      <4>1. outbox'[t][n] = due
        BY <1>1, <1>2, <3>1, EventWritten
      <4> QED BY <1>2, <3>1, <4>1
    <3> QED BY <1>4, <3>1
  <2> QED BY <1>2, <1>3, <2>1, <2>2
<1>6. CASE outbox' = [outbox EXCEPT ![t][n] = due] /\ faults' = faults
  <2>1. /\ outbox' \in [Task -> [Request -> Event]]
        /\ outbox'[t][n] = due
        /\ \A u \in Task : \A k \in Request :
             u # t \/ k # n => outbox'[u][k] = outbox[u][k]
    BY <1>1, <1>2, <1>6, EventWritten
  <2> QED BY <1>2, <1>3, <1>6, <2>1
<1> QED BY <1>4, <1>5, <1>6
-----------------------------------------------------------------------------
(* What the steps of a worker or of time on the rows of the tasks have in   *)
(* common: no row gets a new attempt, none becomes queued or running.       *)
Quiet ==
  /\ requested' = requested
  /\ \A a \in Task :
       /\ task'[a].attempt_count = task[a].attempt_count
       /\ \/ task'[a].status = task[a].status
          \/ task[a].status # "queued" /\ task'[a].status \notin {"queued", "running"}

LEMMA SettleQuiet ==
  ASSUME TypeOK, NEW w \in Worker, NEW t \in Task,
         complete_task(w, t, {}) \/ fail_task(w, t) \/ defer_task(w, t)
  PROVE  /\ Quiet
         /\ task'[t].status \in {"completed", "retry", "dead_letter"}
         /\ Drop(w)
<1>1. task \in [Task -> TaskRow] /\ requested \in [Task -> Nat]
  BY DEF TypeOK
<1>2. task[t].status = "running" /\ Drop(w)
  BY DEF complete_task, fail_task, defer_task, Owns, Fenced
<1>3. CASE complete_task(w, t, {})
  BY <1>1, <1>2, <1>3 DEF complete_task, Released, Quiet
<1>4. CASE fail_task(w, t)
  <2> DEFINE failures == task[t].failure_count + 1
             exhausted == failures >= MaxAttempts
             released == Released(task[t], IF exhausted THEN "dead_letter" ELSE "retry",
                                  IF exhausted THEN "null" ELSE "future")
             failed == [released EXCEPT !.failure_count = failures]
             dependents == {d \in Task : Parent[d] = t /\ task[d].status = "blocked"}
  <2>1. /\ task' = [a \in Task |->
                      IF a = t THEN failed
                      ELSE IF exhausted /\ a \in dependents
                           THEN [task[a] EXCEPT !.status = "cancelled"]
                      ELSE task[a]]
        /\ requested' = requested
    BY <1>4 DEF fail_task
  <2>2. failed.status \in {"dead_letter", "retry"} /\ failed.attempt_count = task[t].attempt_count
    BY DEF Released
  <2>3. \A a \in Task : LET c == [task[a] EXCEPT !.status = "cancelled"]
                        IN c.status = "cancelled" /\ c.attempt_count = task[a].attempt_count
    BY <1>1 DEF TaskRow
  <2> HIDE DEF failed, exhausted
  <2>4. ASSUME NEW a \in Task
        PROVE  /\ task'[a].attempt_count = task[a].attempt_count
               /\ \/ task'[a].status = task[a].status
                  \/ task[a].status # "queued" /\ task'[a].status \notin {"queued", "running"}
    <3>1. CASE a = t
      BY <1>2, <2>1, <2>2, <3>1
    <3>2. CASE a # t /\ exhausted /\ a \in dependents
      BY <2>1, <2>3, <3>2
    <3>3. CASE a # t /\ ~(exhausted /\ a \in dependents)
      BY <2>1, <3>3
    <3> QED BY <3>1, <3>2, <3>3
  <2> QED BY <1>2, <2>1, <2>2, <2>4 DEF Quiet
<1>5. CASE defer_task(w, t)
  <2> DEFINE released == Released(task[t], "retry", "future")
             new == [released EXCEPT !.defer_count = task[t].defer_count + 1]
  <2>1. task' = [task EXCEPT ![t] = new] /\ requested' = requested
    BY <1>5 DEF defer_task
  <2>2. new.status = "retry" /\ new.attempt_count = task[t].attempt_count
    BY DEF Released
  <2> HIDE DEF new
  <2> QED BY <1>1, <1>2, <2>1, <2>2 DEF Quiet
<1> QED BY <1>3, <1>4, <1>5

LEMMA InstantQuiet ==
  ASSUME TypeOK, NEW t \in Task,
         \/ lease_passes(t) \/ retry_passes(t) \/ \E w \in Worker : renew_task_lease(w, t)
  PROVE  Quiet /\ held' = held
<1>1. task \in [Task -> TaskRow]
  BY DEF TypeOK
<1>2. requested' = requested /\ held' = held
  BY DEF lease_passes, retry_passes, renew_task_lease
<1>3. \A a \in Task : task'[a].attempt_count = task[a].attempt_count
                      /\ task'[a].status = task[a].status
  <2>1. \A i \in {"past", "future"} :
          LET l == [task[t] EXCEPT !.lease_expires_at = i]
              r == [task[t] EXCEPT !.next_retry_at = i]
          IN /\ l.status = task[t].status /\ l.attempt_count = task[t].attempt_count
             /\ r.status = task[t].status /\ r.attempt_count = task[t].attempt_count
    BY <1>1 DEF TaskRow
  <2>2. \E i \in {"past", "future"} :
          \/ task' = [task EXCEPT ![t] = [task[t] EXCEPT !.lease_expires_at = i]]
          \/ task' = [task EXCEPT ![t] = [task[t] EXCEPT !.next_retry_at = i]]
    BY <1>1 DEF lease_passes, retry_passes, renew_task_lease
  <2> QED BY <1>1, <2>1, <2>2
<1> QED BY <1>2, <1>3 DEF Quiet

(* A claim, and the sweep of a due retry.                                   *)
LEMMA ClaimEffect ==
  ASSUME IInv, NEW w \in Worker, NEW t \in Task, claim_task(w, t)
  PROVE  /\ requested' = requested
         /\ task'[t].status = "running" /\ task'[t].attempt_count = task[t].attempt_count + 1
         /\ \A a \in Task \ {t} : task'[a] = task[a]
         /\ held'[w] # NoLease
         /\ \A v \in Worker \ {w} : held'[v] = held[v]
         /\ task[t].status \in {"queued", "running", "retry"}
<1> DEFINE row == Claimed(task[t], task[t].attempt_count + 1, lastToken + 1,
                          task[t].claim_version + 1)
           lease == [task |-> t, lease_token |-> lastToken + 1,
                     claim_version |-> task[t].claim_version + 1]
<1>1. /\ task \in [Task -> TaskRow] /\ held \in [Worker -> Lease \cup {NoLease}]
      /\ lastToken \in Nat
  BY DEF IInv, TypeOK
<1>2. task[t].status \in Status /\ task[t].claim_version \in Nat
  BY <1>1 DEF TaskRow
<1>3. lease \in Lease
  BY <1>1, <1>2 DEF Lease
<1>4. row.status = "running" /\ row.attempt_count = task[t].attempt_count + 1
  BY DEF Claimed
<1>5. /\ requested' = requested
      /\ task' = [task EXCEPT ![t] = row]
      /\ held' = [held EXCEPT ![w] = lease]
      /\ Claimable(t)
  BY DEF claim_task
<1>6. task[t].status \in {"queued", "running", "retry"}
  BY <1>2, <1>5 DEF Claimable, Status
<1> HIDE DEF row, lease
<1> QED BY <1>1, <1>3, <1>4, <1>5, <1>6, Constants

LEMMA SweepEffect ==
  ASSUME TypeOK, NEW t \in Task, enqueue_due_retries(t)
  PROVE  /\ requested' = [requested EXCEPT ![t] = requested[t] + 1]
         /\ task[t].status = "retry" /\ task'[t].status = "queued"
         /\ task'[t].attempt_count = task[t].attempt_count
         /\ \A a \in Task \ {t} : task'[a] = task[a]
         /\ held' = held
BY DEF TypeOK, enqueue_due_retries, Released
-----------------------------------------------------------------------------
(* The types, and the place of each worker.                                 *)
LEMMA PlacedGoes ==
  ASSUME PipeTypes, Placed, NEW w \in Worker, NEW pc, Goes(w, pc),
         pc \in {"idle", "got", "unclaimed", "handler", "dead_letter", "ack"},
         at[w].pc # "idle",
         pc = "handler" <=> held'[w] # NoLease,
         \A v \in Worker \ {w} : held'[v] = held[v],
         UNCHANGED <<outbox, sending, stream, lastId>>,
         pel' \in SUBSET Pending, faults' \in 0..MaxFaults
  PROVE  PipeTypes' /\ Placed'
<1>1. at \in [Worker -> Place]
  BY DEF PipeTypes
<1>2. /\ at' \in [Worker -> Place]
      /\ at'[w].pc = pc
      /\ pc # "idle" => at'[w].id = at[w].id /\ at'[w].task = at[w].task
      /\ pc = "idle" => at'[w] = NoMessage
      /\ \A v \in Worker \ {w} : at'[v] = at[v]
  BY <1>1, GoesTo
<1>3. PipeTypes'
  BY <1>2 DEF PipeTypes
<1>4. Placed'
  BY <1>2 DEF Placed
<1> QED BY <1>3, <1>4

LEMMA TypesStep ==
  ASSUME IInv, PipeTypes, Placed, PipelineNext
  PROVE  PipeTypes' /\ Placed'
<1>1. /\ TypeOK
      /\ held \in [Worker -> Lease \cup {NoLease}]
      /\ at \in [Worker -> Place] /\ stream \in Seq(Entry) /\ pel \in SUBSET Pending
      /\ lastId \in Nat /\ faults \in 0..MaxFaults /\ MaxFaults \in Nat
      /\ sending \in SUBSET Claim
      /\ \A w \in Worker : at[w].pc # "idle" => at[w].task \in Task
  BY PipeConstants DEF IInv, TypeOK, PipeTypes, Placed
<1>2. ASSUME NEW t \in Task, NEW n \in Request, claim_outbox_batch(t, n)
      PROVE  PipeTypes' /\ Placed'
  <2>1. PICK c \in Claim :
           /\ sending' = sending \cup {c}
           /\ outbox' \in [Task -> [Request -> Event]]
           /\ UNCHANGED <<vars, stream, pel, lastId, at, dlq, faults, poached>>
    BY <1>2, BatchEffect
  <2> QED BY <2>1 DEF PipeTypes, Placed, vars
<1>3. ASSUME NEW c \in sending, publish_task(c)
      PROVE  PipeTypes' /\ Placed'
  <2>1. PICK d \in Claim :
              /\ sending' = (sending \ {c}) \cup {d}
              /\ \/ faults' = faults
                 \/ faults' = faults + 1 /\ faults < MaxFaults
    BY <1>3, PublishEffect
  <2>2. /\ \/ /\ stream' = Append(stream, [id |-> lastId + 1, task |-> c.task])
              /\ lastId' = lastId + 1
           \/ stream' = stream /\ lastId' = lastId
        /\ UNCHANGED <<vars, outbox, pel, at, dlq, poached>>
    BY <1>3, PublishEffect
  <2>3. [id |-> lastId + 1, task |-> c.task] \in Entry
    BY <1>1 DEF Entry, Claim
  <2>4. stream' \in Seq(Entry) /\ lastId' \in Nat /\ faults' \in 0..MaxFaults
    BY <1>1, <2>1, <2>2, <2>3
  <2> QED BY <1>1, <2>1, <2>2, <2>4 DEF PipeTypes, Placed, vars
<1>4. ASSUME NEW c \in sending, mark_outbox_published(c) \/ mark_outbox_failed(c)
      PROVE  PipeTypes' /\ Placed'
  <2>1. /\ sending' = sending \ {c}
        /\ outbox' \in [Task -> [Request -> Event]]
        /\ UNCHANGED <<vars, stream, pel, lastId, at, dlq, faults, poached>>
    BY <1>4, MarkEffect
  <2> QED BY <1>1, <2>1 DEF PipeTypes, Placed, vars
<1>5. ASSUME NEW c \in sending, relay_crash(c)
      PROVE  PipeTypes' /\ Placed'
  <2>1. /\ sending' = sending \ {c} /\ faults' \in 0..MaxFaults
        /\ UNCHANGED <<vars, outbox, stream, pel, lastId, at, dlq, poached>>
    BY <1>1, <1>5 DEF relay_crash, Fault
  <2> QED BY <1>1, <2>1 DEF PipeTypes, Placed, vars
<1>6. ASSUME NEW t \in Task, NEW n \in Request, event_time_passes(t, n)
      PROVE  PipeTypes' /\ Placed'
  <2>1. /\ outbox' \in [Task -> [Request -> Event]]
        /\ faults' = faults \/ (faults' = faults + 1 /\ faults < MaxFaults)
        /\ UNCHANGED <<vars, sending, stream, pel, lastId, at, dlq, poached>>
    BY <1>6, InstantEffect
  <2>2. faults' \in 0..MaxFaults
    BY <1>1, <2>1
  <2> QED BY <2>1, <2>2 DEF PipeTypes, Placed, vars
<1>7. ASSUME NEW t \in Task, sweep(t) \/ task_time_passes(t)
      PROVE  PipeTypes' /\ Placed'
  <2>1. held' = held
    BY <1>7 DEF sweep, task_time_passes, enqueue_due_retries, lease_passes, retry_passes
  <2>2. /\ UNCHANGED <<outbox, sending, stream, pel, lastId, at>>
        /\ faults' = faults \/ (faults' = faults + 1 /\ faults < MaxFaults)
    BY <1>7 DEF sweep, task_time_passes, Fault
  <2>3. faults' \in 0..MaxFaults
    BY <1>1, <2>2
  <2> QED BY <2>1, <2>2, <2>3 DEF PipeTypes, Placed
<1>8. ASSUME NEW w \in Worker, NEW i \in Nat, NEW t \in Task, at[w] = NoMessage,
             at' = [at EXCEPT ![w] = [pc |-> "got", id |-> i, task |-> t]],
             stream' \in Seq(Entry), pel' \in SUBSET Pending, faults' \in 0..MaxFaults,
             UNCHANGED <<vars, outbox, sending, lastId>>
      PROVE  PipeTypes' /\ Placed'
  <2> DEFINE got == [pc |-> "got", id |-> i, task |-> t]
  <2>1. got \in Place /\ got.pc = "got" /\ got.task = t
    BY DEF Place
  <2>2. at' = [at EXCEPT ![w] = got]
    BY <1>8
  <2> HIDE DEF got
  <2>3. held[w] = NoLease
    BY <1>8 DEF Placed, NoMessage
  <2>4. at' \in [Worker -> Place] /\ at'[w] = got /\ \A v \in Worker \ {w} : at'[v] = at[v]
    BY <1>1, <2>1, <2>2
  <2>5. Placed'
    BY <1>8, <2>1, <2>3, <2>4 DEF Placed, vars
  <2> QED BY <1>8, <2>4, <2>5 DEF PipeTypes
<1>9. ASSUME NEW w \in Worker, read(w)
      PROVE  PipeTypes' /\ Placed'
  <2> DEFINE m == Head(stream)
             p == [id |-> m.id, task |-> m.task, consumer |-> w]
  <2>1. stream # <<>> /\ at[w] = NoMessage
    BY <1>9 DEF read
  <2>2. m \in Entry /\ Tail(stream) \in Seq(Entry)
    BY <1>1, <2>1
  <2>3. m.id \in Nat /\ m.task \in Task /\ p \in Pending
    BY <2>2 DEF Entry, Pending
  <2>4. /\ pel' = pel \cup {p}
        /\ at' = [at EXCEPT ![w] = [pc |-> "got", id |-> m.id, task |-> m.task]]
        /\ stream' = Tail(stream)
        /\ UNCHANGED <<vars, outbox, sending, lastId, faults>>
    BY <1>9 DEF read
  <2> HIDE DEF m, p
  <2>5. pel' \in SUBSET Pending /\ stream' \in Seq(Entry) /\ faults' \in 0..MaxFaults
    BY <1>1, <2>2, <2>3, <2>4
  <2> QED BY <1>8, <2>1, <2>3, <2>4, <2>5
<1>10. ASSUME NEW w \in Worker, NEW m \in pel, reclaim(w, m)
       PROVE  PipeTypes' /\ Placed'
  <2> DEFINE p == [id |-> m.id, task |-> m.task, consumer |-> w]
  <2>1. m \in Pending
    BY <1>1
  <2>2. m.id \in Nat /\ m.task \in Task /\ p \in Pending
    BY <2>1 DEF Pending
  <2>3. /\ at[w] = NoMessage
        /\ pel' = (pel \ {m}) \cup {p}
        /\ at' = [at EXCEPT ![w] = [pc |-> "got", id |-> m.id, task |-> m.task]]
        /\ UNCHANGED <<vars, outbox, sending, stream, lastId>>
        /\ faults' = faults \/ (faults' = faults + 1 /\ faults < MaxFaults)
    BY <1>10 DEF reclaim, Fault
  <2> HIDE DEF p
  <2>4. pel' \in SUBSET Pending /\ stream' \in Seq(Entry) /\ faults' \in 0..MaxFaults
    BY <1>1, <2>2, <2>3
  <2> QED BY <1>8, <2>2, <2>3, <2>4
<1>11. ASSUME NEW w \in Worker, handle_claims(w)
       PROVE  PipeTypes' /\ Placed'
  <2>1. /\ at[w].pc = "got" /\ Goes(w, "handler") /\ claim_task(w, at[w].task)
        /\ UNCHANGED <<outbox, sending, stream, pel, lastId, faults>>
    BY <1>11 DEF handle_claims
  <2>2. at[w].task \in Task
    BY <1>1, <2>1
  <2>3. held'[w] # NoLease /\ \A v \in Worker \ {w} : held'[v] = held[v]
    BY <2>1, <2>2, ClaimEffect
  <2> QED BY <1>1, <2>1, <2>3, PlacedGoes
<1>12. ASSUME NEW w \in Worker,
              handle_finds_none(w) \/ get_task(w) \/ dead_letter(w) \/ ack(w)
       PROVE  PipeTypes' /\ Placed'
  <2>1. \E pc \in {"unclaimed", "ack", "idle"} : Goes(w, pc)
    BY <1>12 DEF handle_finds_none, get_task, dead_letter, ack
  <2>2. /\ at[w].pc \in {"got", "unclaimed", "dead_letter", "ack"}
        /\ UNCHANGED <<held, outbox, sending, stream, lastId, faults>>
        /\ pel' \subseteq pel
    BY <1>12 DEF handle_finds_none, get_task, dead_letter, ack, vars
  <2>3. held'[w] = NoLease
    BY <2>2 DEF Placed
  <2>4. pel' \in SUBSET Pending /\ faults' \in 0..MaxFaults
    BY <1>1, <2>2
  <2> QED BY <2>1, <2>2, <2>3, <2>4, PlacedGoes
<1>13. ASSUME NEW w \in Worker,
              handle_completes(w) \/ handle_fails(w) \/ handle_defers(w) \/ handle_stale(w)
       PROVE  PipeTypes' /\ Placed'
  <2>1. \E pc \in {"idle", "ack", "dead_letter"} : Goes(w, pc)
    BY <1>13 DEF handle_completes, handle_fails, handle_defers, handle_stale
  <2>2. /\ at[w].pc = "handler" /\ Drop(w)
        /\ UNCHANGED <<outbox, sending, stream, pel, lastId, faults>>
    BY <1>13 DEF handle_completes, handle_fails, handle_defers, handle_stale,
       complete_task, fail_task, defer_task, stale_settle
  <2>3. held'[w] = NoLease /\ \A v \in Worker \ {w} : held'[v] = held[v]
    BY <1>1, <2>2 DEF Drop
  <2>4. pel' \in SUBSET Pending /\ faults' \in 0..MaxFaults
    BY <1>1, <2>2
  <2> QED BY <2>1, <2>2, <2>3, <2>4, PlacedGoes
<1>14. ASSUME NEW w \in Worker, heartbeat(w)
       PROVE  PipeTypes' /\ Placed'
  <2>1. held' = held /\ UNCHANGED pipe
    BY <1>14 DEF heartbeat, renew_task_lease
  <2> QED BY <2>1 DEF PipeTypes, Placed, pipe
<1>15. ASSUME NEW w \in Worker, crash(w)
       PROVE  PipeTypes' /\ Placed'
  <2>1. /\ at[w] # NoMessage /\ Drop(w) /\ Goes(w, "idle")
        /\ UNCHANGED <<outbox, sending, stream, pel, lastId>>
        /\ faults' = faults + 1 /\ faults < MaxFaults
    BY <1>15 DEF crash, Fault
  <2>2. held'[w] = NoLease /\ \A v \in Worker \ {w} : held'[v] = held[v]
    BY <1>1, <2>1 DEF Drop
  <2>3. pel' \in SUBSET Pending /\ faults' \in 0..MaxFaults
    BY <1>1, <2>1
  <2>4. CASE at[w].pc # "idle"
    BY <2>1, <2>2, <2>3, <2>4, PlacedGoes
  <2>5. CASE at[w].pc = "idle"
    <3>1. /\ at' \in [Worker -> Place] /\ at'[w] = NoMessage
          /\ \A v \in Worker \ {w} : at'[v] = at[v]
      BY <1>1, <2>1, GoesTo
    <3>2. Placed'
      BY <2>2, <3>1 DEF Placed, NoMessage
    <3> QED BY <2>1, <2>3, <3>1, <3>2 DEF PipeTypes
  <2> QED BY <2>4, <2>5
<1>16. CASE Relay
  BY <1>16, <1>2, <1>3, <1>4, <1>7 DEF Relay
<1>17. CASE Time
  BY <1>17, <1>6, <1>7 DEF Time
<1>18. CASE \E c \in sending : relay_crash(c)
  BY <1>18, <1>5
<1>19. CASE \E w \in Worker : \/ read(w)
                              \/ \E m \in pel : reclaim(w, m)
                              \/ Handling(w)
                              \/ heartbeat(w)
                              \/ crash(w)
  BY <1>19, <1>9, <1>10, <1>11, <1>12, <1>13, <1>14, <1>15 DEF Handling
<1> QED BY <1>16, <1>17, <1>18, <1>19 DEF PipelineNext
-----------------------------------------------------------------------------
(* The remaining invariants tell few steps apart.  A worker moves on in     *)
(* _handle, and is about to acknowledge only a task that no longer waits;   *)
(* or the rows of the tasks change and nobody moves.                        *)
Moves(w, pc) ==
  /\ pc \in {"idle", "unclaimed", "dead_letter", "ack"}
  /\ Goes(w, pc)
  /\ pc # "idle" => at[w].pc # "idle"
  /\ pc \in {"dead_letter", "ack"} =>
       at[w].pc = "dead_letter" \/ task'[at[w].task].status \notin {"queued", "running"}
  /\ Quiet
  /\ UNCHANGED <<outbox, sending, stream, pel, lastId, poached>>
  /\ faults' \in {faults, faults + 1}

Waits ==
  /\ Quiet
  /\ UNCHANGED <<outbox, sending, stream, pel, lastId, at, poached>>
  /\ faults' \in {faults, faults + 1}

Shape ==
  \/ \E t \in Task, n \in Request : claim_outbox_batch(t, n) \/ event_time_passes(t, n)
  \/ \E c \in sending :
       \/ publish_task(c) \/ mark_outbox_published(c) \/ mark_outbox_failed(c)
       \/ relay_crash(c)
  \/ \E t \in Task : sweep(t)
  \/ \E w \in Worker :
       \/ read(w)
       \/ \E m \in pel : reclaim(w, m)
       \/ handle_claims(w)
       \/ ack(w)
       \/ \E pc \in {"idle", "unclaimed", "dead_letter", "ack"} : Moves(w, pc)
  \/ Waits

LEMMA ShapeOfStep ==
  ASSUME IInv, PipeTypes, Placed, PipelineNext
  PROVE  Shape
<1>1. /\ TypeOK
      /\ \A w \in Worker : at[w].pc # "idle" => at[w].task \in Task
  BY DEF IInv, Placed
<1>2. UNCHANGED vars => Quiet
  BY DEF vars, Quiet
<1>3. ASSUME NEW t \in Task, task_time_passes(t)
      PROVE  Waits
  <2>1. lease_passes(t) \/ retry_passes(t)
    BY <1>3 DEF task_time_passes
  <2>2. Quiet
    BY <1>1, <2>1, InstantQuiet
  <2>3. UNCHANGED <<outbox, sending, stream, pel, lastId, at, poached>>
        /\ faults' \in {faults, faults + 1}
    BY <1>3 DEF task_time_passes, Fault
  <2> QED BY <2>2, <2>3 DEF Waits
<1>4. ASSUME NEW w \in Worker, heartbeat(w)
      PROVE  Waits
  <2>1. renew_task_lease(w, at[w].task) /\ at[w].pc = "handler" /\ UNCHANGED pipe
    BY <1>4 DEF heartbeat
  <2>2. Quiet
    BY <1>1, <2>1, InstantQuiet
  <2> QED BY <2>1, <2>2 DEF Waits, pipe
<1>5. ASSUME NEW w \in Worker, handle_finds_none(w)
      PROVE  Moves(w, "unclaimed")
  BY <1>2, <1>5 DEF handle_finds_none, Moves
<1>6. ASSUME NEW w \in Worker, get_task(w)
      PROVE  \E pc \in {"idle", "ack"} : Moves(w, pc)
  <2>1. /\ at[w].pc = "unclaimed" /\ Quiet /\ task' = task
        /\ UNCHANGED <<outbox, sending, stream, pel, lastId, faults, poached>>
    BY <1>2, <1>6 DEF get_task, vars
  <2>2. CASE task[at[w].task].status \in
               {"blocked", "cancelled", "completed", "dead_letter", "retry"}
    <3>1. Goes(w, "ack")
      BY <1>6, <2>2 DEF get_task
    <3>2. Moves(w, "ack")
      BY <2>1, <2>2, <3>1 DEF Moves
    <3> QED BY <3>2
  <2>3. CASE task[at[w].task].status \notin
               {"blocked", "cancelled", "completed", "dead_letter", "retry"}
    <3>1. Goes(w, "idle")
      BY <1>6, <2>3 DEF get_task
    <3>2. Moves(w, "idle")
      BY <2>1, <3>1 DEF Moves
    <3> QED BY <3>2
  <2> QED BY <2>2, <2>3
<1>7. ASSUME NEW w \in Worker,
             handle_completes(w) \/ handle_fails(w) \/ handle_defers(w)
      PROVE  \E pc \in {"dead_letter", "ack"} : Moves(w, pc)
  <2> DEFINE t == at[w].task
  <2>1. /\ at[w].pc = "handler"
        /\ complete_task(w, t, {}) \/ fail_task(w, t) \/ defer_task(w, t)
        /\ UNCHANGED <<outbox, sending, stream, pel, lastId, faults, poached>>
    BY <1>7 DEF handle_completes, handle_fails, handle_defers
  <2>2. PICK pc \in {"dead_letter", "ack"} : Goes(w, pc)
    BY <1>7 DEF handle_completes, handle_fails, handle_defers
  <2>3. t \in Task
    BY <1>1, <2>1
  <2>4. Quiet /\ task'[t].status \in {"completed", "retry", "dead_letter"}
    BY <1>1, <2>1, <2>3, SettleQuiet
  <2>5. Moves(w, pc)
    BY <2>1, <2>2, <2>4 DEF Moves
  <2> QED BY <2>5
<1>8. ASSUME NEW w \in Worker, handle_stale(w) \/ crash(w)
      PROVE  Moves(w, "idle")
  <2>1. /\ UNCHANGED <<task, requested>> /\ Goes(w, "idle")
        /\ UNCHANGED <<outbox, sending, stream, pel, lastId, poached>>
        /\ faults' \in {faults, faults + 1}
    BY <1>8 DEF handle_stale, stale_settle, crash, Fault
  <2> QED BY <2>1 DEF Moves, Quiet
<1>9. ASSUME NEW w \in Worker, dead_letter(w)
      PROVE  Moves(w, "ack")
  BY <1>2, <1>9 DEF dead_letter, Moves
<1>10. CASE Relay
  BY <1>10 DEF Relay, Shape
<1>11. CASE Time
  BY <1>11, <1>3 DEF Time, Shape
<1>12. CASE \E c \in sending : relay_crash(c)
  BY <1>12 DEF Shape
<1>13. CASE \E w \in Worker : \/ read(w)
                              \/ \E m \in pel : reclaim(w, m)
                              \/ Handling(w)
                              \/ heartbeat(w)
                              \/ crash(w)
  BY <1>13, <1>4, <1>5, <1>6, <1>7, <1>8, <1>9 DEF Handling, Shape
<1> QED BY <1>10, <1>11, <1>12, <1>13 DEF PipelineNext

(* The step of handle_claims.                                               *)
LEMMA HandleClaims ==
  ASSUME IInv, PipeTypes, Placed, NEW w \in Worker, handle_claims(w)
  PROVE  LET t == at[w].task
         IN /\ t \in Task
            /\ at[w].pc = "got" /\ Goes(w, "handler")
            /\ requested' = requested
            /\ task'[t].status = "running"
            /\ task'[t].attempt_count = task[t].attempt_count + 1
            /\ \A a \in Task \ {t} : task'[a] = task[a]
            /\ task[t].status \in {"queued", "running", "retry"}
            /\ poached \subseteq poached'
            /\ task[t].status = "retry" => t \in poached'
            /\ UNCHANGED <<outbox, sending, stream, pel, lastId, faults>>
<1> DEFINE t == at[w].task
<1>1. /\ at[w].pc = "got" /\ Goes(w, "handler") /\ claim_task(w, t)
      /\ poached' = IF task[t].status = "retry" THEN poached \cup {t} ELSE poached
      /\ UNCHANGED <<outbox, sending, stream, pel, lastId, faults>>
  BY DEF handle_claims
<1>2. t \in Task
  BY <1>1 DEF Placed
<1>3. /\ requested' = requested
      /\ task'[t].status = "running" /\ task'[t].attempt_count = task[t].attempt_count + 1
      /\ \A a \in Task \ {t} : task'[a] = task[a]
      /\ task[t].status \in {"queued", "running", "retry"}
  BY <1>1, <1>2, ClaimEffect
<1> QED BY <1>1, <1>2, <1>3
-----------------------------------------------------------------------------
(* The ids.                                                                 *)
LEMMA InSeq ==
  ASSUME NEW S, NEW s \in Seq(S), NEW i \in DOMAIN s
  PROVE  s[i] \in S
OBVIOUS

LEMMA IdsTyped ==
  ASSUME PipeTypes
  PROVE  /\ \A i \in DOMAIN stream : stream[i] \in Entry /\ stream[i].id \in Nat
         /\ \A m \in pel : m.id \in Nat
         /\ \A w \in Worker : at[w].id \in Nat
<1>1. \A i \in DOMAIN stream : stream[i] \in Entry
  BY InSeq DEF PipeTypes
<1>2. \A m \in pel : m.id \in Nat
  BY DEF PipeTypes, Pending
<1>3. \A w \in Worker : at[w].id \in Nat
  BY DEF PipeTypes, Place
<1> QED BY <1>1, <1>2, <1>3 DEF Entry

LEMMA IdsQuiet ==
  ASSUME PipeTypes, PipeTypes', IdsGrow, IdsAgree, UNCHANGED <<stream, lastId>>,
         \A m \in pel' : \E p \in pel : p.id = m.id /\ p.task = m.task,
         \A w \in Worker : \/ at'[w].pc = "idle" /\ at'[w].id = 0
                           \/ /\ at[w].pc # "idle"
                              /\ at'[w].id = at[w].id /\ at'[w].task = at[w].task
                           \/ at'[w] = at[w]
                           \/ /\ stream = <<>>
                              /\ \E p \in pel : at'[w].id = p.id /\ at'[w].task = p.task
  PROVE  IdsGrow' /\ IdsAgree'
<1>1. /\ \A i \in DOMAIN stream : stream[i].id \in Nat
      /\ \A m \in pel : m.id \in Nat
      /\ \A w \in Worker : at[w].id \in Nat
      /\ lastId \in Nat
  BY IdsTyped DEF PipeTypes
<1>2. \A w \in Worker : at'[w].id <= lastId
  BY <1>1 DEF IdsGrow
<1>3. \A i \in DOMAIN stream : \A w \in Worker : at'[w].id < stream[i].id
  BY <1>1 DEF IdsGrow
<1>4. IdsGrow'
  BY <1>1, <1>2, <1>3 DEF IdsGrow
<1>5. \A m \in pel' : \A w \in Worker :
        at'[w].pc # "idle" /\ at'[w].id = m.id => at'[w].task = m.task
  BY DEF IdsAgree
<1>6. \A m, p \in pel' : m.id = p.id => m.task = p.task
  BY DEF IdsAgree
<1> QED BY <1>4, <1>5, <1>6 DEF IdsAgree

LEMMA IdsAppend ==
  ASSUME PipeTypes, IdsGrow, IdsAgree, UNCHANGED <<pel, at>>, NEW t \in Task,
         stream' = Append(stream, [id |-> lastId + 1, task |-> t]),
         lastId' = lastId + 1
  PROVE  IdsGrow' /\ IdsAgree'
<1> DEFINE e == [id |-> lastId + 1, task |-> t]
<1>1. /\ stream \in Seq(Entry) /\ lastId \in Nat
      /\ \A m \in pel : m.id \in Nat
      /\ \A w \in Worker : at[w].id \in Nat
  BY DEF PipeTypes, Pending, Place
<1>2. e \in Entry /\ e.id = lastId + 1
  BY <1>1 DEF Entry
<1>3. /\ Len(stream') = Len(stream) + 1
      /\ stream'[Len(stream) + 1] = e
      /\ \A i \in 1..Len(stream) : stream'[i] = stream[i]
      /\ DOMAIN stream' = 1..(Len(stream) + 1)
      /\ DOMAIN stream = 1..Len(stream)
      /\ Len(stream) \in Nat
  BY <1>1, <1>2
<1>4. \A i \in DOMAIN stream : stream[i].id \in Nat
  BY IdsTyped
<1> HIDE DEF e
<1>7. \A k \in DOMAIN stream : /\ \A w \in Worker : at[w].id < stream[k].id
                               /\ \A m \in pel : m.id < stream[k].id
  BY DEF IdsGrow
<1>5. ASSUME NEW i \in DOMAIN stream'
      PROVE  /\ stream'[i].id <= lastId'
             /\ \A w \in Worker : at[w].id < stream'[i].id
             /\ \A m \in pel : m.id < stream'[i].id
             /\ \A j \in DOMAIN stream' : i < j => stream'[i].id < stream'[j].id
  <2>1. CASE i \in 1..Len(stream)
    <3>1. stream'[i] = stream[i] /\ i \in DOMAIN stream
      BY <1>3, <2>1
    <3>2. /\ stream[i].id \in Nat /\ stream[i].id <= lastId
          /\ \A w \in Worker : at[w].id < stream[i].id
          /\ \A m \in pel : m.id < stream[i].id
      <4>1. stream[i].id \in Nat
        BY <1>4, <3>1
      <4>2. stream[i].id <= lastId
        BY <3>1 DEF IdsGrow
      <4>3. /\ \A w \in Worker : at[w].id < stream[i].id
            /\ \A m \in pel : m.id < stream[i].id
        BY <3>1, <1>7
      <4> QED BY <4>1, <4>2, <4>3
    <3>3. ASSUME NEW j \in DOMAIN stream', i < j
          PROVE  stream[i].id < stream'[j].id
      <4>1. CASE j \in 1..Len(stream)
        <5>1. stream'[j] = stream[j] /\ j \in DOMAIN stream
          BY <1>3, <4>1
        <5> QED BY <3>1, <3>3, <5>1 DEF IdsGrow
      <4>2. CASE j = Len(stream) + 1
        BY <1>1, <1>2, <1>3, <3>2, <4>2
      <4> QED BY <1>3, <4>1, <4>2
    <3> QED BY <1>1, <3>1, <3>2, <3>3
  <2>2. CASE i = Len(stream) + 1
    BY <1>1, <1>2, <1>3, <2>2 DEF IdsGrow
  <2> QED BY <1>3, <2>1, <2>2
<1>6. /\ \A m \in pel : m.id <= lastId + 1
      /\ \A w \in Worker : at[w].id <= lastId + 1
  BY <1>1 DEF IdsGrow
<1> QED BY <1>5, <1>6 DEF IdsGrow, IdsAgree

LEMMA AppendOf ==
  ASSUME NEW S, NEW s \in Seq(S), NEW x \in S
  PROVE  /\ \A i \in DOMAIN s : i \in DOMAIN Append(s, x) /\ Append(s, x)[i] = s[i]
         /\ Len(s) + 1 \in DOMAIN Append(s, x) /\ Append(s, x)[Len(s) + 1] = x
OBVIOUS

LEMMA TailOf ==
  ASSUME NEW S, NEW s \in Seq(S), s # <<>>
  PROVE  /\ Head(s) = s[1] /\ 1 \in DOMAIN s /\ Head(s) \in S
         /\ \A i \in DOMAIN Tail(s) : i + 1 \in DOMAIN s /\ Tail(s)[i] = s[i + 1] /\ i \in Nat
                                      /\ i >= 1
         /\ \A i \in DOMAIN s : i = 1 \/ (i - 1 \in DOMAIN Tail(s) /\ Tail(s)[i - 1] = s[i])
OBVIOUS

LEMMA IdsStep ==
  ASSUME IInv, PipeTypes, PipeTypes', Placed, IdsGrow, IdsAgree, Shape
  PROVE  IdsGrow' /\ IdsAgree'
<1>1. /\ at \in [Worker -> Place] /\ stream \in Seq(Entry) /\ pel \in SUBSET Pending
      /\ sending \in SUBSET Claim
  BY DEF PipeTypes
<1>2. ASSUME UNCHANGED <<stream, lastId, pel, at>>
      PROVE  IdsGrow' /\ IdsAgree'
  BY <1>2 DEF IdsGrow, IdsAgree
<1>3. ASSUME NEW t \in Task, NEW n \in Request, claim_outbox_batch(t, n)
      PROVE  IdsGrow' /\ IdsAgree'
  BY <1>2, <1>3 DEF claim_outbox_batch
<1>4. ASSUME NEW t \in Task, NEW n \in Request, event_time_passes(t, n)
      PROVE  IdsGrow' /\ IdsAgree'
  BY <1>2, <1>4 DEF event_time_passes
<1>5. ASSUME NEW c \in sending, publish_task(c)
      PROVE  IdsGrow' /\ IdsAgree'
  <2>1. /\ UNCHANGED <<pel, at>>
        /\ \/ /\ stream' = Append(stream, [id |-> lastId + 1, task |-> c.task])
              /\ lastId' = lastId + 1
           \/ stream' = stream /\ lastId' = lastId
    BY <1>5, PublishEffect
  <2>2. c.task \in Task
    BY <1>1 DEF Claim
  <2> QED BY <1>2, <2>1, <2>2, IdsAppend
<1>6. ASSUME NEW c \in sending,
             mark_outbox_published(c) \/ mark_outbox_failed(c) \/ relay_crash(c)
      PROVE  IdsGrow' /\ IdsAgree'
  BY <1>2, <1>6 DEF mark_outbox_published, mark_outbox_failed, relay_crash
<1>7. ASSUME NEW t \in Task, sweep(t)
      PROVE  IdsGrow' /\ IdsAgree'
  BY <1>2, <1>7 DEF sweep
<1>8. ASSUME NEW w \in Worker, read(w)
      PROVE  IdsGrow' /\ IdsAgree'
  <2> DEFINE m == Head(stream)
             p == [id |-> m.id, task |-> m.task, consumer |-> w]
             got == [pc |-> "got", id |-> m.id, task |-> m.task]
  <2>1. /\ stream # <<>> /\ at[w] = NoMessage
        /\ pel' = pel \cup {p}
        /\ at' = [at EXCEPT ![w] = got]
        /\ stream' = Tail(stream)
        /\ lastId' = lastId
    BY <1>8 DEF read
  <2>2. p.id = m.id /\ p.task = m.task /\ got.id = m.id /\ got.task = m.task
    OBVIOUS
  <2>3. /\ m = stream[1] /\ 1 \in DOMAIN stream /\ m \in Entry
        /\ \A i \in DOMAIN Tail(stream) : /\ i + 1 \in DOMAIN stream
                                          /\ Tail(stream)[i] = stream[i + 1]
                                          /\ i \in Nat /\ i >= 1
    BY <1>1, <2>1, TailOf
  <2>4. /\ \A i \in DOMAIN stream : stream[i].id \in Nat
        /\ \A q \in pel : q.id \in Nat
        /\ \A v \in Worker : at[v].id \in Nat
        /\ m.id \in Nat
    BY <2>3, IdsTyped
  <2> HIDE DEF m, p, got
  <2>5. at'[w] = got /\ \A v \in Worker \ {w} : at'[v] = at[v]
    BY <1>1, <2>1
  <2>6. /\ m.id <= lastId
        /\ \A v \in Worker : at[v].id < m.id
        /\ \A q \in pel : q.id < m.id
        /\ \A i \in DOMAIN stream' : m.id < stream'[i].id
    BY <2>1, <2>3, <2>4 DEF IdsGrow
  <2>7. \A i \in DOMAIN stream' :
          /\ stream'[i].id <= lastId
          /\ \A v \in Worker : at[v].id < stream'[i].id
          /\ \A q \in pel : q.id < stream'[i].id
          /\ \A j \in DOMAIN stream' : i < j => stream'[i].id < stream'[j].id
    <3> TAKE i \in DOMAIN stream'
    <3>1. i + 1 \in DOMAIN stream /\ stream'[i] = stream[i + 1] /\ i \in Nat
      BY <2>1, <2>3
    <3>2. \A j \in DOMAIN stream' :
            /\ j + 1 \in DOMAIN stream /\ stream'[j] = stream[j + 1] /\ j \in Nat
            /\ i < j => i + 1 < j + 1
      BY <2>1, <2>3, <3>1
    <3> QED BY <3>1, <3>2 DEF IdsGrow
  <2>8. /\ \A q \in pel' : q.id <= lastId
        /\ \A v \in Worker : at'[v].id <= lastId
    BY <2>1, <2>2, <2>5, <2>6 DEF IdsGrow
  <2>9. \A i \in DOMAIN stream' :
          /\ \A v \in Worker : at'[v].id < stream'[i].id
          /\ \A q \in pel' : q.id < stream'[i].id
    BY <2>1, <2>2, <2>5, <2>6, <2>7
  <2>10. IdsGrow'
    BY <2>1, <2>7, <2>8, <2>9 DEF IdsGrow
  <2>11. \A q \in pel : q.id # m.id
    BY <2>4, <2>6
  <2>12. \A v \in Worker : at[v].id # m.id
    BY <2>4, <2>6
  <2>13. IdsAgree'
    BY <2>1, <2>2, <2>5, <2>11, <2>12 DEF IdsAgree
  <2> QED BY <2>10, <2>13
<1>9. ASSUME NEW w \in Worker, NEW m \in pel, reclaim(w, m)
      PROVE  IdsGrow' /\ IdsAgree'
  <2> DEFINE p == [id |-> m.id, task |-> m.task, consumer |-> w]
             got == [pc |-> "got", id |-> m.id, task |-> m.task]
  <2>1. /\ stream = <<>> /\ UNCHANGED <<stream, lastId>>
        /\ pel' = (pel \ {m}) \cup {p}
        /\ at' = [at EXCEPT ![w] = got]
    BY <1>9 DEF reclaim
  <2>2. p.id = m.id /\ p.task = m.task /\ got.id = m.id /\ got.task = m.task
    OBVIOUS
  <2> HIDE DEF p, got
  <2>3. \A q \in pel' : \E o \in pel : o.id = q.id /\ o.task = q.task
    BY <2>1, <2>2
  <2>4. at'[w] = got /\ \A v \in Worker \ {w} : at'[v] = at[v]
    BY <1>1, <2>1
  <2>5. \A v \in Worker :
          \/ at'[v] = at[v]
          \/ stream = <<>> /\ \E o \in pel : at'[v].id = o.id /\ at'[v].task = o.task
    BY <2>1, <2>2, <2>4
  <2> QED BY <2>1, <2>3, <2>5, IdsQuiet
<1>10. ASSUME NEW w \in Worker, NEW pc \in {"idle", "unclaimed", "dead_letter", "ack", "handler"},
              Goes(w, pc), pc # "idle" => at[w].pc # "idle", pel' \subseteq pel,
              UNCHANGED <<stream, lastId>>
       PROVE  IdsGrow' /\ IdsAgree'
  <2>1. /\ pc # "idle" => at'[w].id = at[w].id /\ at'[w].task = at[w].task
        /\ pc = "idle" => at'[w] = NoMessage
        /\ \A v \in Worker \ {w} : at'[v] = at[v]
    BY <1>1, <1>10, GoesTo
  <2>2. \A v \in Worker : \/ at'[v].pc = "idle" /\ at'[v].id = 0
                          \/ /\ at[v].pc # "idle"
                             /\ at'[v].id = at[v].id /\ at'[v].task = at[v].task
                          \/ at'[v] = at[v]
    BY <1>10, <2>1 DEF NoMessage
  <2> QED BY <1>10, <2>2, IdsQuiet
<1>11. ASSUME NEW w \in Worker, handle_claims(w) \/ ack(w)
       PROVE  IdsGrow' /\ IdsAgree'
  <2>1. /\ Goes(w, "handler") \/ Goes(w, "idle")
        /\ at[w].pc \in {"got", "ack"}
        /\ pel' \subseteq pel
        /\ UNCHANGED <<stream, lastId>>
    BY <1>11 DEF handle_claims, ack
  <2> QED BY <2>1, <1>10
<1>12. ASSUME NEW w \in Worker, NEW pc \in {"idle", "unclaimed", "dead_letter", "ack"},
              Moves(w, pc)
       PROVE  IdsGrow' /\ IdsAgree'
  <2>1. /\ Goes(w, pc)
        /\ pc # "idle" => at[w].pc # "idle"
        /\ pel' \subseteq pel /\ UNCHANGED <<stream, lastId>>
    BY <1>12 DEF Moves
  <2> QED BY <2>1, <1>10
<1>13. CASE Waits
  BY <1>2, <1>13 DEF Waits
<1> QED BY <1>3, <1>4, <1>5, <1>6, <1>7, <1>8, <1>9, <1>11, <1>12, <1>13 DEF Shape
-----------------------------------------------------------------------------
(* The requests.                                                            *)
LEMMA RequestsStep ==
  ASSUME IInv, PipeTypes, Placed, RequestsFit, Shape
  PROVE  RequestsFit'
<1>1. /\ TypeOK
      /\ \A a \in Task : requested[a] \in Nat /\ task[a].attempt_count \in Nat
      /\ requested \in [Task -> Nat]
  BY DEF IInv, TypeOK, TaskRow
<1>2. ASSUME Quiet PROVE RequestsFit'
  BY <1>2 DEF Quiet, RequestsFit
<1>3. ASSUME UNCHANGED vars PROVE RequestsFit'
  BY <1>3 DEF vars, RequestsFit
<1>4. ASSUME NEW t \in Task, sweep(t) PROVE RequestsFit'
  <2>1. /\ requested' = [requested EXCEPT ![t] = requested[t] + 1]
        /\ task[t].status = "retry" /\ task'[t].status = "queued"
        /\ task'[t].attempt_count = task[t].attempt_count
        /\ \A a \in Task \ {t} : task'[a] = task[a]
    BY <1>1, <1>4, SweepEffect DEF sweep
  <2>2. ASSUME NEW a \in Task
        PROVE  /\ requested'[a] >= 1
               /\ requested'[a] <= task'[a].attempt_count + 1
               /\ task'[a].status # "queued" => requested'[a] <= task'[a].attempt_count
    <3>1. CASE a = t
      BY <1>1, <2>1, <3>1 DEF RequestsFit
    <3>2. CASE a # t
      BY <1>1, <2>1, <3>2 DEF RequestsFit
    <3> QED BY <3>1, <3>2
  <2> QED BY <2>2 DEF RequestsFit
<1>5. ASSUME NEW w \in Worker, handle_claims(w) PROVE RequestsFit'
  <2> DEFINE t == at[w].task
  <2>1. /\ t \in Task
        /\ requested' = requested
        /\ task'[t].attempt_count = task[t].attempt_count + 1
        /\ \A a \in Task \ {t} : task'[a] = task[a]
    BY <1>5, HandleClaims
  <2> HIDE DEF t
  <2>2. ASSUME NEW a \in Task
        PROVE  /\ requested'[a] >= 1
               /\ requested'[a] <= task'[a].attempt_count + 1
               /\ task'[a].status # "queued" => requested'[a] <= task'[a].attempt_count
    <3>1. CASE a = t
      BY <1>1, <2>1, <3>1 DEF RequestsFit
    <3>2. CASE a # t
      BY <1>1, <2>1, <3>2 DEF RequestsFit
    <3> QED BY <3>1, <3>2
  <2> QED BY <2>2 DEF RequestsFit
<1>6. ASSUME NEW t \in Task, NEW n \in Request,
             claim_outbox_batch(t, n) \/ event_time_passes(t, n)
      PROVE  RequestsFit'
  BY <1>3, <1>6 DEF claim_outbox_batch, event_time_passes
<1>7. ASSUME NEW c \in sending,
             \/ publish_task(c) \/ mark_outbox_published(c) \/ mark_outbox_failed(c)
             \/ relay_crash(c)
      PROVE  RequestsFit'
  BY <1>3, <1>7 DEF publish_task, mark_outbox_published, mark_outbox_failed, relay_crash
<1>8. ASSUME NEW w \in Worker, read(w) \/ (\E m \in pel : reclaim(w, m)) \/ ack(w)
      PROVE  RequestsFit'
  BY <1>3, <1>8 DEF read, reclaim, ack
<1>9. ASSUME NEW w \in Worker, NEW pc, Moves(w, pc)
      PROVE  RequestsFit'
  BY <1>2, <1>9 DEF Moves
<1>10. CASE Waits
  BY <1>2, <1>10 DEF Waits
<1> QED BY <1>4, <1>5, <1>6, <1>7, <1>8, <1>9, <1>10 DEF Shape

(* The model follows the request that a sweep makes.                        *)
LEMMA SweepInRange ==
  ASSUME IInv, RequestsFit, NEW t \in Task, task[t].status = "retry"
  PROVE  requested[t] + 1 \in Request
<1>1. /\ requested[t] \in Nat /\ task[t].attempt_count \in Nat
      /\ task[t].attempt_count <= MaxClaims /\ MaxClaims \in Nat
  BY Constants DEF IInv, TypeOK, TaskRow, AttemptLedger
<1>2. requested[t] <= task[t].attempt_count
  BY DEF RequestsFit
<1> QED BY <1>1, <1>2 DEF Request, MaxRequests
-----------------------------------------------------------------------------
(* Which claims keep their event after a step of a relay.                   *)

(* Steps that change no event and no claim.                                 *)
LEMMA OutboxFramed ==
  ASSUME UNCHANGED <<outbox, sending>>
  PROVE  \A t \in Task : \A n \in Request : InHand(t, n)' <=> InHand(t, n)
BY DEF InHand, StillMine

(* claim_outbox_batch: the event is in hand, no other leaves it.            *)
LEMMA BatchHands ==
  ASSUME PipeTypes, NEW t \in Task, NEW n \in Request, claim_outbox_batch(t, n)
  PROVE  /\ InHand(t, n)'
         /\ \A u \in Task : \A k \in Request :
              (u # t \/ k # n) /\ InHand(u, k) => InHand(u, k)'
<1>1. PICK c \in Claim :
           /\ c.task = t /\ c.request = n
           /\ sending' = sending \cup {c}
           /\ outbox'[t][n].status = "publishing"
           /\ outbox'[t][n].publish_attempt_count = c.lease_token
           /\ outbox'[t][n].lease_expires_at = "future"
           /\ \A u \in Task : \A k \in Request :
                u # t \/ k # n => outbox'[u][k] = outbox[u][k]
  BY BatchEffect
<1>2. InHand(t, n)'
  BY <1>1 DEF InHand, StillMine
<1>3. ASSUME NEW u \in Task, NEW k \in Request, u # t \/ k # n, InHand(u, k)
      PROVE  InHand(u, k)'
  BY <1>1, <1>3 DEF InHand, StillMine
<1> QED BY <1>2, <1>3

(* publish_task: what was in hand stays in hand.                            *)
LEMMA PublishHands ==
  ASSUME PipeTypes, NEW c \in sending, publish_task(c)
  PROVE  \A u \in Task : \A k \in Request : InHand(u, k) => InHand(u, k)'
<1>1. outbox' = outbox
  BY DEF publish_task
<1>2. PICK d \in Claim :
        /\ d.task = c.task /\ d.request = c.request /\ d.lease_token = c.lease_token
        /\ sending' = (sending \ {c}) \cup {d}
  BY PublishEffect
<1>3. ASSUME NEW u \in Task, NEW k \in Request, InHand(u, k)
      PROVE  InHand(u, k)'
  <2>1. PICK x \in sending : x.task = u /\ x.request = k /\ StillMine(x)
    BY <1>3 DEF InHand
  <2>2. \E y \in sending' : y.task = u /\ y.request = k /\ y.lease_token = x.lease_token
    BY <1>2, <2>1
  <2> QED BY <1>1, <1>3, <2>1, <2>2 DEF InHand, StillMine
<1> QED BY <1>3

(* A mark: what was in hand stays so, but for the event that is marked.     *)
LEMMA MarkHands ==
  ASSUME PipeTypes, NEW c \in sending, mark_outbox_published(c) \/ mark_outbox_failed(c)
  PROVE  \A u \in Task : \A k \in Request :
           InHand(u, k) => InHand(u, k)' \/ (StillMine(c) /\ u = c.task /\ k = c.request)
<1>1. /\ sending' = sending \ {c}
      /\ \A u \in Task : \A k \in Request :
              u # c.task \/ k # c.request => outbox'[u][k] = outbox[u][k]
      /\ ~StillMine(c) => outbox'[c.task][c.request] = outbox[c.task][c.request]
  BY MarkEffect
<1>2. ASSUME NEW u \in Task, NEW k \in Request, InHand(u, k),
             ~(StillMine(c) /\ u = c.task /\ k = c.request)
      PROVE  InHand(u, k)'
  <2>1. outbox'[u][k] = outbox[u][k]
    BY <1>1, <1>2
  <2>2. PICK x \in sending : x.task = u /\ x.request = k /\ StillMine(x)
    BY <1>2 DEF InHand
  <2>3. x # c
    BY <1>2, <2>2
  <2> QED BY <1>1, <1>2, <2>1, <2>2, <2>3 DEF InHand, StillMine
<1> QED BY <1>2

(* The crash of a relay: only the event of the lost claim leaves the hand.  *)
LEMMA CrashHands ==
  ASSUME PipeTypes, NEW c \in sending, relay_crash(c)
  PROVE  \A u \in Task : \A k \in Request :
           InHand(u, k) => InHand(u, k)' \/ (u = c.task /\ k = c.request)
<1>1. sending' = sending \ {c} /\ outbox' = outbox
  BY DEF relay_crash
<1> QED BY <1>1 DEF InHand, StillMine

(* Time: only the event whose lease lapses leaves the hand, by a fault.     *)
LEMMA InstantHands ==
  ASSUME PipeTypes, NEW t \in Task, NEW n \in Request, event_time_passes(t, n)
  PROVE  \A u \in Task : \A k \in Request :
           InHand(u, k) => InHand(u, k)' \/ (u = t /\ k = n /\ faults' = faults + 1)
<1>1. /\ sending' = sending
      /\ \A u \in Task : \A k \in Request :
           u # t \/ k # n => outbox'[u][k] = outbox[u][k]
      /\ outbox'[t][n].status = outbox[t][n].status
      /\ outbox'[t][n].publish_attempt_count = outbox[t][n].publish_attempt_count
      /\ \/ outbox'[t][n].lease_expires_at = outbox[t][n].lease_expires_at
         \/ ~\E c \in sending : c.task = t /\ c.request = n /\ StillMine(c)
         \/ faults' = faults + 1
  BY InstantEffect
<1>2. ASSUME NEW u \in Task, NEW k \in Request, InHand(u, k)
      PROVE  InHand(u, k)' \/ (u = t /\ k = n /\ faults' = faults + 1)
  <2>1. CASE u # t \/ k # n
    <3>1. outbox'[u][k] = outbox[u][k]
      BY <1>1, <2>1
    <3> QED BY <1>1, <1>2, <3>1 DEF InHand, StillMine
  <2>2. CASE u = t /\ k = n
    BY <1>1, <1>2, <2>2 DEF InHand, StillMine
  <2> QED BY <2>1, <2>2
<1> QED BY <1>2
-----------------------------------------------------------------------------
(* The attempts to publish.                                                 *)
Fits(t, n) ==
  LET e == outbox[t][n]
  IN /\ n > requested[t] => e.status = "pending"
     /\ e.publish_attempt_count <= OutboxMaxAttempts + faults
     /\ e.status \in {"pending", "retry"} => e.publish_attempt_count < OutboxMaxAttempts
     /\ e.status = "publishing" /\ ~InHand(t, n)
          => e.publish_attempt_count < OutboxMaxAttempts + faults

LEMMA FitsIs ==
  AttemptsFit <=> /\ \A c \in sending : c.request <= requested[c.task]
                  /\ \A t \in Task : \A n \in Request : Fits(t, n)
BY DEF AttemptsFit, Fits

LEMMA FitsAfter ==
  ASSUME \A c \in sending' : c.request <= requested'[c.task],
         \A t \in Task : \A n \in Request : Fits(t, n)'
  PROVE  AttemptsFit'
BY DEF AttemptsFit, Fits

(* An event that keeps its status and attempts, with no fewer faults, and   *)
(* that a fault pays for if it leaves the hand.                             *)
LEMMA FitsKept ==
  ASSUME PipeTypes, NEW t \in Task, NEW n \in Request, Fits(t, n),
         outbox'[t][n].status = outbox[t][n].status,
         outbox'[t][n].publish_attempt_count = outbox[t][n].publish_attempt_count,
         faults' \in {faults, faults + 1},
         InHand(t, n) => InHand(t, n)' \/ faults' = faults + 1,
         n > requested'[t] => n > requested[t]
  PROVE  Fits(t, n)'
<1>1. outbox[t][n].publish_attempt_count \in Nat /\ faults \in Nat /\ OutboxMaxAttempts \in Nat
  BY PipeConstants DEF PipeTypes, Event
<1> QED BY <1>1 DEF Fits

LEMMA AttemptsStep ==
  ASSUME IInv, PipeTypes, Placed, RequestsFit, AttemptsFit, Shape
  PROVE  AttemptsFit'
<1>1. /\ TypeOK /\ requested \in [Task -> Nat]
      /\ sending \in SUBSET Claim /\ faults \in Nat
      /\ outbox \in [Task -> [Request -> Event]]
  BY PipeConstants DEF IInv, TypeOK, PipeTypes
<1>2. /\ \A c \in sending : c.request <= requested[c.task]
      /\ \A t \in Task : \A n \in Request : Fits(t, n)
  BY FitsIs
<1>3. \A c \in sending : c.task \in Task /\ c.request \in Request /\ c.request \in Nat
  BY <1>1, PipeConstants DEF Claim, Request
<1>4. ASSUME UNCHANGED <<outbox, sending, requested>>, faults' \in {faults, faults + 1}
      PROVE  AttemptsFit'
  <2>1. ASSUME NEW t \in Task, NEW n \in Request PROVE Fits(t, n)'
    BY <1>2, <1>4, OutboxFramed, FitsKept
  <2>2. \A c \in sending' : c.request <= requested'[c.task]
    BY <1>2, <1>4
  <2>3. /\ \A c \in sending' : c.request <= requested'[c.task]
        /\ \A t \in Task : \A n \in Request : Fits(t, n)'
    BY <2>1, <2>2
  <2> QED BY <2>3, FitsAfter
<1>5. ASSUME NEW t \in Task, NEW n \in Request, claim_outbox_batch(t, n)
      PROVE  AttemptsFit'
  <2>1. PICK c \in Claim :
           /\ c.task = t /\ c.request = n
           /\ c.lease_token = outbox[t][n].publish_attempt_count + 1
           /\ sending' = sending \cup {c}
           /\ outbox'[t][n].status = "publishing"
           /\ outbox'[t][n].publish_attempt_count = c.lease_token
           /\ \A u \in Task : \A k \in Request :
                u # t \/ k # n => outbox'[u][k] = outbox[u][k]
           /\ n <= requested[t]
           /\ \/ outbox[t][n].status \in {"pending", "retry"}
              \/ outbox[t][n].status = "publishing" /\ outbox[t][n].lease_expires_at = "past"
           /\ requested' = requested /\ faults' = faults
    BY <1>5, BatchEffect DEF vars
  <2>2. /\ InHand(t, n)'
        /\ \A u \in Task : \A k \in Request :
              (u # t \/ k # n) /\ InHand(u, k) => InHand(u, k)'
    BY <1>5, BatchHands
  <2>3. ASSUME NEW u \in Task, NEW k \in Request, u # t \/ k # n PROVE Fits(u, k)'
    BY <1>2, <2>1, <2>2, <2>3, FitsKept
  <2>4. Fits(t, n)'
    <3>1. outbox[t][n].publish_attempt_count \in Nat /\ OutboxMaxAttempts \in Nat
      BY <1>1, PipeConstants DEF Event
    <3>2. outbox[t][n].publish_attempt_count < OutboxMaxAttempts + faults
      BY <1>1, <1>2, <2>1, <3>1 DEF Fits, InHand
    <3>3. requested[t] \in Nat /\ n \in Nat
      BY <1>1, PipeConstants DEF Request
    <3> QED BY <1>1, <2>1, <2>2, <3>1, <3>2, <3>3 DEF Fits
  <2>5. /\ \A d \in sending' : d.request <= requested'[d.task]
        /\ \A u \in Task : \A k \in Request : Fits(u, k)'
    BY <1>2, <2>1, <2>3, <2>4
  <2> QED BY <2>5, FitsAfter
<1>6. ASSUME NEW t \in Task, NEW n \in Request, event_time_passes(t, n)
      PROVE  AttemptsFit'
  <2>1. /\ sending' = sending /\ requested' = requested
        /\ \A u \in Task : \A k \in Request :
             u # t \/ k # n => outbox'[u][k] = outbox[u][k]
        /\ outbox'[t][n].status = outbox[t][n].status
        /\ outbox'[t][n].publish_attempt_count = outbox[t][n].publish_attempt_count
        /\ faults' \in {faults, faults + 1}
    BY <1>6, InstantEffect DEF vars
  <2>2. \A u \in Task : \A k \in Request :
          InHand(u, k) => InHand(u, k)' \/ faults' = faults + 1
    BY <1>6, InstantHands
  <2>3. ASSUME NEW u \in Task, NEW k \in Request PROVE Fits(u, k)'
    <3>1. /\ outbox'[u][k].status = outbox[u][k].status
          /\ outbox'[u][k].publish_attempt_count = outbox[u][k].publish_attempt_count
      BY <2>1
    <3> QED BY <1>2, <2>1, <2>2, <3>1, FitsKept
  <2>4. /\ \A d \in sending' : d.request <= requested'[d.task]
        /\ \A u \in Task : \A k \in Request : Fits(u, k)'
    BY <1>2, <2>1, <2>3
  <2> QED BY <2>4, FitsAfter
<1>7. ASSUME NEW c \in sending, publish_task(c)
      PROVE  AttemptsFit'
  <2>1. PICK d \in Claim :
          /\ d.task = c.task /\ d.request = c.request
          /\ sending' = (sending \ {c}) \cup {d}
          /\ faults' \in {faults, faults + 1}
    BY <1>7, PublishEffect
  <2>2. outbox' = outbox /\ requested' = requested
    BY <1>7 DEF publish_task, vars
  <2>3. ASSUME NEW u \in Task, NEW k \in Request PROVE Fits(u, k)'
    BY <1>2, <1>7, <2>1, <2>2, PublishHands, FitsKept
  <2>4. /\ \A x \in sending' : x.request <= requested'[x.task]
        /\ \A u \in Task : \A k \in Request : Fits(u, k)'
    BY <1>2, <2>1, <2>2, <2>3
  <2> QED BY <2>4, FitsAfter
<1>8. ASSUME NEW c \in sending, mark_outbox_published(c) \/ mark_outbox_failed(c)
      PROVE  AttemptsFit'
  <2> DEFINE t == c.task
             n == c.request
  <2>1. /\ sending' = sending \ {c} /\ requested' = requested /\ faults' = faults
        /\ \A u \in Task : \A k \in Request :
             u # t \/ k # n => outbox'[u][k] = outbox[u][k]
        /\ \/ ~StillMine(c) /\ outbox'[t][n] = outbox[t][n]
           \/ /\ StillMine(c)
              /\ outbox'[t][n].publish_attempt_count = outbox[t][n].publish_attempt_count
              /\ \/ outbox'[t][n].status \in {"published", "dead"}
                 \/ /\ outbox'[t][n].status = "retry"
                    /\ outbox'[t][n].publish_attempt_count < OutboxMaxAttempts
    BY <1>8, MarkEffect DEF vars
  <2>2. \A u \in Task : \A k \in Request :
          InHand(u, k) => InHand(u, k)' \/ (StillMine(c) /\ u = t /\ k = n)
    BY <1>8, MarkHands
  <2>3. t \in Task /\ n \in Request /\ n \in Nat /\ n <= requested[t]
    BY <1>2, <1>3
  <2> HIDE DEF t, n
  <2>4. ASSUME NEW u \in Task, NEW k \in Request, u # t \/ k # n \/ ~StillMine(c)
        PROVE  Fits(u, k)'
    <3>1. outbox'[u][k] = outbox[u][k]
      BY <2>1, <2>4
    <3>2. InHand(u, k) => InHand(u, k)'
      BY <2>2, <2>4
    <3> QED BY <1>2, <2>1, <3>1, <3>2, FitsKept
  <2>5. ASSUME StillMine(c) PROVE Fits(t, n)'
    BY <1>1, <1>2, <2>1, <2>3, <2>5 DEF Fits
  <2>6. /\ \A x \in sending' : x.request <= requested'[x.task]
        /\ \A u \in Task : \A k \in Request : Fits(u, k)'
    BY <1>2, <2>1, <2>4, <2>5
  <2> QED BY <2>6, FitsAfter
<1>9. ASSUME NEW c \in sending, relay_crash(c)
      PROVE  AttemptsFit'
  <2>1. /\ sending' = sending \ {c} /\ UNCHANGED <<outbox, requested>>
        /\ faults' = faults + 1
    BY <1>9 DEF relay_crash, Fault, vars
  <2>2. ASSUME NEW u \in Task, NEW k \in Request PROVE Fits(u, k)'
    BY <1>2, <2>1, FitsKept
  <2>3. /\ \A x \in sending' : x.request <= requested'[x.task]
        /\ \A u \in Task : \A k \in Request : Fits(u, k)'
    BY <1>2, <2>1, <2>2
  <2> QED BY <2>3, FitsAfter
<1>10. ASSUME NEW t \in Task, sweep(t) PROVE AttemptsFit'
  <2>1. /\ requested' = [requested EXCEPT ![t] = requested[t] + 1]
        /\ UNCHANGED <<outbox, sending, faults>>
    BY <1>1, <1>10, SweepEffect DEF sweep
  <2>2. \A u \in Task : requested'[u] \in Nat /\ requested'[u] >= requested[u]
    BY <1>1, <2>1
  <2>3. ASSUME NEW u \in Task, NEW k \in Request PROVE Fits(u, k)'
    <3>1. k \in Nat /\ requested[u] \in Nat
      BY <1>1, PipeConstants DEF Request
    <3>2. k > requested'[u] => k > requested[u]
      BY <2>2, <3>1
    <3> QED BY <1>2, <2>1, <3>2, OutboxFramed, FitsKept
  <2>4. \A x \in sending' : x.request <= requested'[x.task]
    BY <1>1, <1>2, <1>3, <2>1, <2>2
  <2>5. /\ \A x \in sending' : x.request <= requested'[x.task]
        /\ \A u \in Task : \A k \in Request : Fits(u, k)'
    BY <2>3, <2>4
  <2> QED BY <2>5, FitsAfter
<1>11. ASSUME NEW w \in Worker, read(w) \/ (\E m \in pel : reclaim(w, m)) \/ ack(w)
       PROVE  AttemptsFit'
  <2>1. UNCHANGED <<outbox, sending, requested>> /\ faults' \in {faults, faults + 1}
    BY <1>11 DEF read, reclaim, ack, Fault, vars
  <2> QED BY <1>4, <2>1
<1>12. ASSUME NEW w \in Worker, handle_claims(w)
       PROVE  AttemptsFit'
  <2>1. UNCHANGED <<outbox, sending, requested, faults>>
    BY <1>12, HandleClaims
  <2> QED BY <1>4, <2>1
<1>13. ASSUME NEW w \in Worker, NEW pc, Moves(w, pc)
       PROVE  AttemptsFit'
  BY <1>4, <1>13 DEF Moves, Quiet
<1>14. CASE Waits
  BY <1>4, <1>14 DEF Waits, Quiet
<1> QED BY <1>5, <1>6, <1>7, <1>8, <1>9, <1>10, <1>11, <1>12, <1>13, <1>14 DEF Shape
-----------------------------------------------------------------------------
(* Counting.                                                                *)
LEMMA CardSub ==
  ASSUME NEW S, IsFiniteSet(S), NEW T, T \subseteq S
  PROVE  /\ IsFiniteSet(T) /\ Cardinality(T) \in Nat /\ Cardinality(S) \in Nat
         /\ Cardinality(T) <= Cardinality(S)
BY FS_Subset, FS_CardinalityType

LEMMA CardAdd ==
  ASSUME NEW S, IsFiniteSet(S), NEW x, NEW T, T \subseteq S \cup {x}
  PROVE  /\ IsFiniteSet(T) /\ Cardinality(T) \in Nat /\ Cardinality(S) \in Nat
         /\ Cardinality(T) <= Cardinality(S) + 1
<1>1. /\ IsFiniteSet(S \cup {x})
      /\ Cardinality(S \cup {x}) = Cardinality(S) \/ Cardinality(S \cup {x}) = Cardinality(S) + 1
  BY FS_AddElement
<1>2. Cardinality(S) \in Nat /\ Cardinality(S \cup {x}) \in Nat
  BY <1>1, FS_CardinalityType
<1>3. IsFiniteSet(T) /\ Cardinality(T) \in Nat /\ Cardinality(T) <= Cardinality(S \cup {x})
  BY <1>1, CardSub
<1> QED BY <1>1, <1>2, <1>3

LEMMA CardGrow ==
  ASSUME NEW S, IsFiniteSet(S), NEW x, x \notin S
  PROVE  Cardinality(S \cup {x}) = Cardinality(S) + 1 /\ Cardinality(S) \in Nat
BY FS_AddElement, FS_CardinalityType

LEMMA CardDel ==
  ASSUME NEW S, IsFiniteSet(S), NEW x \in S, NEW T, T \subseteq S \ {x}
  PROVE  /\ IsFiniteSet(T) /\ Cardinality(T) \in Nat /\ Cardinality(S) \in Nat
         /\ Cardinality(T) + 1 <= Cardinality(S)
<1>1. IsFiniteSet(S \ {x}) /\ Cardinality(S \ {x}) = Cardinality(S) - 1
  BY FS_RemoveElement
<1>2. Cardinality(S) \in Nat /\ Cardinality(S \ {x}) \in Nat
  BY <1>1, FS_CardinalityType
<1>3. IsFiniteSet(T) /\ Cardinality(T) \in Nat /\ Cardinality(T) <= Cardinality(S \ {x})
  BY <1>1, CardSub
<1> QED BY <1>1, <1>2, <1>3

LEMMA CardSwap ==
  ASSUME NEW S, IsFiniteSet(S), NEW x \in S, NEW y, NEW T, T \subseteq (S \ {x}) \cup {y}
  PROVE  /\ IsFiniteSet(T) /\ Cardinality(T) \in Nat /\ Cardinality(S) \in Nat
         /\ Cardinality(T) <= Cardinality(S)
<1>1. IsFiniteSet(S \ {x}) /\ Cardinality(S \ {x}) + 1 <= Cardinality(S)
      /\ Cardinality(S) \in Nat /\ Cardinality(S \ {x}) \in Nat
  BY CardDel
<1>2. /\ IsFiniteSet(T) /\ Cardinality(T) \in Nat
      /\ Cardinality(T) <= Cardinality(S \ {x}) + 1
  BY <1>1, CardAdd
<1> QED BY <1>1, <1>2

(* The requests are finitely many.                                          *)
LEMMA RequestsFinite ==
  /\ IsFiniteSet(Task \X Request)
  /\ IsFiniteSet(Requests) /\ IsFiniteSet(Claimables)
  /\ Cardinality(Requests) \in Nat /\ Cardinality(Claimables) \in Nat
  /\ Cardinality(Claimables) <= Cardinality(Requests)
<1>1. IsFiniteSet(Request)
  BY PipeConstants, FS_Interval DEF Request
<1>2. IsFiniteSet(Task \X Request)
  BY <1>1, PipeConstants, FS_Product
<1>3. Requests \subseteq Task \X Request /\ Claimables \subseteq Requests
  BY DEF Requests, Claimables
<1>4. IsFiniteSet(Requests)
  BY <1>2, <1>3, CardSub
<1> QED BY <1>2, <1>3, <1>4, CardSub

(* A pair of the product, as the provers see it.                            *)
LEMMA RequestPair ==
  ASSUME NEW e \in Task \X Request
  PROVE  e[1] \in Task /\ e[2] \in Request /\ e = <<e[1], e[2]>>
OBVIOUS

LEMMA ClaimablesAre ==
  ASSUME NEW t \in Task, NEW n \in Request
  PROVE  <<t, n>> \in Claimables <=>
           /\ n <= requested[t]
           /\ \/ outbox[t][n].status \in {"pending", "retry"}
              \/ outbox[t][n].status = "publishing" /\ ~InHand(t, n)
<1>1. <<t, n>> \in Task \X Request /\ <<t, n>>[1] = t /\ <<t, n>>[2] = n
  OBVIOUS
<1> QED BY <1>1 DEF Claimables, Requests

(* Which requests may still be claimed after a step, pair by pair.          *)
LEMMA ClaimablesWithin ==
  ASSUME NEW S,
         \A t \in Task : \A n \in Request :
           /\ n <= requested'[t]
           /\ \/ outbox'[t][n].status \in {"pending", "retry"}
              \/ outbox'[t][n].status = "publishing" /\ ~InHand(t, n)'
           => <<t, n>> \in S
  PROVE  Claimables' \subseteq S
<1> SUFFICES ASSUME NEW e \in Claimables' PROVE e \in S
  OBVIOUS
<1>1. /\ e \in Task \X Request
      /\ e[2] <= requested'[e[1]]
      /\ \/ outbox'[e[1]][e[2]].status \in {"pending", "retry"}
         \/ outbox'[e[1]][e[2]].status = "publishing" /\ ~InHand(e[1], e[2])'
  BY DEF Claimables, Requests
<1>2. e[1] \in Task /\ e[2] \in Request /\ e = <<e[1], e[2]>>
  BY <1>1, RequestPair
<1> QED BY <1>1, <1>2
-----------------------------------------------------------------------------
(* Every message is paid for.  Each case says what the step does to the     *)
(* three sets that are counted.                                             *)
LEMMA PaidStep ==
  ASSUME IInv, PipeTypes, Placed, RequestsFit, AttemptsFit, PaidFor, Shape
  PROVE  PaidFor'
<1> DEFINE K == Cardinality(Claimables)
           U == Cardinality(Unsettled)
           R == Cardinality(Requests)
<1>1. /\ TypeOK /\ requested \in [Task -> Nat]
      /\ sending \in SUBSET Claim /\ faults \in Nat /\ lastId \in Nat
      /\ outbox \in [Task -> [Request -> Event]]
  BY PipeConstants DEF IInv, TypeOK, PipeTypes
<1>2. /\ IsFiniteSet(sending) /\ IsFiniteSet(Unsettled) /\ U \in Nat
      /\ IsFiniteSet(Claimables) /\ IsFiniteSet(Requests) /\ K \in Nat /\ R \in Nat
      /\ lastId + K + U <= R + faults
  <2>1. IsFiniteSet(sending) /\ Unsettled \subseteq sending
    BY DEF PaidFor, Unsettled
  <2>2. IsFiniteSet(Unsettled) /\ U \in Nat
    BY <2>1, CardSub
  <2> QED BY <2>1, <2>2, RequestsFinite DEF PaidFor
<1>3. \A c \in sending : c.task \in Task /\ c.request \in Request /\ c.request <= requested[c.task]
  BY <1>1 DEF Claim, AttemptsFit
<1>4. ASSUME requested' = requested PROVE Requests' = Requests
  BY <1>4 DEF Requests
<1>5. ASSUME requested' = requested,
             \A u \in Task : \A k \in Request :
               /\ outbox'[u][k].status = outbox[u][k].status
               /\ InHand(u, k) => InHand(u, k)'
      PROVE  Claimables' \subseteq Claimables
  BY <1>5, ClaimablesAre, ClaimablesWithin
<1>6. ASSUME UNCHANGED <<outbox, sending, requested, lastId>>, faults' \in {faults, faults + 1}
      PROVE  PaidFor'
  <2>1. Claimables' \subseteq Claimables
    BY <1>5, <1>6, OutboxFramed
  <2>2. Unsettled' = Unsettled /\ Requests' = Requests
    BY <1>4, <1>6 DEF Unsettled
  <2>3. Cardinality(Claimables') \in Nat /\ Cardinality(Claimables') <= K
    BY <1>2, <2>1, CardSub
  <2> HIDE DEF K, U, R
  <2>4. lastId' + Cardinality(Claimables') + Cardinality(Unsettled')
          <= Cardinality(Requests') + faults'
    BY <1>1, <1>2, <1>6, <2>2, <2>3 DEF U, R
  <2> QED BY <1>2, <1>6, <2>4 DEF PaidFor
<1>7. ASSUME NEW t \in Task, NEW n \in Request, claim_outbox_batch(t, n)
      PROVE  PaidFor'
  <2>1. PICK c \in Claim :
           /\ sending' = sending \cup {c}
           /\ outbox'[t][n].status = "publishing"
           /\ \A u \in Task : \A k \in Request :
                u # t \/ k # n => outbox'[u][k] = outbox[u][k]
           /\ n <= requested[t]
           /\ \/ outbox[t][n].status \in {"pending", "retry"}
              \/ outbox[t][n].status = "publishing" /\ outbox[t][n].lease_expires_at = "past"
           /\ requested' = requested /\ faults' = faults /\ lastId' = lastId
    BY <1>7, BatchEffect DEF vars
  <2>2. /\ InHand(t, n)'
        /\ \A u \in Task : \A k \in Request :
              (u # t \/ k # n) /\ InHand(u, k) => InHand(u, k)'
    BY <1>7, BatchHands
  <2>3. <<t, n>> \in Claimables
    BY <2>1, ClaimablesAre DEF InHand
  <2>4. ASSUME NEW u \in Task, NEW k \in Request, k <= requested'[u],
               \/ outbox'[u][k].status \in {"pending", "retry"}
               \/ outbox'[u][k].status = "publishing" /\ ~InHand(u, k)'
        PROVE  <<u, k>> \in Claimables \ {<<t, n>>}
    <3>1. u # t \/ k # n
      BY <2>1, <2>2, <2>4
    <3>2. <<u, k>> \in Claimables
      BY <2>1, <2>2, <2>4, <3>1, ClaimablesAre
    <3> QED BY <3>1, <3>2
  <2>5. Claimables' \subseteq Claimables \ {<<t, n>>}
    BY <2>4, ClaimablesWithin
  <2>6. Cardinality(Claimables') \in Nat /\ Cardinality(Claimables') + 1 <= K
    BY <1>2, <2>3, <2>5, CardDel
  <2>7. Unsettled' \subseteq Unsettled \cup {c}
    BY <2>1 DEF Unsettled
  <2>8. Cardinality(Unsettled') \in Nat /\ Cardinality(Unsettled') <= U + 1
    BY <1>2, <2>7, CardAdd
  <2>9. IsFiniteSet(sending') /\ Requests' = Requests
    BY <1>2, <1>4, <2>1, FS_AddElement
  <2> HIDE DEF K, U, R
  <2>10. lastId' + Cardinality(Claimables') + Cardinality(Unsettled')
           <= Cardinality(Requests') + faults'
    BY <1>1, <1>2, <2>1, <2>6, <2>8, <2>9 DEF R
  <2> QED BY <2>9, <2>10 DEF PaidFor
<1>8. ASSUME NEW t \in Task, NEW n \in Request, event_time_passes(t, n)
      PROVE  PaidFor'
  <2>1. /\ sending' = sending /\ requested' = requested /\ lastId' = lastId
        /\ \A u \in Task : \A k \in Request :
             u # t \/ k # n => outbox'[u][k] = outbox[u][k]
        /\ outbox'[t][n].status = outbox[t][n].status
        /\ faults' \in {faults, faults + 1}
    BY <1>8, InstantEffect DEF vars
  <2>2. \A u \in Task : \A k \in Request :
          InHand(u, k) => InHand(u, k)' \/ (u = t /\ k = n /\ faults' = faults + 1)
    BY <1>8, InstantHands
  <2>3. \A u \in Task : \A k \in Request : outbox'[u][k].status = outbox[u][k].status
    BY <2>1
  <2>4. Unsettled' = Unsettled /\ Requests' = Requests
    BY <1>4, <2>1 DEF Unsettled
  <2>5. CASE faults' = faults
    <3>1. faults' # faults + 1
      BY <1>1, <2>5
    <3>2. Claimables' \subseteq Claimables
      BY <1>5, <2>1, <2>2, <2>3, <3>1
    <3>3. Cardinality(Claimables') \in Nat /\ Cardinality(Claimables') <= K
      BY <1>2, <3>2, CardSub
    <3> HIDE DEF K, U, R
    <3>4. lastId' + Cardinality(Claimables') + Cardinality(Unsettled')
            <= Cardinality(Requests') + faults'
      BY <1>1, <1>2, <2>1, <2>4, <2>5, <3>3 DEF U, R
    <3> QED BY <1>2, <2>1, <3>4 DEF PaidFor
  <2>6. CASE faults' = faults + 1
    <3>1. ASSUME NEW u \in Task, NEW k \in Request, k <= requested'[u],
                 \/ outbox'[u][k].status \in {"pending", "retry"}
                 \/ outbox'[u][k].status = "publishing" /\ ~InHand(u, k)'
          PROVE  <<u, k>> \in Claimables \cup {<<t, n>>}
      <4>1. CASE u = t /\ k = n
        BY <4>1
      <4>2. CASE u # t \/ k # n
        BY <2>1, <2>2, <2>3, <3>1, <4>2, ClaimablesAre
      <4> QED BY <4>1, <4>2
    <3>2. Claimables' \subseteq Claimables \cup {<<t, n>>}
      BY <3>1, ClaimablesWithin
    <3>3. Cardinality(Claimables') \in Nat /\ Cardinality(Claimables') <= K + 1
      BY <1>2, <3>2, CardAdd
    <3> HIDE DEF K, U, R
    <3>4. lastId' + Cardinality(Claimables') + Cardinality(Unsettled')
            <= Cardinality(Requests') + faults'
      BY <1>1, <1>2, <2>1, <2>4, <2>6, <3>3 DEF U, R
    <3> QED BY <1>2, <2>1, <3>4 DEF PaidFor
  <2> QED BY <2>1, <2>5, <2>6
<1>9. ASSUME NEW c \in sending, publish_task(c)
      PROVE  PaidFor'
  <2>1. c \in Unsettled
    BY <1>9, PublishEffect DEF Unsettled
  <2>2. outbox' = outbox /\ requested' = requested
    BY <1>9 DEF publish_task, vars
  <2>3. Claimables' \subseteq Claimables /\ Requests' = Requests
    BY <1>4, <1>5, <1>9, <2>2, PublishHands
  <2>4. Cardinality(Claimables') \in Nat /\ Cardinality(Claimables') <= K
    BY <1>2, <2>3, CardSub
  <2>5. PICK d \in Claim :
              /\ sending' = (sending \ {c}) \cup {d}
              /\ \/ d.phase = "added" /\ faults' = faults /\ lastId' = lastId + 1
                 \/ d.phase = "raised" /\ faults' = faults + 1
    BY <1>9, PublishEffect
  <2>6. lastId' \in {lastId, lastId + 1}
    BY <1>9, PublishEffect
  <2>7. IsFiniteSet(sending')
    BY <1>2, <2>5, CardSwap
  <2>8. CASE d.phase = "added" /\ faults' = faults /\ lastId' = lastId + 1
    <3>1. Unsettled' \subseteq Unsettled \ {c}
      BY <2>5, <2>8 DEF Unsettled
    <3>2. Cardinality(Unsettled') \in Nat /\ Cardinality(Unsettled') + 1 <= U
      BY <1>2, <2>1, <3>1, CardDel
    <3> HIDE DEF K, U, R
    <3>3. lastId' + Cardinality(Claimables') + Cardinality(Unsettled')
            <= Cardinality(Requests') + faults'
      BY <1>1, <1>2, <2>3, <2>4, <2>8, <3>2 DEF R
    <3> QED BY <2>7, <3>3 DEF PaidFor
  <2>9. CASE d.phase = "raised" /\ faults' = faults + 1
    <3>1. Unsettled' \subseteq (Unsettled \ {c}) \cup {d}
      BY <2>5 DEF Unsettled
    <3>2. Cardinality(Unsettled') \in Nat /\ Cardinality(Unsettled') <= U
      BY <1>2, <2>1, <3>1, CardSwap
    <3> HIDE DEF K, U, R
    <3>3. lastId' + Cardinality(Claimables') + Cardinality(Unsettled')
            <= Cardinality(Requests') + faults'
      BY <1>1, <1>2, <2>3, <2>4, <2>6, <2>9, <3>2 DEF R
    <3> QED BY <2>7, <3>3 DEF PaidFor
  <2> QED BY <2>5, <2>8, <2>9
<1>10. ASSUME NEW c \in sending, NEW x \in SUBSET Claimables',
              sending' = sending \ {c}, UNCHANGED <<requested, lastId>>,
              Claimables' \ x \subseteq Claimables,
              \/ x = {} /\ faults' = faults
              \/ /\ \E e : x = {e}
                 /\ \/ c \in Unsettled /\ faults' = faults
                    \/ faults' = faults + 1
       PROVE  PaidFor'
  <2>1. IsFiniteSet(sending') /\ Requests' = Requests
    BY <1>2, <1>4, <1>10, CardSub
  <2>2. Unsettled' \subseteq Unsettled
    BY <1>10 DEF Unsettled
  <2>3. Cardinality(Unsettled') \in Nat /\ Cardinality(Unsettled') <= U
    BY <1>2, <2>2, CardSub
  <2>4. c \in Unsettled => Cardinality(Unsettled') + 1 <= U
    <3>1. Unsettled' \subseteq Unsettled \ {c}
      BY <1>10 DEF Unsettled
    <3> QED BY <1>2, <3>1, CardDel
  <2>5. CASE x = {} /\ faults' = faults
    <3>1. Cardinality(Claimables') \in Nat /\ Cardinality(Claimables') <= K
      BY <1>2, <1>10, <2>5, CardSub
    <3> HIDE DEF K, U, R
    <3>2. lastId' + Cardinality(Claimables') + Cardinality(Unsettled')
            <= Cardinality(Requests') + faults'
      BY <1>1, <1>2, <1>10, <2>1, <2>3, <2>5, <3>1 DEF R
    <3> QED BY <2>1, <3>2 DEF PaidFor
  <2>6. ASSUME NEW e, x = {e}, c \in Unsettled \/ faults' = faults + 1,
               faults' \in {faults, faults + 1}
        PROVE  PaidFor'
    <3>1. Claimables' \subseteq Claimables \cup {e}
      BY <1>10, <2>6
    <3>2. Cardinality(Claimables') \in Nat /\ Cardinality(Claimables') <= K + 1
      BY <1>2, <3>1, CardAdd
    <3> HIDE DEF K, U, R
    <3>3. lastId' + Cardinality(Claimables') + Cardinality(Unsettled')
            <= Cardinality(Requests') + faults'
      BY <1>1, <1>2, <1>10, <2>1, <2>3, <2>4, <2>6, <3>2 DEF R
    <3> QED BY <2>1, <3>3 DEF PaidFor
  <2> QED BY <1>10, <2>5, <2>6
<1>11. ASSUME NEW c \in sending, mark_outbox_published(c) \/ mark_outbox_failed(c)
       PROVE  PaidFor'
  <2> DEFINE t == c.task
             n == c.request
             x == Claimables' \cap {<<t, n>>}
  <2>1. /\ sending' = sending \ {c} /\ requested' = requested /\ faults' = faults
        /\ lastId' = lastId
        /\ \A u \in Task : \A k \in Request :
             u # t \/ k # n => outbox'[u][k] = outbox[u][k]
        /\ \/ ~StillMine(c) /\ outbox'[t][n] = outbox[t][n]
           \/ /\ StillMine(c)
              /\ \/ c.phase = "added" /\ outbox'[t][n].status = "published"
                 \/ c.phase = "raised" /\ outbox'[t][n].status \in {"dead", "retry"}
    BY <1>11, MarkEffect DEF vars
  <2>2. \A u \in Task : \A k \in Request :
          InHand(u, k) => InHand(u, k)' \/ (StillMine(c) /\ u = t /\ k = n)
    BY <1>11, MarkHands
  <2>3. t \in Task /\ n \in Request
    BY <1>3
  <2> HIDE DEF t, n
  <2>4. ASSUME NEW u \in Task, NEW k \in Request, k <= requested'[u],
               \/ outbox'[u][k].status \in {"pending", "retry"}
               \/ outbox'[u][k].status = "publishing" /\ ~InHand(u, k)',
               u # t \/ k # n \/ ~StillMine(c) \/ c.phase # "raised"
        PROVE  <<u, k>> \in Claimables
    <3>1. outbox'[u][k] = outbox[u][k] /\ ~(StillMine(c) /\ u = t /\ k = n)
      BY <2>1, <2>4
    <3> QED BY <2>1, <2>2, <2>4, <3>1, ClaimablesAre
  <2>5. CASE ~StillMine(c) \/ c.phase # "raised"
    <3>1. Claimables' \subseteq Claimables
      BY <2>4, <2>5, ClaimablesWithin
    <3>2. {} \in SUBSET Claimables' /\ Claimables' \ {} \subseteq Claimables
      BY <3>1
    <3> QED BY <1>10, <2>1, <3>2
  <2>6. CASE StillMine(c) /\ c.phase = "raised"
    <3>1. c \in Unsettled
      BY <2>6 DEF Unsettled
    <3>2. ASSUME NEW u \in Task, NEW k \in Request, k <= requested'[u],
               \/ outbox'[u][k].status \in {"pending", "retry"}
               \/ outbox'[u][k].status = "publishing" /\ ~InHand(u, k)'
          PROVE  <<u, k>> \in Claimables \cup {<<t, n>>}
      <4>1. CASE u = t /\ k = n
        BY <4>1
      <4>2. CASE u # t \/ k # n
        BY <2>4, <3>2, <4>2
      <4> QED BY <4>1, <4>2
    <3>3. Claimables' \subseteq Claimables \cup {<<t, n>>}
      BY <3>2, ClaimablesWithin
    <3>4. CASE <<t, n>> \in Claimables'
      <4>1. {<<t, n>>} \in SUBSET Claimables' /\ Claimables' \ {<<t, n>>} \subseteq Claimables
        BY <3>3, <3>4
      <4> QED BY <1>10, <2>1, <3>1, <4>1
    <3>5. CASE <<t, n>> \notin Claimables'
      <4>1. {} \in SUBSET Claimables' /\ Claimables' \ {} \subseteq Claimables
        BY <3>3, <3>5
      <4> QED BY <1>10, <2>1, <4>1
    <3> QED BY <3>4, <3>5
  <2> QED BY <2>5, <2>6
<1>12. ASSUME NEW c \in sending, relay_crash(c)
       PROVE  PaidFor'
  <2> DEFINE t == c.task
             n == c.request
  <2>1. /\ sending' = sending \ {c} /\ UNCHANGED <<outbox, requested, lastId>>
        /\ faults' = faults + 1
    BY <1>12 DEF relay_crash, Fault, vars
  <2>2. \A u \in Task : \A k \in Request :
           InHand(u, k) => InHand(u, k)' \/ (u = t /\ k = n)
    BY <1>12, CrashHands
  <2> HIDE DEF t, n
  <2>3. ASSUME NEW u \in Task, NEW k \in Request, k <= requested'[u],
               \/ outbox'[u][k].status \in {"pending", "retry"}
               \/ outbox'[u][k].status = "publishing" /\ ~InHand(u, k)'
        PROVE  <<u, k>> \in Claimables \cup {<<t, n>>}
    <3>1. CASE u = t /\ k = n
      BY <3>1
    <3>2. CASE u # t \/ k # n
      BY <2>1, <2>2, <2>3, <3>2, ClaimablesAre
    <3> QED BY <3>1, <3>2
  <2>4. Claimables' \subseteq Claimables \cup {<<t, n>>}
    BY <2>3, ClaimablesWithin
  <2>5. Cardinality(Claimables') \in Nat /\ Cardinality(Claimables') <= K + 1
    BY <1>2, <2>4, CardAdd
  <2>6. IsFiniteSet(sending') /\ Requests' = Requests
    BY <1>2, <1>4, <2>1, CardSub
  <2>7. Unsettled' \subseteq Unsettled
    BY <2>1 DEF Unsettled
  <2>8. Cardinality(Unsettled') \in Nat /\ Cardinality(Unsettled') <= U
    BY <1>2, <2>7, CardSub
  <2> HIDE DEF K, U, R
  <2>9. lastId' + Cardinality(Claimables') + Cardinality(Unsettled')
          <= Cardinality(Requests') + faults'
    BY <1>1, <1>2, <2>1, <2>5, <2>6, <2>8 DEF R
  <2> QED BY <2>6, <2>9 DEF PaidFor
<1>13. ASSUME NEW t \in Task, sweep(t) PROVE PaidFor'
  <2> DEFINE n == requested[t] + 1
  <2>1. /\ requested' = [requested EXCEPT ![t] = n]
        /\ task[t].status = "retry"
        /\ UNCHANGED <<outbox, sending, lastId, faults>>
    BY <1>1, <1>13, SweepEffect DEF sweep
  <2>2. n \in Request /\ n \in Nat /\ requested[t] \in Nat
    BY <1>1, <2>1, SweepInRange
  <2>3. \A u \in Task : \A k \in Request :
          k <= requested'[u] <=> (k <= requested[u] \/ (u = t /\ k = n))
    BY <1>1, <2>1, <2>2, PipeConstants DEF Request
  <2>4. <<t, n>> \notin Requests
    BY <2>2 DEF Requests
  <2> HIDE DEF n
  <2>5. Requests' = Requests \cup {<<t, n>>}
    <3>1. ASSUME NEW e \in Task \X Request
          PROVE  e \in Requests' <=> e \in Requests \/ e = <<t, n>>
      <4>1. e[1] \in Task /\ e[2] \in Request /\ e = <<e[1], e[2]>>
        BY RequestPair
      <4>2. (e[1] = t /\ e[2] = n) <=> e = <<t, n>>
        BY <4>1
      <4> QED BY <2>3, <4>1, <4>2 DEF Requests
    <3>2. Requests' \subseteq Task \X Request /\ Requests \subseteq Task \X Request
          /\ <<t, n>> \in Task \X Request
      BY <2>2 DEF Requests
    <3> QED BY <3>1, <3>2
  <2>6. Cardinality(Requests') = R + 1
    BY <1>2, <2>4, <2>5, CardGrow
  <2>7. ASSUME NEW u \in Task, NEW k \in Request, k <= requested'[u],
               \/ outbox'[u][k].status \in {"pending", "retry"}
               \/ outbox'[u][k].status = "publishing" /\ ~InHand(u, k)'
        PROVE  <<u, k>> \in Claimables \cup {<<t, n>>}
    BY <2>1, <2>3, <2>7, ClaimablesAre, OutboxFramed
  <2>8. Claimables' \subseteq Claimables \cup {<<t, n>>}
    BY <2>7, ClaimablesWithin
  <2>9. Cardinality(Claimables') \in Nat /\ Cardinality(Claimables') <= K + 1
    BY <1>2, <2>8, CardAdd
  <2>10. Unsettled' = Unsettled
    BY <2>1 DEF Unsettled
  <2> HIDE DEF K, U, R
  <2>11. lastId' + Cardinality(Claimables') + Cardinality(Unsettled')
           <= Cardinality(Requests') + faults'
    BY <1>1, <1>2, <2>1, <2>6, <2>9, <2>10 DEF U
  <2> QED BY <1>2, <2>1, <2>11 DEF PaidFor
<1>14. ASSUME NEW w \in Worker, read(w) \/ (\E m \in pel : reclaim(w, m)) \/ ack(w)
       PROVE  PaidFor'
  <2>1. UNCHANGED <<outbox, sending, requested, lastId>> /\ faults' \in {faults, faults + 1}
    BY <1>14 DEF read, reclaim, ack, Fault, vars
  <2> QED BY <1>6, <2>1
<1>15. ASSUME NEW w \in Worker, handle_claims(w)
       PROVE  PaidFor'
  <2>1. UNCHANGED <<outbox, sending, requested, lastId, faults>>
    BY <1>15, HandleClaims
  <2> QED BY <1>6, <2>1
<1>16. ASSUME NEW w \in Worker, NEW pc, Moves(w, pc)
       PROVE  PaidFor'
  BY <1>6, <1>16 DEF Moves, Quiet
<1>17. CASE Waits
  BY <1>6, <1>17 DEF Waits, Quiet
<1> HIDE DEF K, U, R
<1> QED BY <1>7, <1>8, <1>9, <1>11, <1>12, <1>13, <1>14, <1>15, <1>16, <1>17 DEF Shape
-----------------------------------------------------------------------------
(* No request is lost.  Of the steps that leave the rows and the requests   *)
(* alone: what is delivered was delivered before, and what could be reached *)
(* still can.                                                               *)
LEMMA ReachesFramed ==
  ASSUME DeliveredReaches, NEW T \in SUBSET Task,
         \A t \in T : /\ Waiting(t)' => Waiting(t)
                      /\ t \in poached => t \in poached'
                      /\ Delivered(t)' => Delivered(t) \/ Reachable(t)'
                      /\ Reachable(t) => Reachable(t)',
         \A t \in Task \ T : ~Waiting(t)' \/ t \in poached' \/ ~Delivered(t)'
  PROVE  DeliveredReaches'
BY DEF DeliveredReaches

LEMMA WaitingQuiet ==
  ASSUME Quiet, NEW t \in Task
  PROVE  Waiting(t)' => Waiting(t)
BY DEF Quiet, Waiting

LEMMA DeliveredFramed ==
  ASSUME UNCHANGED <<outbox, sending, requested>>, NEW t \in Task
  PROVE  Delivered(t)' => Delivered(t)
BY DEF Delivered

(* Nobody new is about to acknowledge, and the pending ids are the same.    *)
LEMMA ReachableKept ==
  ASSUME stream' = stream,
         \A m \in pel : \E p \in pel' : p.id = m.id /\ p.task = m.task,
         \A w \in Worker : \A m \in pel : Acking(w, m.id)' => Acking(w, m.id),
         NEW t \in Task
  PROVE  Reachable(t) => Reachable(t)'
<1> SUFFICES ASSUME Reachable(t) PROVE Reachable(t)'
  OBVIOUS
<1>1. CASE \E i \in DOMAIN stream : stream[i].task = t
  BY <1>1 DEF Reachable
<1>2. ASSUME NEW m \in pel, m.task = t, \A w \in Worker : ~Acking(w, m.id)
      PROVE  Reachable(t)'
  <2>1. PICK p \in pel' : p.id = m.id /\ p.task = m.task
    OBVIOUS
  <2>2. \A w \in Worker : ~Acking(w, m.id)'
    BY <1>2
  <2>3. \A w \in Worker : ~Acking(w, p.id)'
    BY <2>1, <2>2 DEF Acking
  <2> QED BY <1>2, <2>1, <2>3 DEF Reachable
<1> QED BY <1>1, <1>2 DEF Reachable

(* A worker that moves on to acknowledge takes away the messages of its own *)
(* task only.                                                               *)
LEMMA AckingGoes ==
  ASSUME PipeTypes, IdsAgree, NEW w \in Worker,
         NEW pc \in {"idle", "unclaimed", "handler", "dead_letter", "ack"},
         Goes(w, pc), stream' = stream, pel' = pel, NEW t \in Task,
         \/ pc \notin {"dead_letter", "ack"}
         \/ at[w].pc = "dead_letter"
         \/ at[w].pc # "idle" /\ at[w].task # t
  PROVE  Reachable(t) => Reachable(t)'
<1>1. at \in [Worker -> Place]
  BY DEF PipeTypes
<1>2. /\ at'[w].pc = pc
      /\ pc # "idle" => at'[w].id = at[w].id /\ at'[w].task = at[w].task
      /\ \A v \in Worker \ {w} : at'[v] = at[v]
  BY <1>1, GoesTo
<1> SUFFICES ASSUME Reachable(t) PROVE Reachable(t)'
  OBVIOUS
<1>3. CASE \E i \in DOMAIN stream : stream[i].task = t
  BY <1>3 DEF Reachable
<1>4. ASSUME NEW m \in pel, m.task = t, \A v \in Worker : ~Acking(v, m.id)
      PROVE  Reachable(t)'
  <2>1. ASSUME NEW v \in Worker PROVE ~Acking(v, m.id)'
    <3>1. CASE v # w
      BY <1>2, <1>4, <3>1 DEF Acking
    <3>2. CASE v = w /\ pc \notin {"dead_letter", "ack"}
      BY <1>2, <3>2 DEF Acking
    <3>3. CASE v = w /\ pc \in {"dead_letter", "ack"} /\ at[w].pc = "dead_letter"
      BY <1>2, <1>4, <3>3 DEF Acking
    <3>4. CASE v = w /\ pc \in {"dead_letter", "ack"} /\ at[w].pc # "idle" /\ at[w].task # t
      BY <1>2, <1>4, <3>4 DEF Acking, IdsAgree
    <3> QED BY <3>1, <3>2, <3>3, <3>4
  <2> QED BY <1>4, <2>1 DEF Reachable, Acking
<1> QED BY <1>3, <1>4 DEF Reachable

LEMMA ReachesStep ==
  ASSUME IInv, PipeTypes, Placed, IdsGrow, IdsAgree, RequestsFit, AttemptsFit,
         DeliveredReaches, Shape
  PROVE  DeliveredReaches'
<1>1. /\ TypeOK /\ requested \in [Task -> Nat]
      /\ sending \in SUBSET Claim /\ stream \in Seq(Entry) /\ pel \in SUBSET Pending
      /\ at \in [Worker -> Place]
      /\ outbox \in [Task -> [Request -> Event]]
      /\ lastId \in Nat
  BY DEF IInv, TypeOK, PipeTypes
<1>2. \A c \in sending : c.task \in Task /\ c.request \in Request
  BY <1>1 DEF Claim
<1>20. \A u \in Task : requested[u] \in Request
  <2> TAKE u \in Task
  <2>1. /\ requested[u] \in Nat /\ task[u].attempt_count \in Nat
        /\ task[u].attempt_count <= MaxClaims /\ MaxClaims \in Nat
    BY Constants DEF IInv, TypeOK, TaskRow, AttemptLedger
  <2>2. requested[u] >= 1 /\ requested[u] <= task[u].attempt_count + 1
    BY DEF RequestsFit
  <2> QED BY <2>1, <2>2 DEF Request, MaxRequests
<1>3. ASSUME UNCHANGED <<task, requested, poached, stream, pel, at>>,
             \A t \in Task : Delivered(t)' => Delivered(t)
      PROVE  DeliveredReaches'
  <2>1. \A t \in Task : /\ Waiting(t)' => Waiting(t)
                        /\ t \in poached => t \in poached'
                        /\ Reachable(t) => Reachable(t)'
    BY <1>3 DEF Waiting, Reachable, Acking
  <2> QED BY <1>3, <2>1, ReachesFramed
<1>4. ASSUME NEW t \in Task, NEW n \in Request, claim_outbox_batch(t, n)
      PROVE  DeliveredReaches'
  <2>1. PICK c \in Claim :
           /\ c.phase = "claimed"
           /\ sending' = sending \cup {c}
           /\ outbox'[t][n].status = "publishing"
           /\ \A u \in Task : \A k \in Request :
                u # t \/ k # n => outbox'[u][k] = outbox[u][k]
           /\ UNCHANGED <<task, requested, poached, stream, pel, at>>
    BY <1>4, BatchEffect DEF vars
  <2>2. ASSUME NEW u \in Task, Delivered(u)' PROVE Delivered(u)
    <3>1. CASE outbox'[u][requested[u]].status = "published"
      <4>1. u # t \/ requested[u] # n
        BY <2>1, <3>1
      <4> QED BY <1>20, <2>1, <3>1, <4>1 DEF Delivered
    <3>2. CASE \E d \in sending' : d.phase = "added" /\ d.task = u /\ d.request = requested[u]
      BY <2>1, <3>2 DEF Delivered
    <3> QED BY <2>1, <2>2, <3>1, <3>2 DEF Delivered
  <2> QED BY <1>3, <2>1, <2>2
<1>5. ASSUME NEW t \in Task, NEW n \in Request, event_time_passes(t, n)
      PROVE  DeliveredReaches'
  <2>1. /\ \A u \in Task : \A k \in Request :
             u # t \/ k # n => outbox'[u][k] = outbox[u][k]
        /\ outbox'[t][n].status = outbox[t][n].status
        /\ UNCHANGED <<task, requested, sending, poached, stream, pel, at>>
    BY <1>5, InstantEffect DEF vars
  <2>2. \A u \in Task : outbox'[u][requested[u]].status = outbox[u][requested[u]].status
    BY <1>20, <2>1
  <2>3. \A u \in Task : Delivered(u)' => Delivered(u)
    BY <2>1, <2>2 DEF Delivered
  <2> QED BY <1>3, <2>1, <2>3
<1>6. ASSUME NEW c \in sending, publish_task(c)
      PROVE  DeliveredReaches'
  <2> DEFINE e == [id |-> lastId + 1, task |-> c.task]
  <2>1. /\ c.phase = "claimed"
        /\ UNCHANGED <<task, requested, outbox, pel, at, poached>>
        /\ stream' = Append(stream, e) \/ stream' = stream
    BY <1>6, PublishEffect DEF vars
  <2>2. PICK d \in Claim :
              /\ d.task = c.task
              /\ sending' = (sending \ {c}) \cup {d}
              /\ \/ d.phase = "added" /\ stream' = Append(stream, e)
                 \/ d.phase = "raised"
    BY <1>6, PublishEffect
  <2>3. e \in Entry /\ e.task = c.task
    BY <1>1, <1>2 DEF Entry
  <2> HIDE DEF e
  <2>4. /\ \A i \in DOMAIN stream : i \in DOMAIN stream' /\ stream'[i] = stream[i]
        /\ stream' = Append(stream, e) =>
             Len(stream) + 1 \in DOMAIN stream' /\ stream'[Len(stream) + 1] = e
    BY <1>1, <2>1, <2>3, AppendOf
  <2>5. ASSUME NEW u \in Task PROVE Reachable(u) => Reachable(u)'
    BY <2>1, <2>4 DEF Reachable, Acking
  <2>6. ASSUME NEW u \in Task, Delivered(u)' PROVE Delivered(u) \/ Reachable(u)'
    <3>1. CASE outbox'[u][requested'[u]].status = "published"
      BY <2>1, <3>1 DEF Delivered
    <3>2. ASSUME NEW x \in sending', x.phase = "added", x.task = u,
                 x.request = requested'[u]
          PROVE  Delivered(u) \/ Reachable(u)'
      <4>1. CASE x \in sending
        BY <2>1, <3>2, <4>1 DEF Delivered
      <4>2. CASE x = d
        <5>1. stream' = Append(stream, e)
          BY <2>2, <3>2, <4>2
        <5>2. Len(stream) + 1 \in DOMAIN stream' /\ stream'[Len(stream) + 1].task = u
          BY <2>2, <2>3, <2>4, <3>2, <4>2, <5>1
        <5> QED BY <5>2 DEF Reachable
      <4> QED BY <2>2, <3>2, <4>1, <4>2
    <3> QED BY <2>6, <3>1, <3>2 DEF Delivered
  <2>7. \A u \in Task : Waiting(u)' => Waiting(u)
    BY <2>1 DEF Waiting
  <2> QED BY <2>1, <2>5, <2>6, <2>7, ReachesFramed
<1>7. ASSUME NEW c \in sending, mark_outbox_published(c) \/ mark_outbox_failed(c)
      PROVE  DeliveredReaches'
  <2> DEFINE t == c.task
             n == c.request
  <2>1. /\ sending' = sending \ {c}
        /\ UNCHANGED <<task, requested, poached, stream, pel, at>>
        /\ \A u \in Task : \A k \in Request :
             u # t \/ k # n => outbox'[u][k] = outbox[u][k]
        /\ \/ ~StillMine(c) /\ outbox'[t][n] = outbox[t][n]
           \/ /\ StillMine(c)
              /\ \/ c.phase = "added" /\ outbox'[t][n].status = "published"
                 \/ c.phase = "raised" /\ outbox'[t][n].status \in {"dead", "retry"}
    BY <1>7, MarkEffect DEF vars
  <2>2. ASSUME NEW u \in Task, Delivered(u)' PROVE Delivered(u)
    <3>1. CASE \E d \in sending' : d.phase = "added" /\ d.task = u /\ d.request = requested'[u]
      BY <2>1, <3>1 DEF Delivered
    <3>2. CASE outbox'[u][requested'[u]].status = "published"
      <4>1. CASE u # t \/ requested[u] # n
        BY <1>20, <2>1, <3>2, <4>1 DEF Delivered
      <4>2. CASE u = t /\ requested[u] = n
        <5>1. CASE outbox'[t][n] = outbox[t][n]
          BY <2>1, <3>2, <4>2, <5>1 DEF Delivered
        <5>2. CASE c.phase = "added"
          BY <4>2, <5>2 DEF Delivered
        <5> QED BY <2>1, <3>2, <4>2, <5>1, <5>2
      <4> QED BY <4>1, <4>2
    <3> QED BY <2>2, <3>1, <3>2 DEF Delivered
  <2> QED BY <1>3, <2>1, <2>2
<1>8. ASSUME NEW c \in sending, relay_crash(c)
      PROVE  DeliveredReaches'
  <2>1. /\ sending' = sending \ {c} /\ outbox' = outbox
        /\ UNCHANGED <<task, requested, poached, stream, pel, at>>
    BY <1>8 DEF relay_crash, vars
  <2>2. \A u \in Task : Delivered(u)' => Delivered(u)
    BY <2>1 DEF Delivered
  <2> QED BY <1>3, <2>1, <2>2
<1>9. ASSUME NEW t \in Task, sweep(t)
      PROVE  DeliveredReaches'
  <2>1. /\ requested' = [requested EXCEPT ![t] = requested[t] + 1]
        /\ task[t].status = "retry"
        /\ \A a \in Task \ {t} : task'[a] = task[a]
        /\ UNCHANGED <<outbox, sending, stream, pel, at>>
        /\ poached' = poached \ {t}
    BY <1>1, <1>9, SweepEffect DEF sweep
  <2>2. requested[t] + 1 \in Request /\ requested[t] \in Nat
    BY <1>1, <2>1, SweepInRange
  <2>3. ~Delivered(t)'
    <3>1. requested'[t] = requested[t] + 1 /\ requested[t] + 1 > requested[t]
      BY <1>1, <2>1, <2>2
    <3>2. outbox[t][requested[t] + 1].status = "pending"
      BY <2>2, <3>1 DEF AttemptsFit
    <3>3. \A c \in sending : c.task = t => c.request # requested[t] + 1
      <4>1. \A c \in sending : c.request \in Nat /\ c.request <= requested[c.task]
        BY <1>2, PipeConstants DEF AttemptsFit, Request
      <4> QED BY <2>2, <4>1
    <3> QED BY <2>1, <3>1, <3>2, <3>3 DEF Delivered
  <2>4. ASSUME NEW u \in Task \ {t}
        PROVE  /\ Waiting(u)' => Waiting(u)
               /\ u \in poached => u \in poached'
               /\ Delivered(u)' => Delivered(u)
               /\ Reachable(u) => Reachable(u)'
    <3>1. requested'[u] = requested[u]
      BY <1>1, <2>1
    <3> QED BY <2>1, <3>1 DEF Waiting, Delivered, Reachable, Acking
  <2>5. Task \ {t} \in SUBSET Task
    OBVIOUS
  <2> QED BY <2>3, <2>4, <2>5, ReachesFramed
<1>10. ASSUME NEW w \in Worker, read(w)
       PROVE  DeliveredReaches'
  <2> DEFINE m == Head(stream)
             p == [id |-> m.id, task |-> m.task, consumer |-> w]
             got == [pc |-> "got", id |-> m.id, task |-> m.task]
  <2>1. /\ stream # <<>>
        /\ pel' = pel \cup {p}
        /\ at' = [at EXCEPT ![w] = got]
        /\ stream' = Tail(stream)
        /\ UNCHANGED <<task, requested, outbox, sending, poached>>
    BY <1>10 DEF read, vars
  <2>2. p.id = m.id /\ p.task = m.task /\ got.pc = "got"
    OBVIOUS
  <2>3. /\ m = stream[1] /\ 1 \in DOMAIN stream
        /\ \A i \in DOMAIN stream :
             i = 1 \/ (i - 1 \in DOMAIN Tail(stream) /\ Tail(stream)[i - 1] = stream[i])
    BY <1>1, <2>1, TailOf
  <2> HIDE DEF m, p, got
  <2>4. at'[w] = got /\ \A v \in Worker \ {w} : at'[v] = at[v]
    BY <1>1, <2>1
  <2>5. \A v \in Worker : \A i : Acking(v, i)' => Acking(v, i)
    BY <2>2, <2>4 DEF Acking
  <2>6. \A v \in Worker : ~Acking(v, m.id)
    <3>1. \A v \in Worker : at[v].id < m.id
      BY <2>3 DEF IdsGrow
    <3>2. \A v \in Worker : at[v].id \in Nat
      BY IdsTyped
    <3>3. m.id \in Nat
      BY <2>3, IdsTyped
    <3> QED BY <3>1, <3>2, <3>3 DEF Acking
  <2>7. ASSUME NEW u \in Task, Reachable(u) PROVE Reachable(u)'
    <3>1. ASSUME NEW i \in DOMAIN stream, stream[i].task = u PROVE Reachable(u)'
      <4>1. CASE i = 1
        <5>1. p \in pel' /\ p.task = u
          BY <2>1, <2>2, <2>3, <3>1, <4>1
        <5>2. \A v \in Worker : ~(at'[v].pc \in {"dead_letter", "ack"} /\ at'[v].id = p.id)
          BY <2>2, <2>4, <2>6 DEF Acking
        <5> QED BY <5>1, <5>2 DEF Reachable, Acking
      <4>2. CASE i # 1
        BY <2>1, <2>3, <3>1, <4>2 DEF Reachable
      <4> QED BY <4>1, <4>2
    <3>2. ASSUME NEW x \in pel, x.task = u, \A v \in Worker : ~Acking(v, x.id)
          PROVE  Reachable(u)'
      BY <2>1, <2>2, <2>4, <3>2 DEF Reachable, Acking
    <3> QED BY <2>7, <3>1, <3>2 DEF Reachable
  <2>8. \A u \in Task : /\ Waiting(u)' => Waiting(u)
                        /\ Delivered(u)' => Delivered(u)
    BY <2>1 DEF Waiting, Delivered
  <2> QED BY <2>1, <2>7, <2>8, ReachesFramed
<1>11. ASSUME NEW w \in Worker, NEW m \in pel, reclaim(w, m)
       PROVE  DeliveredReaches'
  <2> DEFINE p == [id |-> m.id, task |-> m.task, consumer |-> w]
             got == [pc |-> "got", id |-> m.id, task |-> m.task]
  <2>1. /\ pel' = (pel \ {m}) \cup {p}
        /\ at' = [at EXCEPT ![w] = got]
        /\ UNCHANGED <<task, requested, outbox, sending, poached, stream>>
    BY <1>11 DEF reclaim, vars
  <2>2. p.id = m.id /\ p.task = m.task /\ got.pc = "got"
    OBVIOUS
  <2> HIDE DEF p, got
  <2>3. at'[w] = got /\ \A v \in Worker \ {w} : at'[v] = at[v]
    BY <1>1, <2>1
  <2>4. \A v \in Worker : \A x \in pel : Acking(v, x.id)' => Acking(v, x.id)
    BY <2>2, <2>3 DEF Acking
  <2>5. \A x \in pel : \E q \in pel' : q.id = x.id /\ q.task = x.task
    BY <2>1, <2>2
  <2>6. \A u \in Task : Reachable(u) => Reachable(u)'
    BY <2>1, <2>4, <2>5, ReachableKept
  <2>7. \A u \in Task : /\ Waiting(u)' => Waiting(u)
                        /\ Delivered(u)' => Delivered(u)
    BY <2>1 DEF Waiting, Delivered
  <2> QED BY <2>1, <2>6, <2>7, ReachesFramed
<1>12. ASSUME NEW w \in Worker, handle_claims(w)
       PROVE  DeliveredReaches'
  <2> DEFINE t == at[w].task
             T == {u \in Task : u # t \/ task[t].status # "retry"}
  <2>1. /\ t \in Task
        /\ Goes(w, "handler")
        /\ requested' = requested
        /\ \A a \in Task \ {t} : task'[a] = task[a]
        /\ task[t].status \in {"queued", "running", "retry"}
        /\ poached \subseteq poached'
        /\ task[t].status = "retry" => t \in poached'
        /\ UNCHANGED <<outbox, sending, stream, pel>>
    BY <1>12, HandleClaims
  <2>2. \A u \in Task : Reachable(u) => Reachable(u)'
    BY <2>1, AckingGoes
  <2>3. \A u \in Task : Delivered(u)' => Delivered(u)
    BY <2>1, DeliveredFramed
  <2> HIDE DEF t
  <2>4. \A u \in T : Waiting(u)' => Waiting(u)
    BY <2>1 DEF Waiting
  <2>5. \A u \in Task \ T : u \in poached'
    BY <2>1
  <2>6. T \in SUBSET Task
    OBVIOUS
  <2> HIDE DEF T
  <2> QED BY <2>1, <2>2, <2>3, <2>4, <2>5, <2>6, ReachesFramed
<1>13. ASSUME NEW w \in Worker, ack(w)
       PROVE  DeliveredReaches'
  <2>1. /\ at[w].pc = "ack"
        /\ pel' = {m \in pel : m.id # at[w].id}
        /\ Goes(w, "idle")
        /\ UNCHANGED <<task, requested, outbox, sending, poached, stream>>
    BY <1>13 DEF ack, vars
  <2>2. /\ at'[w] = NoMessage
        /\ \A v \in Worker \ {w} : at'[v] = at[v]
    BY <1>1, <2>1, GoesTo
  <2>3. ASSUME NEW u \in Task, Reachable(u) PROVE Reachable(u)'
    <3>1. CASE \E i \in DOMAIN stream : stream[i].task = u
      BY <2>1, <3>1 DEF Reachable
    <3>2. ASSUME NEW x \in pel, x.task = u, \A v \in Worker : ~Acking(v, x.id)
          PROVE  Reachable(u)'
      <4>1. x \in pel'
        BY <2>1, <3>2 DEF Acking
      <4>2. \A v \in Worker : ~(at'[v].pc \in {"dead_letter", "ack"} /\ at'[v].id = x.id)
        BY <2>2, <3>2 DEF Acking, NoMessage
      <4> QED BY <3>2, <4>1, <4>2 DEF Reachable, Acking
    <3> QED BY <2>3, <3>1, <3>2 DEF Reachable
  <2>4. \A u \in Task : /\ Waiting(u)' => Waiting(u)
                        /\ Delivered(u)' => Delivered(u)
    BY <2>1 DEF Waiting, Delivered
  <2> QED BY <2>1, <2>3, <2>4, ReachesFramed
<1>14. ASSUME NEW w \in Worker, NEW pc \in {"idle", "unclaimed", "dead_letter", "ack"},
              Moves(w, pc)
       PROVE  DeliveredReaches'
  <2> DEFINE t == at[w].task
             T == {u \in Task : \/ pc \notin {"dead_letter", "ack"}
                                \/ at[w].pc = "dead_letter"
                                \/ at[w].pc # "idle" /\ u # t}
  <2>1. /\ Goes(w, pc)
        /\ pc # "idle" => at[w].pc # "idle"
        /\ \/ pc \notin {"dead_letter", "ack"} \/ at[w].pc = "dead_letter"
           \/ task'[t].status \notin {"queued", "running"}
        /\ Quiet
        /\ UNCHANGED <<outbox, sending, stream, pel, poached>>
        /\ requested' = requested
    BY <1>14 DEF Moves, Quiet
  <2>2. \A u \in T : Reachable(u) => Reachable(u)'
    BY <2>1, AckingGoes
  <2>3. \A u \in Task : /\ Delivered(u)' => Delivered(u)
                        /\ Waiting(u)' => Waiting(u)
    BY <2>1, DeliveredFramed, WaitingQuiet
  <2>4. \A u \in Task \ T : ~Waiting(u)'
    BY <2>1 DEF Waiting
  <2>5. T \in SUBSET Task
    OBVIOUS
  <2> HIDE DEF T, t
  <2> QED BY <2>1, <2>2, <2>3, <2>4, <2>5, ReachesFramed
<1>15. CASE Waits
  <2>1. Quiet /\ UNCHANGED <<outbox, sending, requested, stream, pel, at, poached>>
    BY <1>15 DEF Waits, Quiet
  <2>2. \A u \in Task : /\ Delivered(u)' => Delivered(u)
                        /\ Waiting(u)' => Waiting(u)
    BY <2>1, DeliveredFramed, WaitingQuiet
  <2>3. \A u \in Task : Reachable(u) => Reachable(u)'
    BY <2>1 DEF Reachable, Acking
  <2> QED BY <2>1, <2>2, <2>3, ReachesFramed
<1> QED BY <1>4, <1>5, <1>6, <1>7, <1>8, <1>9, <1>10, <1>11, <1>12, <1>13, <1>14, <1>15
        DEF Shape
-----------------------------------------------------------------------------
(* The invariant of the pipeline, and what it says of the runs' properties. *)
LEMMA PipeInit == PipelineInit => Init /\ PipeInv
<1> SUFFICES ASSUME PipelineInit PROVE Init /\ PipeInv
  OBVIOUS
<1> DEFINE new == [status |-> "pending", publish_attempt_count |-> 0,
                   lease_expires_at |-> "null", next_attempt_at |-> "null"]
<1>1. Init /\ held = [w \in Worker |-> NoLease]
  BY DEF PipelineInit, Init
<1>2. /\ at = [w \in Worker |-> NoMessage]
      /\ stream = <<>> /\ pel = {} /\ sending = {} /\ lastId = 0 /\ faults = 0
      /\ outbox = [t \in Task |-> [n \in Request |-> new]]
      /\ \A t \in Task : task[t].status = "queued"
  BY DEF PipelineInit
<1>3. /\ NoMessage \in Place /\ NoMessage.pc = "idle" /\ NoMessage.id = 0
      /\ new \in Event /\ new.status = "pending" /\ new.publish_attempt_count = 0
  BY DEF NoMessage, Place, Event, Instant
<1> HIDE DEF new
<1>4. PipeTypes
  BY <1>2, <1>3, PipeConstants DEF PipeTypes
<1>5. Placed
  BY <1>1, <1>2, <1>3 DEF Placed
<1>6. IdsGrow
  <2>1. DOMAIN stream = {}
    BY <1>2
  <2> QED BY <1>2, <1>3, <2>1 DEF IdsGrow
<1>7. IdsAgree
  BY <1>2 DEF IdsAgree
<1>8. RequestsFit /\ \A t \in Task : requested[t] = 1
  <2>1. PICK blocked \in SUBSET Task :
          /\ task = [t \in Task |-> NewRow(IF t \in blocked THEN "blocked" ELSE "queued")]
          /\ requested = [t \in Task |-> IF t \in blocked THEN 0 ELSE 1]
    BY <1>1 DEF Init
  <2>2. \A t \in Task : t \notin blocked
    BY <1>2, <2>1 DEF NewRow
  <2>3. \A t \in Task : requested[t] = 1 /\ task[t].attempt_count = 0
    BY <2>1, <2>2 DEF NewRow
  <2> QED BY <1>2, <2>3 DEF RequestsFit
<1>9. AttemptsFit
  BY <1>2, <1>3, PipeConstants DEF AttemptsFit
<1>10. PaidFor
  <2>1. Unsettled = {} /\ IsFiniteSet(sending) /\ Cardinality(Unsettled) = 0
    BY <1>2, FS_EmptySet DEF Unsettled
  <2> QED BY <1>2, <2>1, RequestsFinite DEF PaidFor
<1>11. DeliveredReaches
  <2>1. \A t \in Task : outbox[t][requested[t]].status = "pending"
    <3>1. 1 \in Request
      BY PipeConstants DEF Request
    <3> QED BY <1>2, <1>3, <1>8, <3>1
  <2> QED BY <1>2, <2>1 DEF DeliveredReaches, Delivered
<1> QED BY <1>1, <1>4, <1>5, <1>6, <1>7, <1>8, <1>9, <1>10, <1>11 DEF PipeInv

LEMMA PipeStep ==
  ASSUME IInv, PipeInv, [PipelineNext]_allvars
  PROVE  PipeInv'
<1>1. /\ PipeTypes /\ Placed /\ IdsGrow /\ IdsAgree /\ RequestsFit /\ AttemptsFit
      /\ PaidFor /\ DeliveredReaches
  BY DEF PipeInv
<1>2. CASE PipelineNext
  <2>1. Shape
    BY <1>1, <1>2, ShapeOfStep
  <2>2. PipeTypes' /\ Placed'
    BY <1>1, <1>2, TypesStep
  <2>3. IdsGrow' /\ IdsAgree'
    BY <1>1, <2>1, <2>2, IdsStep
  <2>4. RequestsFit'
    BY <1>1, <2>1, RequestsStep
  <2>5. AttemptsFit'
    BY <1>1, <2>1, AttemptsStep
  <2>6. PaidFor'
    BY <1>1, <2>1, PaidStep
  <2>7. DeliveredReaches'
    BY <1>1, <2>1, ReachesStep
  <2> QED BY <2>2, <2>3, <2>4, <2>5, <2>6, <2>7 DEF PipeInv
<1>3. CASE UNCHANGED allvars
  <2>1. UNCHANGED <<task, requested, held, outbox, sending, stream, pel, lastId, at,
                    faults, poached>>
    BY <1>3 DEF allvars, vars, pipe
  <2>2. PipeTypes' /\ Placed' /\ IdsGrow' /\ IdsAgree' /\ RequestsFit'
    BY <1>1, <2>1 DEF PipeTypes, Placed, IdsGrow, IdsAgree, RequestsFit
  <2>3. AttemptsFit'
    BY <1>1, <2>1 DEF AttemptsFit, InHand, StillMine
  <2>4. PaidFor'
    BY <1>1, <2>1 DEF PaidFor, Claimables, Requests, Unsettled, InHand, StillMine
  <2>5. DeliveredReaches'
    BY <1>1, <2>1 DEF DeliveredReaches, Waiting, Delivered, Reachable, Acking
  <2> QED BY <2>2, <2>3, <2>4, <2>5 DEF PipeInv
<1> QED BY <1>2, <1>3

(* A step of the pipeline keeps the invariant of the lease protocol too.    *)
LEMMA PipeLease ==
  ASSUME IInv, PipeInv, [PipelineNext]_allvars
  PROVE  [Next]_vars
<1>1. PipeTypes /\ Placed
  BY DEF PipeInv
<1>2. CASE PipelineNext
  BY <1>1, <1>2, StepOfLease
<1>3. CASE UNCHANGED allvars
  BY <1>3 DEF allvars
<1> QED BY <1>2, <1>3

(* In every reachable state of the pipeline the rows satisfy the invariant  *)
(* of the lease protocol, and outbox, stream and workers their own.         *)
THEOREM PipelineInvariant == PipelineSpec => [](IInv /\ PipeInv)
<1>1. PipelineInit => IInv /\ PipeInv
  BY PipeInit, InitIInv
<1>2. IInv /\ PipeInv /\ [PipelineNext]_allvars => IInv' /\ PipeInv'
  BY PipeStep, PipeLease, StepIInv
<1> QED BY <1>1, <1>2, PTL DEF PipelineSpec

(* The worker loop, the relay and the sweep implement the lease protocol:   *)
(* every step is a step of TaskLease or leaves its variables alone.         *)
THEOREM PipelineImplementsLease == PipelineSpec => ImplementsLease
<1>1. PipelineInit => Init
  BY PipeInit
<1>2. IInv /\ PipeInv /\ [PipelineNext]_allvars => [Next]_vars
  BY PipeLease
<1> QED BY <1>1, <1>2, PipelineInvariant, PTL DEF PipelineSpec, ImplementsLease, Spec

(* What is proved of the rows and leases alone therefore holds of the whole *)
(* pipeline: one owner of a claim, the failure budget, settled tasks that   *)
(* stay settled, and the abstract queue.                                    *)
THEOREM PipelineKeepsLease ==
  PipelineSpec => []SingleOwner /\ []FailureBudget /\ SettledForGood /\ ImplementsQueue
BY PipelineImplementsLease, LeaseExclusive, BudgetKept, SettledTasksStay, LeaseImplementsQueue, PTL
   DEF ImplementsLease

(* Every variable of the pipeline keeps its type; an event is tried at most *)
(* OutboxMaxAttempts times and once more for every fault; a worker is in    *)
(* the handler exactly while it holds a claim.                              *)
THEOREM PipelineTypes == PipelineSpec => []PipelineTypeOK
<1>1. ASSUME PipeInv PROVE PipelineTypeOK
  <2>1. PipeTypes /\ Placed /\ IdsGrow /\ AttemptsFit
    BY <1>1 DEF PipeInv
  <2>2. ASSUME NEW t \in Task, NEW n \in Request
        PROVE  /\ outbox[t][n].status \in {"pending", "publishing", "retry", "published", "dead"}
               /\ outbox[t][n].publish_attempt_count \in 0..OutboxMaxAttempts + MaxFaults
               /\ outbox[t][n].lease_expires_at \in Instant
               /\ outbox[t][n].next_attempt_at \in Instant
    <3>1. outbox[t][n] \in Event /\ faults \in 0..MaxFaults
      BY <2>1 DEF PipeTypes
    <3>2. outbox[t][n].publish_attempt_count <= OutboxMaxAttempts + faults
      BY <2>1 DEF AttemptsFit
    <3>3. outbox[t][n].publish_attempt_count \in Nat
      BY <3>1 DEF Event
    <3>4. outbox[t][n].publish_attempt_count \in 0..OutboxMaxAttempts + MaxFaults
      BY <3>1, <3>2, <3>3, PipeConstants
    <3> QED BY <3>1, <3>4 DEF Event
  <2>3. \A c \in sending : c.task \in Task /\ c.request \in Request /\ c.phase \in Sent
    BY <2>1 DEF PipeTypes, Claim
  <2>4. \A i \in DOMAIN stream : stream[i].id <= lastId /\ stream[i].task \in Task
    BY <2>1, IdsTyped DEF IdsGrow, Entry
  <2>5. \A m \in pel : m.id <= lastId /\ m.task \in Task /\ m.consumer \in Worker
    BY <2>1 DEF PipeTypes, IdsGrow, Pending
  <2>6. \A w \in Worker :
          /\ at[w].pc \in {"idle", "got", "unclaimed", "handler", "dead_letter", "ack"}
          /\ at[w].pc = "handler" <=> held[w] # NoLease
    BY <2>1 DEF PipeTypes, Placed, Place
  <2>7. faults \in 0..MaxFaults
    BY <2>1 DEF PipeTypes
  <2> QED BY <2>2, <2>3, <2>4, <2>5, <2>6, <2>7 DEF PipelineTypeOK
<1> QED BY <1>1, PipelineInvariant, PTL

(* A task that is queued or running, and that no event, message or worker   *)
(* carries, lost its request in one of the two known ways, whatever crashes *)
(* and duplicates came before.                                              *)
THEOREM OnlyKnownWays == PipelineSpec => []OnlyKnownLosses
<1>1. ASSUME IInv, PipeInv PROVE OnlyKnownLosses
  <2> SUFFICES ASSUME NEW t \in Task, Waiting(t), ~Carried(t), t \notin poached
               PROVE  DeadEvent(t)
    BY DEF OnlyKnownLosses
  <2>1. /\ requested[t] \in Nat /\ task[t].attempt_count \in Nat
        /\ task[t].attempt_count <= MaxClaims /\ MaxClaims \in Nat
    BY <1>1, Constants DEF IInv, TypeOK, TaskRow, AttemptLedger
  <2>2. requested[t] >= 1 /\ requested[t] <= task[t].attempt_count + 1
    BY <1>1 DEF PipeInv, RequestsFit
  <2>3. requested[t] \in Request /\ requested[t] <= requested[t]
    BY <2>1, <2>2 DEF Request, MaxRequests
  <2>4. outbox[t][requested[t]].status \in {"published", "dead"}
    BY <2>3 DEF Carried, Unpublished
  <2>5. ~Reachable(t)
    BY DEF Carried, Reachable
  <2>6. outbox[t][requested[t]].status # "published"
    BY <1>1, <2>5 DEF PipeInv, DeliveredReaches, Delivered
  <2> QED BY <2>3, <2>4, <2>6 DEF DeadEvent
<1> QED BY <1>1, PipelineInvariant, PTL

(* There are never more messages than requests and faults: the relays, their *)
(* retries and their expired leases publish nothing twice by themselves.    *)
THEOREM NoFreeDuplicates == PipelineSpec => []DuplicatesAreFaults
<1>1. ASSUME PipeInv PROVE DuplicatesAreFaults
  <2>1. /\ lastId + Cardinality(Claimables) + Cardinality(Unsettled)
             <= Cardinality(Requests) + faults
        /\ IsFiniteSet(sending) /\ lastId \in Nat /\ faults \in Nat
    BY <1>1, PipeConstants DEF PipeInv, PaidFor, PipeTypes
  <2>2. Cardinality(Unsettled) \in Nat
    BY <2>1, CardSub DEF Unsettled
  <2>3. Cardinality(Claimables) \in Nat /\ Cardinality(Requests) \in Nat
    BY RequestsFinite
  <2>4. lastId <= Cardinality(Requests) + faults
    BY <2>1, <2>2, <2>3
  <2> QED BY <2>4 DEF DuplicatesAreFaults, Requests
<1> QED BY <1>1, PipelineInvariant, PTL
=============================================================================
