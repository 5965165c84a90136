------------------------------ MODULE TaskLease ------------------------------
(***************************************************************************)
(* The tables `tasks` and `task_attempts` of the distributed queue and the *)
(* operations of repositories/postgres/tasks.py on them: a worker claims a *)
(* task under a lease, renews the lease from its heartbeat thread, and     *)
(* settles the task by complete_task, fail_task or defer_task, each fenced *)
(* by the lease token and the claim version.  The scheduler republishes    *)
(* due retries.  Each function is one transaction of session_scope, hence  *)
(* one action.                                                             *)
(*                                                                         *)
(* Time.  The code compares lease_expires_at and next_retry_at with a      *)
(* `now` read on the host of the caller, before it waits for a connection  *)
(* and for the row lock.  The model keeps the outcome of the comparison    *)
(* ("null", "past" or "future") and lets an instant pass at any step, so a *)
(* slow clock is an instant that passes later and a fast one an instant    *)
(* that passes earlier: every skew of the hosts' clocks is covered.        *)
(***************************************************************************)
EXTENDS Naturals, FiniteSets

CONSTANTS
  Task,          \* task ids
  Worker,        \* handler threads of the stream workers
  Parent,        \* Parent[t]: payload.parent_task_id of t, or NoTask
  NoTask,        \* no parent
  NoLease,       \* a worker that executes nothing
  MaxAttempts,   \* tasks.max_attempts
  MaxClaims      \* bound: claims of one task that the model follows

ASSUME LeaseAssumption ==
  /\ MaxAttempts \in Nat \ {0}
  /\ MaxClaims \in Nat
  /\ NoTask \notin Task
  /\ Parent \in [Task -> Task \cup {NoTask}]
  /\ NoLease \notin [task: Task, lease_token: Nat, claim_version: Nat]

VARIABLES
  task,        \* rows of `tasks`
  attempt,     \* attempt[t][n]: status of the row of `task_attempts` numbered n
  requested,   \* requested[t]: "task.requested" rows inserted in the outbox
  held,        \* held[w]: the claim worker w is executing, as it remembers it
  lastToken    \* last uuid4 handed out as a lease token

vars == <<task, attempt, requested, held, lastToken>>

Status == {"blocked", "queued", "running", "retry",
           "completed", "dead_letter", "cancelled"}
Terminal == {"completed", "dead_letter", "cancelled"}
AttemptStatus == {"none", "running", "lease_expired", "completed",
                  "failed", "dead_letter", "deferred"}
Instant == {"null", "past", "future"}
Lease == [task: Task, lease_token: Nat, claim_version: Nat]
Null == 0                       \* lease_token is NULL

TaskRow == [status: Status,
            attempt_count: Nat, failure_count: Nat, defer_count: Nat,
            next_retry_at: Instant,
            lease_token: Nat, lease_expires_at: Instant, claim_version: Nat]

TypeOK ==
  /\ task \in [Task -> TaskRow]
  /\ attempt \in [Task -> [1..MaxClaims -> AttemptStatus]]
  /\ requested \in [Task -> Nat]
  /\ held \in [Worker -> Lease \cup {NoLease}]
  /\ lastToken \in Nat
-----------------------------------------------------------------------------
(* _enqueue_task_in_session: a task is born queued, with its outbox event,  *)
(* or blocked without one.                                                  *)
NewRow(status) ==
  [status |-> status, attempt_count |-> 0, failure_count |-> 0,
   defer_count |-> 0, next_retry_at |-> "null", lease_token |-> Null,
   lease_expires_at |-> "null", claim_version |-> 0]

Init ==
  \E blocked \in SUBSET Task :
    /\ task = [t \in Task |-> NewRow(IF t \in blocked THEN "blocked" ELSE "queued")]
    /\ requested = [t \in Task |-> IF t \in blocked THEN 0 ELSE 1]
    /\ attempt = [t \in Task |-> [n \in 1..MaxClaims |-> "none"]]
    /\ held = [w \in Worker |-> NoLease]
    /\ lastToken = Null

(* Claimable without the list of settled statuses.                          *)
ClaimableSettled(t) ==
  /\ task[t].status # "blocked"
  /\ task[t].next_retry_at \in {"null", "past"}
  /\ task[t].status # "running" \/ task[t].lease_expires_at = "past"

(* The WHERE clause of claim_task.  Its last alternative, a running row     *)
(* with no lease_expires_at, is for rows no operation of the code writes.   *)
Claimable(t) ==
  /\ task[t].status \notin {"blocked", "cancelled", "completed", "dead_letter"}
  /\ task[t].next_retry_at \in {"null", "past"}
  /\ task[t].status # "running" \/ task[t].lease_expires_at = "past"

Claimed(row, attempt_no, token, version) ==
  [status |-> "running", attempt_count |-> attempt_no,
   failure_count |-> row.failure_count, defer_count |-> row.defer_count,
   next_retry_at |-> row.next_retry_at, lease_token |-> token,
   lease_expires_at |-> "future", claim_version |-> version]

(* A claim that does not close the attempt whose lease ran out.             *)
claim_task_leaving_attempt(w, t) ==
  /\ held[w] = NoLease
  /\ Claimable(t)
  /\ task[t].attempt_count < MaxClaims
  /\ LET row == task[t]
         token == lastToken + 1
     IN /\ task' = [task EXCEPT ![t] =
             Claimed(row, row.attempt_count + 1, token, row.claim_version + 1)]
        /\ attempt' = [attempt EXCEPT ![t][row.attempt_count + 1] = "running"]
        /\ held' = [held EXCEPT ![w] =
             [task |-> t, lease_token |-> token,
              claim_version |-> row.claim_version + 1]]
        /\ lastToken' = token
  /\ UNCHANGED requested

(* The old attempt of a task whose lease ran out is closed as lease_expired *)
(* and the new one is recorded, in the statement that takes the task.       *)
claim_task(w, t) ==
  /\ held[w] = NoLease
  /\ Claimable(t)
  /\ task[t].attempt_count < MaxClaims
  /\ LET row == task[t]
         old == row.attempt_count
         token == lastToken + 1
     IN /\ task' = [task EXCEPT ![t] =
             Claimed(row, old + 1, token, row.claim_version + 1)]
        /\ attempt' = [attempt EXCEPT ![t] =
             [n \in 1..MaxClaims |->
                IF n = old + 1 THEN "running"
                ELSE IF n = old /\ row.status = "running" /\ attempt[t][n] = "running"
                     THEN "lease_expired"
                     ELSE attempt[t][n]]]
        /\ held' = [held EXCEPT ![w] =
             [task |-> t, lease_token |-> token,
              claim_version |-> row.claim_version + 1]]
        /\ lastToken' = token
  /\ UNCHANGED requested

(* A fence that compares the status and the task only.                      *)
FencedByStatus(w, t) ==
  /\ held[w] # NoLease
  /\ held[w].task = t
  /\ task[t].status = "running"

(* The claim that w remembers is the claim the row carries.                 *)
Fenced(w, t) ==
  /\ held[w] # NoLease
  /\ held[w].task = t
  /\ task[t].status = "running"
  /\ task[t].lease_token = held[w].lease_token
  /\ task[t].claim_version = held[w].claim_version

(* _owned_running_task: fenced, and the lease has not run out.              *)
Owns(w, t) == Fenced(w, t) /\ task[t].lease_expires_at = "future"

(* renew_task_lease does not look at lease_expires_at: the heartbeat of a   *)
(* lease that ran out, and that nobody else took, revives it.               *)
renew_task_lease(w, t) ==
  /\ Fenced(w, t)
  /\ task' = [task EXCEPT ![t].lease_expires_at = "future"]
  /\ UNCHANGED <<attempt, requested, held, lastToken>>

(* What complete_task, fail_task and defer_task share: the lease columns    *)
(* are cleared and the attempt the row counts last gets its result.         *)
Released(row, status, retry) ==
  [status |-> status, attempt_count |-> row.attempt_count,
   failure_count |-> row.failure_count, defer_count |-> row.defer_count,
   next_retry_at |-> retry, lease_token |-> Null,
   lease_expires_at |-> "null", claim_version |-> row.claim_version]

(* A result written to every attempt of the task: attempt_no not compared.  *)
CloseAll(t, result) ==
  [attempt EXCEPT ![t] =
     [n \in 1..MaxClaims |->
        IF n <= task[t].attempt_count THEN result ELSE attempt[t][n]]]

Close(t, result) ==
  [attempt EXCEPT ![t] =
     [n \in 1..MaxClaims |->
        IF n = task[t].attempt_count THEN result ELSE attempt[t][n]]]

Drop(w) == held' = [held EXCEPT ![w] = NoLease]

(* complete_task; the optional outcome activate_task_id releases one more   *)
(* task in the same transaction when that task is blocked.                  *)
complete_task(w, t, activated) ==
  /\ Owns(w, t)
  /\ activated \subseteq {a \in Task \ {t} : task[a].status = "blocked"}
  /\ task' = [a \in Task |->
                IF a = t THEN Released(task[t], "completed", "null")
                ELSE IF a \in activated THEN Released(task[a], "queued", "null")
                ELSE task[a]]
  /\ attempt' = Close(t, "completed")
  /\ requested' = [a \in Task |-> IF a \in activated THEN requested[a] + 1
                                                     ELSE requested[a]]
  /\ Drop(w)
  /\ UNCHANGED lastToken

(* A failure that writes the attempt's word for it in the status column.    *)
fail_task_status_failed(w, t) ==
  /\ Owns(w, t)
  /\ LET failures == task[t].failure_count + 1
         exhausted == failures >= MaxAttempts
     IN /\ task' = [task EXCEPT ![t] =
             [Released(task[t], IF exhausted THEN "dead_letter" ELSE "failed",
                       IF exhausted THEN "null" ELSE "future")
                EXCEPT !.failure_count = failures]]
        /\ attempt' = Close(t, IF exhausted THEN "dead_letter" ELSE "failed")
  /\ Drop(w)
  /\ UNCHANGED <<requested, lastToken>>

(* fail_task: the failure budget decides between retry and dead_letter; a   *)
(* dead root takes its blocked dependents with it.                          *)
fail_task(w, t) ==
  /\ Owns(w, t)
  /\ LET failures == task[t].failure_count + 1
         exhausted == failures >= MaxAttempts
         failed == [Released(task[t], IF exhausted THEN "dead_letter" ELSE "retry",
                             IF exhausted THEN "null" ELSE "future")
                      EXCEPT !.failure_count = failures]
         dependents == {d \in Task : Parent[d] = t /\ task[d].status = "blocked"}
     IN /\ task' = [a \in Task |->
                      IF a = t THEN failed
                      ELSE IF exhausted /\ a \in dependents
                           THEN [task[a] EXCEPT !.status = "cancelled"]
                      ELSE task[a]]
        /\ attempt' = Close(t, IF exhausted THEN "dead_letter" ELSE "failed")
  /\ Drop(w)
  /\ UNCHANGED <<requested, lastToken>>

(* A deferral that is charged to the failure budget.                        *)
defer_task_as_failure(w, t) ==
  /\ Owns(w, t)
  /\ task' = [task EXCEPT ![t] =
                [Released(task[t], "retry", "future")
                   EXCEPT !.defer_count = task[t].defer_count + 1,
                          !.failure_count = task[t].failure_count + 1]]
  /\ attempt' = Close(t, "deferred")
  /\ Drop(w)
  /\ UNCHANGED <<requested, lastToken>>

(* defer_task: the handler raised RetryLater.                               *)
defer_task(w, t) ==
  /\ Owns(w, t)
  /\ task' = [task EXCEPT ![t] =
                [Released(task[t], "retry", "future")
                   EXCEPT !.defer_count = task[t].defer_count + 1]]
  /\ attempt' = Close(t, "deferred")
  /\ Drop(w)
  /\ UNCHANGED <<requested, lastToken>>

(* The three functions answer False or "stale" to a worker that does not    *)
(* own the row any more, and write nothing.                                 *)
stale_settle(w, t) ==
  /\ held[w] # NoLease
  /\ held[w].task = t
  /\ ~Owns(w, t)
  /\ Drop(w)
  /\ UNCHANGED <<task, attempt, requested, lastToken>>

(* enqueue_due_retries, for one of the rows the scheduler's batch locks.    *)
enqueue_due_retries(t) ==
  /\ task[t].status = "retry"
  /\ task[t].next_retry_at \in {"null", "past"}
  /\ task' = [task EXCEPT ![t] = Released(task[t], "queued", "null")]
  /\ requested' = [requested EXCEPT ![t] = requested[t] + 1]
  /\ UNCHANGED <<attempt, held, lastToken>>

(* _activate_ready_tasks_in_session and activate_task_in_session.           *)
activate_task(t) ==
  /\ task[t].status = "blocked"
  /\ task' = [task EXCEPT ![t] = Released(task[t], "queued", "null")]
  /\ requested' = [requested EXCEPT ![t] = requested[t] + 1]
  /\ UNCHANGED <<attempt, held, lastToken>>

(* The root is cancelled even while a worker runs it.                       *)
cancel_root_task_running(t) ==
  /\ task[t].status \notin Terminal
  /\ task' = [task EXCEPT ![t].status = "cancelled"]
  /\ UNCHANGED <<attempt, requested, held, lastToken>>

(* skip_inbox_record(cancel_root_task=True) cancels a root that is not      *)
(* running; the other columns keep their values.                            *)
cancel_root_task(t) ==
  /\ task[t].status \in {"blocked", "queued", "retry"}
  /\ task' = [task EXCEPT ![t].status = "cancelled"]
  /\ UNCHANGED <<attempt, requested, held, lastToken>>

(* The worker process dies: it forgets its claim, the row keeps it.         *)
worker_crash(w) ==
  /\ held[w] # NoLease
  /\ Drop(w)
  /\ UNCHANGED <<task, attempt, requested, lastToken>>

(* Time passes: a lease runs out, a retry falls due.                        *)
lease_passes(t) ==
  /\ task[t].lease_expires_at = "future"
  /\ task' = [task EXCEPT ![t].lease_expires_at = "past"]
  /\ UNCHANGED <<attempt, requested, held, lastToken>>

retry_passes(t) ==
  /\ task[t].next_retry_at = "future"
  /\ task' = [task EXCEPT ![t].next_retry_at = "past"]
  /\ UNCHANGED <<attempt, requested, held, lastToken>>

Next ==
  \/ \E w \in Worker, t \in Task :
       \/ claim_task(w, t)
       \/ renew_task_lease(w, t)
       \/ \E a \in {{}} \cup {{b} : b \in Task} : complete_task(w, t, a)
       \/ fail_task(w, t)
       \/ defer_task(w, t)
       \/ stale_settle(w, t)
  \/ \E w \in Worker : worker_crash(w)
  \/ \E t \in Task :
       \/ enqueue_due_retries(t)
       \/ activate_task(t)
       \/ cancel_root_task(t)
       \/ lease_passes(t)
       \/ retry_passes(t)

Spec == Init /\ [][Next]_vars
-----------------------------------------------------------------------------
(* The attempts table tells the history of the row: the attempts 1 to       *)
(* attempt_count exist, one per claim version; one is running exactly while *)
(* the task is running, and it is the last; a task is completed or          *)
(* dead-lettered exactly by the result of its last attempt.  So the lease   *)
(* that ran out leaves no running attempt behind (claim_task).              *)
AttemptLedger ==
  \A t \in Task :
    /\ task[t].claim_version = task[t].attempt_count
    /\ task[t].attempt_count <= MaxClaims
    /\ task[t].status \in {"running", "completed", "dead_letter"}
         => task[t].attempt_count > 0
    /\ \A n \in 1..MaxClaims :
         /\ attempt[t][n] = "none" <=> n > task[t].attempt_count
         /\ \A s \in {"running", "completed", "dead_letter"} :
              attempt[t][n] = s
                <=> task[t].status = s /\ n = task[t].attempt_count

Tally(t, S) == Cardinality({n \in 1..MaxClaims : attempt[t][n] \in S})

(* Only a failed handler consumes the failure budget: a lease that ran out  *)
(* and a RetryLater do not (fail_task, defer_task).  The budget is never    *)
(* overrun, and the task is dead-lettered exactly when it is used up.       *)
FailureBudget ==
  \A t \in Task :
    /\ task[t].failure_count = Tally(t, {"failed", "dead_letter"})
    /\ task[t].defer_count = Tally(t, {"deferred"})
    /\ task[t].failure_count <= MaxAttempts
    /\ task[t].status = "dead_letter" <=> task[t].failure_count = MaxAttempts

(* No two workers hold the claim a row carries, whatever the clocks of the  *)
(* hosts say and however late a heartbeat or a result arrives.              *)
SingleOwner ==
  \A t \in Task : \A v, w \in Worker : Fenced(v, t) /\ Fenced(w, t) => v = w

(* A settled task stays settled: no late worker, retry sweep or activation  *)
(* changes its status, its attempts, or requests it again.                  *)
SettledForGood ==
  [][\A t \in Task : task[t].status \in Terminal =>
       /\ task'[t].status = task[t].status
       /\ attempt'[t] = attempt[t]
       /\ requested'[t] = requested[t]]_vars

(* The result of an attempt is written once: the late result of a worker    *)
(* that lost its lease cannot rewrite it ("an old worker's late result      *)
(* cannot change the task").                                                *)
AttemptsWriteOnce ==
  [][\A t \in Task : \A n \in 1..MaxClaims :
       attempt[t][n] \notin {"none", "running"}
         => attempt'[t][n] = attempt[t][n]]_vars
-----------------------------------------------------------------------------
(* The queue of TaskQueue: a retry that waits is an open task, the owner is *)
(* the worker whose claim the row carries.                                  *)
QueueState ==
  [t \in Task |-> IF task[t].status \in {"queued", "retry"} THEN "open"
                  ELSE IF task[t].status = "running" THEN "executing"
                  ELSE task[t].status]
QueueOwner == [t \in Task |-> {w \in Worker : Fenced(w, t)}]
QueueFailures == [t \in Task |-> task[t].failure_count]

Queue == INSTANCE TaskQueue WITH
  MaxFailures <- MaxAttempts,
  state <- QueueState, owner <- QueueOwner, failures <- QueueFailures

(* The rows, leases and tokens implement the queue: every function is one   *)
(* of its operations or invisible (a renewal, a sweep of due retries, an    *)
(* instant that passes, the result of a worker that lost its claim).        *)
ImplementsQueue == Queue!Spec
=============================================================================
