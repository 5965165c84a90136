--------------------------- MODULE TaskLeaseProofs ---------------------------
(***************************************************************************)
(* Proofs that the lease protocol of TaskLease keeps its invariants and    *)
(* the failure budget, and that its rows, leases and tokens implement the  *)
(* queue of TaskQueue, for any number of tasks, workers and claims.        *)
(***************************************************************************)
EXTENDS TaskLease, FiniteSetTheorems, TLAPS

(* The inductive invariant.  SingleOwner is not inductive: that two workers *)
(* never hold the claim of one row needs that no two workers remember the   *)
(* same token, which needs that no token above lastToken is in use.         *)
TokensInUse ==
  /\ \A w \in Worker : held[w] # NoLease => held[w].lease_token <= lastToken
  /\ \A v, w \in Worker :
       held[v] # NoLease /\ held[w] # NoLease
         /\ held[v].lease_token = held[w].lease_token => v = w

IInv == TypeOK /\ AttemptLedger /\ TokensInUse

(* Every assumption on the constants that the proofs use.                   *)
LEMMA Constants ==
  /\ MaxAttempts \in Nat /\ MaxAttempts > 0
  /\ MaxClaims \in Nat
  /\ NoLease \notin Lease
BY LeaseAssumption DEF Lease

(* What closing an attempt changes.                                         *)
LEMMA CloseType ==
  ASSUME TypeOK, NEW t \in Task, NEW s \in AttemptStatus
  PROVE  /\ Close(t, s) \in [Task -> [1..MaxClaims -> AttemptStatus]]
         /\ \A a \in Task \ {t} : Close(t, s)[a] = attempt[a]
         /\ \A n \in 1..MaxClaims :
              Close(t, s)[t][n] = IF n = task[t].attempt_count THEN s
                                                               ELSE attempt[t][n]
BY DEF TypeOK, Close

THEOREM InitIInv == Init => IInv
<1> SUFFICES ASSUME Init PROVE IInv
  OBVIOUS
<1> USE Constants DEF Init
<1>1. TypeOK
  BY DEF TypeOK, TaskRow, NewRow, Status, Instant, AttemptStatus, Null
<1>2. AttemptLedger
  BY DEF AttemptLedger, NewRow
<1>3. TokensInUse
  BY DEF TokensInUse
<1> QED BY <1>1, <1>2, <1>3 DEF IInv
-----------------------------------------------------------------------------
(* A worker that drops its claim disturbs neither the type of held nor the  *)
(* tokens in use.                                                           *)
LEMMA DropKeeps ==
  ASSUME TypeOK, TokensInUse, NEW w \in Worker, Drop(w), lastToken' = lastToken
  PROVE  /\ held' \in [Worker -> Lease \cup {NoLease}]
         /\ TokensInUse'
BY DEF TypeOK, TokensInUse, Drop

(* The tokens in use are only touched by a claim.                           *)
LEMMA TokensKept ==
  ASSUME TokensInUse, UNCHANGED <<held, lastToken>>
  PROVE  TokensInUse'
BY DEF TokensInUse

LEMMA ClaimStep ==
  ASSUME IInv, NEW w \in Worker, NEW t \in Task, claim_task(w, t)
  PROVE  IInv'
<1> DEFINE row == task[t]
           old == row.attempt_count
           token == lastToken + 1
           new == Claimed(row, old + 1, token, row.claim_version + 1)
           lease == [task |-> t, lease_token |-> token,
                     claim_version |-> row.claim_version + 1]
<1>1. TypeOK /\ AttemptLedger /\ TokensInUse
  BY DEF IInv
<1>2. /\ row \in TaskRow
      /\ old \in Nat /\ old < MaxClaims
      /\ token \in Nat
      /\ MaxClaims \in Nat
  BY <1>1, Constants DEF TypeOK, TaskRow, claim_task
<1>3. /\ new \in TaskRow
      /\ new.status = "running"
      /\ new.attempt_count = old + 1
      /\ new.claim_version = row.claim_version + 1
  BY <1>2 DEF Claimed, TaskRow, Status, Instant
<1>4. /\ task' = [task EXCEPT ![t] = new]
      /\ held' = [held EXCEPT ![w] = lease]
      /\ lastToken' = token
      /\ requested' = requested
      /\ attempt' = [attempt EXCEPT ![t] =
            [n \in 1..MaxClaims |->
               IF n = old + 1 THEN "running"
               ELSE IF n = old /\ row.status = "running" /\ attempt[t][n] = "running"
                    THEN "lease_expired"
                    ELSE attempt[t][n]]]
  BY DEF claim_task
<1>5. lease \in Lease
  BY <1>2 DEF Lease, TaskRow
<1> HIDE DEF new, lease
<1>6. TypeOK'
  BY <1>1, <1>2, <1>3, <1>4, <1>5 DEF TypeOK, AttemptStatus
<1>7. AttemptLedger'
  <2> SUFFICES ASSUME NEW a \in Task
               PROVE  /\ task'[a].claim_version = task'[a].attempt_count
                      /\ task'[a].attempt_count <= MaxClaims
                      /\ task'[a].status \in {"running", "completed", "dead_letter"}
                           => task'[a].attempt_count > 0
                      /\ \A n \in 1..MaxClaims :
                           /\ attempt'[a][n] = "none" <=> n > task'[a].attempt_count
                           /\ \A s \in {"running", "completed", "dead_letter"} :
                                attempt'[a][n] = s
                                  <=> task'[a].status = s /\ n = task'[a].attempt_count
    BY DEF AttemptLedger
  <2>1. CASE a # t
    <3>1. task'[a] = task[a] /\ attempt'[a] = attempt[a]
      BY <1>1, <1>4, <2>1 DEF TypeOK
    <3> QED BY <1>1, <3>1 DEF AttemptLedger
  <2>2. CASE a = t
    <3>1. task'[t] = new
      BY <1>1, <1>4 DEF TypeOK
    <3>2. \A n \in 1..MaxClaims :
            attempt'[t][n] =
               IF n = old + 1 THEN "running"
               ELSE IF n = old /\ row.status = "running" /\ attempt[t][n] = "running"
                    THEN "lease_expired"
                    ELSE attempt[t][n]
      BY <1>1, <1>4 DEF TypeOK
    <3>3. /\ row.claim_version = old
          /\ \A n \in 1..MaxClaims :
               /\ attempt[t][n] = "none" <=> n > old
               /\ \A s \in {"running", "completed", "dead_letter"} :
                    attempt[t][n] = s <=> row.status = s /\ n = old
      BY <1>1 DEF AttemptLedger
    <3>4. row.status \notin {"completed", "dead_letter"}
      BY DEF claim_task, Claimable
    <3>5. ASSUME NEW n \in 1..MaxClaims
          PROVE  /\ attempt'[t][n] = "none" <=> n > old + 1
                 /\ attempt'[t][n] = "running" <=> n = old + 1
                 /\ attempt'[t][n] # "completed"
                 /\ attempt'[t][n] # "dead_letter"
      <4>1. CASE n = old + 1
        BY <1>2, <3>2, <4>1
      <4>2. CASE n # old + 1
        BY <1>2, <3>2, <3>3, <3>4, <4>2
      <4> QED BY <4>1, <4>2
    <3> QED BY <1>2, <1>3, <2>2, <3>1, <3>3, <3>5
  <2> QED BY <2>1, <2>2
<1>8. TokensInUse'
  BY <1>1, <1>2, <1>4, <1>5, Constants DEF TypeOK, TokensInUse, Lease, lease
<1> QED BY <1>6, <1>7, <1>8 DEF IInv
-----------------------------------------------------------------------------
(* AttemptLedger for one row of `tasks` and its attempts.                   *)
LedgerAt(row, att) ==
  /\ row.claim_version = row.attempt_count
  /\ row.attempt_count <= MaxClaims
  /\ row.status \in {"running", "completed", "dead_letter"} => row.attempt_count > 0
  /\ \A n \in 1..MaxClaims :
       /\ att[n] = "none" <=> n > row.attempt_count
       /\ \A s \in {"running", "completed", "dead_letter"} :
            att[n] = s <=> row.status = s /\ n = row.attempt_count

(* A row that keeps its counters and moves between statuses that no attempt *)
(* shows, or keeps its status, keeps its ledger.                            *)
LEMMA QuietRow ==
  ASSUME NEW row, NEW new, NEW att, LedgerAt(row, att),
         new.claim_version = row.claim_version,
         new.attempt_count = row.attempt_count,
         \/ new.status = row.status
         \/ /\ row.status \notin {"running", "completed", "dead_letter"}
            /\ new.status \notin {"running", "completed", "dead_letter"}
  PROVE  LedgerAt(new, att)
BY DEF LedgerAt

(* Closing the running attempt with the result that settles or releases its *)
(* row keeps the ledger of the row.                                         *)
LEMMA ClosedRow ==
  ASSUME TypeOK, AttemptLedger, NEW t \in Task, task[t].status = "running",
         NEW new, NEW result \in AttemptStatus,
         new.claim_version = task[t].claim_version,
         new.attempt_count = task[t].attempt_count,
         \/ /\ new.status = "completed" /\ result = "completed"
         \/ /\ new.status = "dead_letter" /\ result = "dead_letter"
         \/ /\ new.status = "retry" /\ result \in {"failed", "deferred"}
  PROVE  LedgerAt(new, Close(t, result)[t])
<1>1. /\ task[t].attempt_count \in Nat
      /\ task[t].attempt_count > 0
      /\ LedgerAt(task[t], attempt[t])
  BY DEF TypeOK, TaskRow, AttemptLedger, LedgerAt
<1>2. \A n \in 1..MaxClaims :
        Close(t, result)[t][n] = IF n = task[t].attempt_count THEN result
                                                              ELSE attempt[t][n]
  BY CloseType
<1>3. ASSUME NEW n \in 1..MaxClaims
      PROVE  /\ Close(t, result)[t][n] = "none" <=> n > new.attempt_count
             /\ \A s \in {"running", "completed", "dead_letter"} :
                  Close(t, result)[t][n] = s
                    <=> new.status = s /\ n = new.attempt_count
  <2>1. CASE n = task[t].attempt_count
    BY <1>1, <1>2, <2>1
  <2>2. CASE n # task[t].attempt_count
    BY <1>1, <1>2, <2>2 DEF LedgerAt
  <2> QED BY <2>1, <2>2
<1> QED BY <1>1, <1>3 DEF LedgerAt

(* Writing the three parts of IInv row by row.                              *)
LEMMA LedgerByRow ==
  ASSUME \A a \in Task : LedgerAt(task[a], attempt[a])'
  PROVE  AttemptLedger'
BY DEF AttemptLedger, LedgerAt

LEMMA RowLedger ==
  ASSUME AttemptLedger, NEW a \in Task
  PROVE  LedgerAt(task[a], attempt[a])
BY DEF AttemptLedger, LedgerAt
-----------------------------------------------------------------------------
(* The steps that only touch the columns of one row that no attempt shows:  *)
(* a renewal, the passing of time, a cancellation and the two requests.     *)
LEMMA QuietStep ==
  ASSUME IInv, NEW t \in Task, NEW new \in TaskRow,
         task' = [task EXCEPT ![t] = new],
         new.claim_version = task[t].claim_version,
         new.attempt_count = task[t].attempt_count,
         \/ new.status = task[t].status
         \/ /\ task[t].status \notin {"running", "completed", "dead_letter"}
            /\ new.status \notin {"running", "completed", "dead_letter"},
         requested' \in [Task -> Nat],
         UNCHANGED <<attempt, held, lastToken>>
  PROVE  IInv'
<1>1. TypeOK /\ AttemptLedger /\ TokensInUse
  BY DEF IInv
<1>2. TypeOK'
  BY <1>1 DEF TypeOK
<1>3. ASSUME NEW a \in Task PROVE LedgerAt(task[a], attempt[a])'
  <2>1. CASE a # t
    <3>1. task'[a] = task[a] /\ attempt'[a] = attempt[a]
      BY <1>1, <2>1 DEF TypeOK
    <3> QED BY <1>1, <3>1, RowLedger DEF LedgerAt
  <2>2. CASE a = t
    <3>1. task'[a] = new /\ attempt'[a] = attempt[t]
      BY <1>1, <2>2 DEF TypeOK
    <3>2. LedgerAt(new, attempt[t])
      BY <1>1, RowLedger, QuietRow
    <3> QED BY <3>1, <3>2 DEF LedgerAt
  <2> QED BY <2>1, <2>2
<1>4. TokensInUse'
  BY <1>1, TokensKept
<1> QED BY <1>2, <1>3, <1>4, LedgerByRow DEF IInv

LEMMA RenewStep ==
  ASSUME IInv, NEW w \in Worker, NEW t \in Task, renew_task_lease(w, t)
  PROVE  IInv'
<1> DEFINE new == [task[t] EXCEPT !.lease_expires_at = "future"]
<1>1. task \in [Task -> TaskRow] /\ requested \in [Task -> Nat]
  BY DEF IInv, TypeOK
<1>2. /\ new \in TaskRow
      /\ new.claim_version = task[t].claim_version
      /\ new.attempt_count = task[t].attempt_count
      /\ new.status = task[t].status
  BY <1>1 DEF TaskRow, Instant
<1>3. task' = [task EXCEPT ![t] = new] /\ UNCHANGED <<attempt, requested, held, lastToken>>
  BY <1>1 DEF renew_task_lease, TaskRow
<1> HIDE DEF new
<1> QED BY <1>1, <1>2, <1>3, QuietStep

LEMMA TimeStep ==
  ASSUME IInv, NEW t \in Task, lease_passes(t) \/ retry_passes(t)
  PROVE  IInv'
<1>1. task \in [Task -> TaskRow] /\ requested \in [Task -> Nat]
  BY DEF IInv, TypeOK
<1>2. CASE lease_passes(t)
  <2> DEFINE new == [task[t] EXCEPT !.lease_expires_at = "past"]
  <2>1. /\ new \in TaskRow
        /\ new.claim_version = task[t].claim_version
        /\ new.attempt_count = task[t].attempt_count
        /\ new.status = task[t].status
    BY <1>1 DEF TaskRow, Instant
  <2>2. task' = [task EXCEPT ![t] = new] /\ UNCHANGED <<attempt, requested, held, lastToken>>
    BY <1>1, <1>2 DEF lease_passes, TaskRow
  <2> HIDE DEF new
  <2> QED BY <1>1, <2>1, <2>2, QuietStep
<1>3. CASE retry_passes(t)
  <2> DEFINE new == [task[t] EXCEPT !.next_retry_at = "past"]
  <2>1. /\ new \in TaskRow
        /\ new.claim_version = task[t].claim_version
        /\ new.attempt_count = task[t].attempt_count
        /\ new.status = task[t].status
    BY <1>1 DEF TaskRow, Instant
  <2>2. task' = [task EXCEPT ![t] = new] /\ UNCHANGED <<attempt, requested, held, lastToken>>
    BY <1>1, <1>3 DEF retry_passes, TaskRow
  <2> HIDE DEF new
  <2> QED BY <1>1, <2>1, <2>2, QuietStep
<1> QED BY <1>2, <1>3

(* enqueue_due_retries and activate_task request a task again.              *)
LEMMA RequestStep ==
  ASSUME IInv, NEW t \in Task, enqueue_due_retries(t) \/ activate_task(t)
  PROVE  IInv'
<1> DEFINE new == Released(task[t], "queued", "null")
<1>1. task \in [Task -> TaskRow] /\ requested \in [Task -> Nat]
  BY DEF IInv, TypeOK
<1>2. /\ new \in TaskRow
      /\ new.claim_version = task[t].claim_version
      /\ new.attempt_count = task[t].attempt_count
      /\ new.status = "queued"
  BY <1>1 DEF Released, TaskRow, Status, Instant, Null
<1>3. /\ task' = [task EXCEPT ![t] = new]
      /\ task[t].status \in {"retry", "blocked"}
      /\ requested' \in [Task -> Nat]
      /\ UNCHANGED <<attempt, held, lastToken>>
  BY <1>1 DEF enqueue_due_retries, activate_task
<1> HIDE DEF new
<1> QED BY <1>1, <1>2, <1>3, QuietStep

LEMMA CancelStep ==
  ASSUME IInv, NEW t \in Task, cancel_root_task(t)
  PROVE  IInv'
<1> DEFINE new == [task[t] EXCEPT !.status = "cancelled"]
<1>1. task \in [Task -> TaskRow] /\ requested \in [Task -> Nat]
  BY DEF IInv, TypeOK
<1>2. /\ new \in TaskRow
      /\ new.claim_version = task[t].claim_version
      /\ new.attempt_count = task[t].attempt_count
      /\ new.status = "cancelled"
  BY <1>1 DEF TaskRow, Status
<1>3. /\ task' = [task EXCEPT ![t] = new]
      /\ task[t].status \in {"blocked", "queued", "retry"}
      /\ UNCHANGED <<attempt, requested, held, lastToken>>
  BY <1>1 DEF cancel_root_task, TaskRow
<1> HIDE DEF new
<1> QED BY <1>1, <1>2, <1>3, QuietStep
-----------------------------------------------------------------------------
(* The three ways a worker settles its task.                                *)
LEMMA CompleteStep ==
  ASSUME IInv, NEW w \in Worker, NEW t \in Task, NEW activated,
         complete_task(w, t, activated)
  PROVE  IInv'
<1> DEFINE done == Released(task[t], "completed", "null")
           freed(a) == Released(task[a], "queued", "null")
<1>1. TypeOK /\ AttemptLedger /\ TokensInUse
  BY DEF IInv
<1>2. /\ task' = [a \in Task |-> IF a = t THEN done
                                 ELSE IF a \in activated THEN freed(a) ELSE task[a]]
      /\ attempt' = Close(t, "completed")
      /\ requested' = [a \in Task |-> IF a \in activated THEN requested[a] + 1
                                                         ELSE requested[a]]
      /\ Drop(w) /\ lastToken' = lastToken
      /\ task[t].status = "running"
      /\ \A a \in activated : a # t /\ task[a].status = "blocked"
  BY DEF complete_task, Owns, Fenced
<1>3. /\ done \in TaskRow
      /\ done.status = "completed"
      /\ done.claim_version = task[t].claim_version
      /\ done.attempt_count = task[t].attempt_count
  BY <1>1 DEF TypeOK, TaskRow, Released, Status, Instant, Null
<1>4. ASSUME NEW a \in Task
      PROVE  /\ freed(a) \in TaskRow
             /\ freed(a).status = "queued"
             /\ freed(a).claim_version = task[a].claim_version
             /\ freed(a).attempt_count = task[a].attempt_count
  BY <1>1 DEF TypeOK, TaskRow, Released, Status, Instant, Null
<1> HIDE DEF done, freed
<1>5. "completed" \in AttemptStatus
  BY DEF AttemptStatus
<1>6. TypeOK'
  <2>1. task' \in [Task -> TaskRow]
    BY <1>1, <1>2, <1>3, <1>4 DEF TypeOK
  <2>2. attempt' \in [Task -> [1..MaxClaims -> AttemptStatus]]
    BY <1>1, <1>2, <1>5, CloseType
  <2>3. requested' \in [Task -> Nat]
    BY <1>1, <1>2 DEF TypeOK
  <2>4. held' \in [Worker -> Lease \cup {NoLease}] /\ lastToken' \in Nat
    BY <1>1, <1>2, DropKeeps DEF TypeOK
  <2> QED BY <2>1, <2>2, <2>3, <2>4 DEF TypeOK
<1>7. ASSUME NEW a \in Task PROVE LedgerAt(task[a], attempt[a])'
  <2>1. CASE a = t
    <3>1. LedgerAt(done, Close(t, "completed")[t])
      BY <1>1, <1>2, <1>3, <1>5, ClosedRow
    <3> QED BY <1>2, <2>1, <3>1 DEF LedgerAt
  <2>2. CASE a # t /\ a \in activated
    <3>1. LedgerAt(freed(a), attempt[a])
      BY <1>1, <1>2, <1>4, <2>2, RowLedger, QuietRow
    <3>2. task'[a] = freed(a) /\ attempt'[a] = attempt[a]
      BY <1>1, <1>2, <1>5, <2>2, CloseType
    <3> QED BY <3>1, <3>2 DEF LedgerAt
  <2>3. CASE a # t /\ a \notin activated
    <3>1. task'[a] = task[a] /\ attempt'[a] = attempt[a]
      BY <1>1, <1>2, <1>5, <2>3, CloseType
    <3> QED BY <1>1, <3>1, RowLedger DEF LedgerAt
  <2> QED BY <2>1, <2>2, <2>3
<1>8. TokensInUse'
  BY <1>1, <1>2, DropKeeps
<1> QED BY <1>6, <1>7, <1>8, LedgerByRow DEF IInv

LEMMA FailStep ==
  ASSUME IInv, NEW w \in Worker, NEW t \in Task, fail_task(w, t)
  PROVE  IInv'
<1> DEFINE failures == task[t].failure_count + 1
           exhausted == failures >= MaxAttempts
           status == IF exhausted THEN "dead_letter" ELSE "retry"
           result == IF exhausted THEN "dead_letter" ELSE "failed"
           released == Released(task[t], status, IF exhausted THEN "null" ELSE "future")
           failed == [released EXCEPT !.failure_count = failures]
           cut(a) == [task[a] EXCEPT !.status = "cancelled"]
           dependents == {d \in Task : Parent[d] = t /\ task[d].status = "blocked"}
<1>1. TypeOK /\ AttemptLedger /\ TokensInUse
  BY DEF IInv
<1>2. /\ task' = [a \in Task |-> IF a = t THEN failed
                                 ELSE IF exhausted /\ a \in dependents THEN cut(a)
                                 ELSE task[a]]
      /\ attempt' = Close(t, result)
      /\ Drop(w) /\ lastToken' = lastToken /\ requested' = requested
      /\ task[t].status = "running"
  BY DEF fail_task, Owns, Fenced
<1>3. /\ failures \in Nat
      /\ released \in TaskRow
      /\ released.status = status
      /\ released.claim_version = task[t].claim_version
      /\ released.attempt_count = task[t].attempt_count
  BY <1>1 DEF TypeOK, TaskRow, Released, Status, Instant, Null
<1> HIDE DEF released, failures
<1>4. /\ failed \in TaskRow
      /\ failed.status = released.status
      /\ failed.claim_version = released.claim_version
      /\ failed.attempt_count = released.attempt_count
  BY <1>3 DEF TaskRow
<1>5. ASSUME NEW a \in Task
      PROVE  /\ cut(a) \in TaskRow
             /\ cut(a).status = "cancelled"
             /\ cut(a).claim_version = task[a].claim_version
             /\ cut(a).attempt_count = task[a].attempt_count
  <2>1. task[a] \in TaskRow
    BY <1>1 DEF TypeOK
  <2> QED BY <2>1 DEF TaskRow, Status
<1>6. /\ result \in AttemptStatus
      /\ \/ status = "dead_letter" /\ result = "dead_letter"
         \/ status = "retry" /\ result \in {"failed", "deferred"}
  BY DEF AttemptStatus
<1>7. \A a \in dependents : task[a].status = "blocked"
  OBVIOUS
<1> HIDE DEF failed, cut, dependents, exhausted, status, result
<1>8. TypeOK'
  <2>1. task' \in [Task -> TaskRow]
    BY <1>1, <1>2, <1>4, <1>5 DEF TypeOK
  <2>2. attempt' \in [Task -> [1..MaxClaims -> AttemptStatus]]
    BY <1>1, <1>2, <1>6, CloseType
  <2>3. requested' \in [Task -> Nat]
    BY <1>1, <1>2 DEF TypeOK
  <2>4. held' \in [Worker -> Lease \cup {NoLease}] /\ lastToken' \in Nat
    BY <1>1, <1>2, DropKeeps DEF TypeOK
  <2> QED BY <2>1, <2>2, <2>3, <2>4 DEF TypeOK
<1>9. ASSUME NEW a \in Task PROVE LedgerAt(task[a], attempt[a])'
  <2>1. CASE a = t
    <3>1. LedgerAt(failed, Close(t, result)[t])
      BY <1>1, <1>2, <1>3, <1>4, <1>6, ClosedRow
    <3> QED BY <1>2, <2>1, <3>1 DEF LedgerAt
  <2>2. CASE a # t /\ exhausted /\ a \in dependents
    <3>1. LedgerAt(cut(a), attempt[a])
      BY <1>1, <1>5, <1>7, <2>2, RowLedger, QuietRow
    <3>2. task'[a] = cut(a) /\ attempt'[a] = attempt[a]
      BY <1>1, <1>2, <1>6, <2>2, CloseType
    <3> QED BY <3>1, <3>2 DEF LedgerAt
  <2>3. CASE a # t /\ ~(exhausted /\ a \in dependents)
    <3>1. task'[a] = task[a] /\ attempt'[a] = attempt[a]
      BY <1>1, <1>2, <1>6, <2>3, CloseType
    <3> QED BY <1>1, <3>1, RowLedger DEF LedgerAt
  <2> QED BY <2>1, <2>2, <2>3
<1>10. TokensInUse'
  BY <1>1, <1>2, DropKeeps
<1> QED BY <1>8, <1>9, <1>10, LedgerByRow DEF IInv

LEMMA DeferStep ==
  ASSUME IInv, NEW w \in Worker, NEW t \in Task, defer_task(w, t)
  PROVE  IInv'
<1> DEFINE defers == task[t].defer_count + 1
           released == Released(task[t], "retry", "future")
           deferred == [released EXCEPT !.defer_count = defers]
<1>1. TypeOK /\ AttemptLedger /\ TokensInUse
  BY DEF IInv
<1>2. /\ task' = [task EXCEPT ![t] = deferred]
      /\ attempt' = Close(t, "deferred")
      /\ Drop(w) /\ lastToken' = lastToken /\ requested' = requested
      /\ task[t].status = "running"
  BY DEF defer_task, Owns, Fenced
<1>3. /\ defers \in Nat
      /\ released \in TaskRow
      /\ released.status = "retry"
      /\ released.claim_version = task[t].claim_version
      /\ released.attempt_count = task[t].attempt_count
  BY <1>1 DEF TypeOK, TaskRow, Released, Status, Instant, Null
<1> HIDE DEF released, defers
<1>4. /\ deferred \in TaskRow
      /\ deferred.status = "retry"
      /\ deferred.claim_version = task[t].claim_version
      /\ deferred.attempt_count = task[t].attempt_count
  BY <1>3 DEF TaskRow
<1>5. "deferred" \in AttemptStatus
  BY DEF AttemptStatus
<1> HIDE DEF deferred
<1>6. TypeOK'
  <2>1. task' \in [Task -> TaskRow]
    BY <1>1, <1>2, <1>4 DEF TypeOK
  <2>2. attempt' \in [Task -> [1..MaxClaims -> AttemptStatus]]
    BY <1>1, <1>2, <1>5, CloseType
  <2>3. held' \in [Worker -> Lease \cup {NoLease}]
    BY <1>1, <1>2, DropKeeps
  <2> QED BY <1>1, <1>2, <2>1, <2>2, <2>3 DEF TypeOK
<1>7. ASSUME NEW a \in Task PROVE LedgerAt(task[a], attempt[a])'
  <2>1. CASE a = t
    <3>1. LedgerAt(deferred, Close(t, "deferred")[t])
      BY <1>1, <1>2, <1>4, <1>5, ClosedRow
    <3>2. task'[t] = deferred
      BY <1>1, <1>2 DEF TypeOK
    <3> QED BY <1>2, <2>1, <3>1, <3>2 DEF LedgerAt
  <2>2. CASE a # t
    <3>1. task'[a] = task[a] /\ attempt'[a] = attempt[a]
      BY <1>1, <1>2, <1>5, <2>2, CloseType DEF TypeOK
    <3> QED BY <1>1, <3>1, RowLedger DEF LedgerAt
  <2> QED BY <2>1, <2>2
<1>8. TokensInUse'
  BY <1>1, <1>2, DropKeeps
<1> QED BY <1>6, <1>7, <1>8, LedgerByRow DEF IInv

(* A worker that forgets its claim, because its result came too late or     *)
(* because it died.                                                         *)
LEMMA ForgetStep ==
  ASSUME IInv, NEW w \in Worker, Drop(w),
         UNCHANGED <<task, attempt, requested, lastToken>>
  PROVE  IInv'
<1>1. TypeOK /\ AttemptLedger /\ TokensInUse
  BY DEF IInv
<1>2. TypeOK'
  BY <1>1, DropKeeps DEF TypeOK
<1>3. AttemptLedger'
  BY <1>1 DEF AttemptLedger
<1> QED BY <1>1, <1>2, <1>3, DropKeeps DEF IInv
-----------------------------------------------------------------------------
LEMMA StepIInv == IInv /\ [Next]_vars => IInv'
<1> SUFFICES ASSUME IInv, [Next]_vars PROVE IInv'
  OBVIOUS
<1>1. CASE UNCHANGED vars
  BY <1>1 DEF vars, IInv, TypeOK, AttemptLedger, TokensInUse
<1>2. ASSUME NEW w \in Worker, NEW t \in Task, claim_task(w, t) PROVE IInv'
  BY <1>2, ClaimStep
<1>3. ASSUME NEW w \in Worker, NEW t \in Task, renew_task_lease(w, t) PROVE IInv'
  BY <1>3, RenewStep
<1>4. ASSUME NEW w \in Worker, NEW t \in Task, NEW a, complete_task(w, t, a) PROVE IInv'
  BY <1>4, CompleteStep
<1>5. ASSUME NEW w \in Worker, NEW t \in Task, fail_task(w, t) PROVE IInv'
  BY <1>5, FailStep
<1>6. ASSUME NEW w \in Worker, NEW t \in Task, defer_task(w, t) PROVE IInv'
  BY <1>6, DeferStep
<1>7. ASSUME NEW w \in Worker, NEW t \in Task, stale_settle(w, t) PROVE IInv'
  BY <1>7, ForgetStep DEF stale_settle
<1>8. ASSUME NEW w \in Worker, worker_crash(w) PROVE IInv'
  BY <1>8, ForgetStep DEF worker_crash
<1>9. ASSUME NEW t \in Task, enqueue_due_retries(t) \/ activate_task(t) PROVE IInv'
  BY <1>9, RequestStep
<1>10. ASSUME NEW t \in Task, cancel_root_task(t) PROVE IInv'
  BY <1>10, CancelStep
<1>11. ASSUME NEW t \in Task, lease_passes(t) \/ retry_passes(t) PROVE IInv'
  BY <1>11, TimeStep
<1> QED BY <1>1, <1>2, <1>3, <1>4, <1>5, <1>6, <1>7, <1>8, <1>9, <1>10, <1>11 DEF Next

(* The inductive invariant holds of every execution.                        *)
THEOREM LeaseInvariant == Spec => []IInv
BY InitIInv, StepIInv, PTL DEF Spec

(* Every column keeps its type in every execution of the lease protocol.    *)
THEOREM TypeCorrect == Spec => []TypeOK
<1>1. IInv => TypeOK
  BY DEF IInv
<1> QED BY <1>1, LeaseInvariant, PTL

(* task_attempts tells the history of tasks in every execution: claim_task, *)
(* complete_task, fail_task and defer_task keep the two tables in step.     *)
THEOREM LedgerKept == Spec => []AttemptLedger
<1>1. IInv => AttemptLedger
  BY DEF IInv
<1> QED BY <1>1, LeaseInvariant, PTL

(* Mutual exclusion of the lease: no two workers pass the fence of one row, *)
(* for any number of workers and whatever the hosts' clocks say.            *)
THEOREM LeaseExclusive == Spec => []SingleOwner
<1>1. IInv => SingleOwner
  BY DEF IInv, TypeOK, TokensInUse, SingleOwner, Fenced
<1> QED BY <1>1, LeaseInvariant, PTL
-----------------------------------------------------------------------------
(* What a step does to the rows it is not about, and to the row it is.      *)
SettledStep ==
  \A t \in Task : task[t].status \in Terminal =>
    /\ task'[t].status = task[t].status
    /\ attempt'[t] = attempt[t]
    /\ requested'[t] = requested[t]

WriteOnceStep ==
  \A t \in Task : \A n \in 1..MaxClaims :
    attempt[t][n] \notin {"none", "running"} => attempt'[t][n] = attempt[t][n]

(* A settling worker owns a running row, whose last attempt is running.     *)
LEMMA CloseOnce ==
  ASSUME IInv, NEW w \in Worker, NEW t \in Task, Owns(w, t),
         NEW result \in AttemptStatus, attempt' = Close(t, result)
  PROVE  /\ \A a \in Task : task[a].status \in Terminal => attempt'[a] = attempt[a]
         /\ WriteOnceStep
<1>1. TypeOK /\ AttemptLedger
  BY DEF IInv
<1>2. task[t].status = "running"
  BY DEF Owns, Fenced
<1>3. \A a \in Task \ {t} : attempt'[a] = attempt[a]
  BY <1>1, CloseType
<1>4. \A n \in 1..MaxClaims : n # task[t].attempt_count => attempt'[t][n] = attempt[t][n]
  BY <1>1, CloseType
<1>5. \A n \in 1..MaxClaims : n = task[t].attempt_count => attempt[t][n] = "running"
  BY <1>1, <1>2 DEF AttemptLedger
<1> QED BY <1>2, <1>3, <1>4, <1>5 DEF Terminal, WriteOnceStep

LEMMA StepSettles ==
  ASSUME IInv, Next PROVE SettledStep /\ WriteOnceStep
<1>1. TypeOK /\ AttemptLedger
  BY DEF IInv
<1>2. ASSUME attempt' = attempt PROVE WriteOnceStep
  BY <1>2 DEF WriteOnceStep
<1>3. ASSUME NEW w \in Worker, NEW t \in Task, claim_task(w, t)
      PROVE  SettledStep /\ WriteOnceStep
  <2>1. /\ task[t].status \notin Terminal
        /\ \A a \in Task \ {t} : task'[a] = task[a] /\ attempt'[a] = attempt[a]
        /\ requested' = requested
    BY <1>1, <1>3 DEF TypeOK, claim_task, Claimable, Terminal
  <2>2. \A n \in 1..MaxClaims :
          attempt'[t][n] =
             IF n = task[t].attempt_count + 1 THEN "running"
             ELSE IF n = task[t].attempt_count /\ task[t].status = "running"
                       /\ attempt[t][n] = "running"
                  THEN "lease_expired"
                  ELSE attempt[t][n]
    BY <1>1, <1>3 DEF TypeOK, claim_task
  <2>3. \A n \in 1..MaxClaims : n = task[t].attempt_count + 1 => attempt[t][n] = "none"
    BY <1>1, Constants DEF TypeOK, TaskRow, AttemptLedger
  <2> QED BY <2>1, <2>2, <2>3 DEF SettledStep, WriteOnceStep
<1>4. ASSUME NEW w \in Worker, NEW t \in Task, NEW a, complete_task(w, t, a)
      PROVE  SettledStep /\ WriteOnceStep
  <2>1. "completed" \in AttemptStatus
    BY DEF AttemptStatus
  <2>2. /\ \A b \in Task : task[b].status \in Terminal => attempt'[b] = attempt[b]
        /\ WriteOnceStep
    BY <1>4, <2>1, CloseOnce DEF complete_task
  <2>3. \A b \in Task : task[b].status \in Terminal =>
          task'[b] = task[b] /\ requested'[b] = requested[b]
    BY <1>4 DEF complete_task, Owns, Fenced, Terminal
  <2> QED BY <2>2, <2>3 DEF SettledStep
<1>5. ASSUME NEW w \in Worker, NEW t \in Task, fail_task(w, t)
      PROVE  SettledStep /\ WriteOnceStep
  <2>1. {"dead_letter", "failed"} \subseteq AttemptStatus
    BY DEF AttemptStatus
  <2>2. PICK result \in AttemptStatus : attempt' = Close(t, result)
    BY <1>5, <2>1 DEF fail_task
  <2>3. /\ \A b \in Task : task[b].status \in Terminal => attempt'[b] = attempt[b]
        /\ WriteOnceStep
    BY <1>5, <2>2, CloseOnce DEF fail_task
  <2>4. \A b \in Task : task[b].status \in Terminal =>
          task'[b] = task[b] /\ requested'[b] = requested[b]
    BY <1>5 DEF fail_task, Owns, Fenced, Terminal
  <2> QED BY <2>3, <2>4 DEF SettledStep
<1>6. ASSUME NEW w \in Worker, NEW t \in Task, defer_task(w, t)
      PROVE  SettledStep /\ WriteOnceStep
  <2>1. "deferred" \in AttemptStatus
    BY DEF AttemptStatus
  <2>2. /\ \A b \in Task : task[b].status \in Terminal => attempt'[b] = attempt[b]
        /\ WriteOnceStep
    BY <1>6, <2>1, CloseOnce DEF defer_task
  <2>3. \A b \in Task : task[b].status \in Terminal =>
          task'[b] = task[b] /\ requested'[b] = requested[b]
    BY <1>1, <1>6 DEF TypeOK, defer_task, Owns, Fenced, Terminal
  <2> QED BY <2>2, <2>3 DEF SettledStep
<1>7. ASSUME NEW w \in Worker, NEW t \in Task,
             renew_task_lease(w, t) \/ stale_settle(w, t)
      PROVE  SettledStep /\ WriteOnceStep
  BY <1>1, <1>2, <1>7 DEF TypeOK, renew_task_lease, stale_settle,
     Fenced, Terminal, SettledStep
<1>8. ASSUME NEW w \in Worker, worker_crash(w)
      PROVE  SettledStep /\ WriteOnceStep
  BY <1>2, <1>8 DEF worker_crash, SettledStep
<1>9. ASSUME NEW t \in Task,
             \/ enqueue_due_retries(t) \/ activate_task(t) \/ cancel_root_task(t)
      PROVE  SettledStep /\ WriteOnceStep
  BY <1>1, <1>2, <1>9 DEF TypeOK, enqueue_due_retries, activate_task,
     cancel_root_task, Terminal, SettledStep
<1>10. ASSUME NEW t \in Task, lease_passes(t) \/ retry_passes(t)
       PROVE  SettledStep /\ WriteOnceStep
  <2>1. attempt' = attempt /\ requested' = requested
    BY <1>10 DEF lease_passes, retry_passes
  <2>2. ASSUME NEW a \in Task PROVE task'[a].status = task[a].status
    <3>1. task \in [Task -> TaskRow]
      BY <1>1 DEF TypeOK
    <3>2. CASE lease_passes(t)
      BY <3>1, <3>2 DEF TaskRow, lease_passes
    <3>3. CASE retry_passes(t)
      BY <3>1, <3>3 DEF TaskRow, retry_passes
    <3> QED BY <1>10, <3>2, <3>3
  <2> QED BY <1>2, <2>1, <2>2 DEF SettledStep
<1> QED BY <1>3, <1>4, <1>5, <1>6, <1>7, <1>8, <1>9, <1>10 DEF Next

(* No step of any execution reopens a settled task, rewrites its attempts   *)
(* or requests it again.                                                    *)
THEOREM SettledTasksStay == Spec => SettledForGood
<1>1. IInv /\ [Next]_vars => [SettledStep]_vars
  BY StepSettles
<1> QED BY <1>1, LeaseInvariant, PTL DEF Spec, SettledForGood, SettledStep

(* The result of an attempt is final in every execution.                    *)
THEOREM ResultsStay == Spec => AttemptsWriteOnce
<1>1. IInv /\ [Next]_vars => [WriteOnceStep]_vars
  BY StepSettles
<1> QED BY <1>1, LeaseInvariant, PTL DEF Spec, AttemptsWriteOnce, WriteOnceStep

-----------------------------------------------------------------------------
(* The failure budget, and the queue the leases implement.                  *)

(* Failures are left exactly to the tasks that are not dead.  IInv does not *)
(* say so, and without it `failures >= max_attempts` of fail_task is not    *)
(* the equality of the queue.                                               *)
BudgetExact ==
  \A t \in Task : IF task[t].status = "dead_letter"
                  THEN task[t].failure_count = MaxAttempts
                  ELSE task[t].failure_count < MaxAttempts

LEMMA BudgetInit == Init => BudgetExact
BY Constants DEF Init, NewRow, BudgetExact

(* Only fail_task counts a failure, and it kills the task with the last.    *)
LEMMA BudgetStep ==
  ASSUME IInv, BudgetExact, [Next]_vars
  PROVE  BudgetExact'
<1> USE Constants
<1>1. task \in [Task -> TaskRow]
  BY DEF IInv, TypeOK
<1>2. ASSUME NEW w \in Worker, NEW t \in Task, claim_task(w, t) PROVE BudgetExact'
  BY <1>1, <1>2 DEF claim_task, Claimable, Claimed, BudgetExact, TaskRow
<1>3. ASSUME NEW w \in Worker, NEW t \in Task, NEW A, complete_task(w, t, A)
      PROVE  BudgetExact'
  BY <1>1, <1>3 DEF complete_task, Owns, Fenced, Released, BudgetExact, TaskRow
<1>4. ASSUME NEW w \in Worker, NEW t \in Task, fail_task(w, t) PROVE BudgetExact'
  BY <1>1, <1>4 DEF fail_task, Owns, Fenced, Released, BudgetExact, TaskRow
<1>5. ASSUME NEW w \in Worker, NEW t \in Task, defer_task(w, t) PROVE BudgetExact'
  BY <1>1, <1>5 DEF defer_task, Owns, Fenced, Released, BudgetExact, TaskRow
<1>6. ASSUME NEW w \in Worker, NEW t \in Task, renew_task_lease(w, t) PROVE BudgetExact'
  BY <1>1, <1>6 DEF renew_task_lease, BudgetExact, TaskRow
<1>7. ASSUME NEW w \in Worker, NEW t \in Task, stale_settle(w, t) PROVE BudgetExact'
  BY <1>7 DEF stale_settle, BudgetExact
<1>8. ASSUME NEW w \in Worker, worker_crash(w) PROVE BudgetExact'
  BY <1>8 DEF worker_crash, BudgetExact
<1>9. ASSUME NEW t \in Task, enqueue_due_retries(t) \/ activate_task(t) PROVE BudgetExact'
  BY <1>1, <1>9 DEF enqueue_due_retries, activate_task, Released, BudgetExact, TaskRow
<1>10. ASSUME NEW t \in Task, cancel_root_task(t) PROVE BudgetExact'
  BY <1>1, <1>10 DEF cancel_root_task, BudgetExact, TaskRow
<1>11. ASSUME NEW t \in Task, lease_passes(t) PROVE BudgetExact'
  BY <1>1, <1>11 DEF lease_passes, BudgetExact, TaskRow
<1>12. ASSUME NEW t \in Task, retry_passes(t) PROVE BudgetExact'
  BY <1>1, <1>12 DEF retry_passes, BudgetExact, TaskRow
<1>13. CASE UNCHANGED vars
  BY <1>13 DEF vars, BudgetExact
<1> QED BY <1>2, <1>3, <1>4, <1>5, <1>6, <1>7, <1>8, <1>9, <1>10, <1>11, <1>12, <1>13
        DEF Next
-----------------------------------------------------------------------------
(* The counters of a row against its attempts.                              *)
Results(a, S) == {n \in 1..MaxClaims : a[n] \in S}
Failures == {"failed", "dead_letter"}
Deferrals == {"deferred"}

TallyExact ==
  \A t \in Task : /\ task[t].failure_count = Cardinality(Results(attempt[t], Failures))
                  /\ task[t].defer_count = Cardinality(Results(attempt[t], Deferrals))

(* One attempt gets a result.                                               *)
LEMMA ResultsCount ==
  ASSUME NEW a, NEW b, NEW S, NEW k \in 1..MaxClaims,
         \A n \in 1..MaxClaims \ {k} : b[n] = a[n], a[k] \notin S
  PROVE  /\ Cardinality(Results(a, S)) \in Nat
         /\ Cardinality(Results(b, S)) =
              IF b[k] \in S THEN Cardinality(Results(a, S)) + 1 ELSE Cardinality(Results(a, S))
<1>1. IsFiniteSet(Results(a, S))
  <2>1. IsFiniteSet(1..MaxClaims)
    BY Constants, FS_Interval
  <2> QED BY <2>1, FS_Subset DEF Results
<1>2. Cardinality(Results(a, S)) \in Nat
  BY <1>1, FS_CardinalityType
<1>3. k \notin Results(a, S)
  BY DEF Results
<1>4. Results(b, S) = IF b[k] \in S THEN Results(a, S) \cup {k} ELSE Results(a, S)
  BY DEF Results
<1>5. Cardinality(Results(a, S) \cup {k}) = Cardinality(Results(a, S)) + 1
  BY <1>1, <1>3, FS_AddElement
<1> QED BY <1>2, <1>4, <1>5

LEMMA TallyInit == Init => TallyExact
<1> SUFFICES ASSUME Init, NEW t \in Task
             PROVE  /\ task[t].failure_count = Cardinality(Results(attempt[t], Failures))
                    /\ task[t].defer_count = Cardinality(Results(attempt[t], Deferrals))
  BY DEF TallyExact
<1>1. task[t].failure_count = 0 /\ task[t].defer_count = 0
  BY DEF Init, NewRow
<1>2. Results(attempt[t], Failures) = {} /\ Results(attempt[t], Deferrals) = {}
  BY DEF Init, Results, Failures, Deferrals
<1> QED BY <1>1, <1>2, FS_EmptySet

(* A task whose counters stay and whose changed attempts are no results.    *)
LEMMA TallyQuiet ==
  ASSUME TallyExact,
         \A t \in Task :
           /\ task'[t].failure_count = task[t].failure_count
           /\ task'[t].defer_count = task[t].defer_count
           /\ \A n \in 1..MaxClaims :
                \/ attempt'[t][n] = attempt[t][n]
                \/ /\ attempt[t][n] \notin Failures \cup Deferrals
                   /\ attempt'[t][n] \notin Failures \cup Deferrals
  PROVE  TallyExact'
<1>1. \A t \in Task : /\ Results(attempt'[t], Failures) = Results(attempt[t], Failures)
                      /\ Results(attempt'[t], Deferrals) = Results(attempt[t], Deferrals)
  BY DEF Results
<1> QED BY <1>1 DEF TallyExact

(* The owner of t writes the result s of its attempt.                       *)
LEMMA TallyClose ==
  ASSUME IInv, TallyExact, NEW w \in Worker, NEW t \in Task, Owns(w, t),
         NEW s \in AttemptStatus, attempt' = Close(t, s),
         \A a \in Task \ {t} : /\ task'[a].failure_count = task[a].failure_count
                              /\ task'[a].defer_count = task[a].defer_count,
         task'[t].failure_count = IF s \in Failures THEN task[t].failure_count + 1
                                                   ELSE task[t].failure_count,
         task'[t].defer_count = IF s \in Deferrals THEN task[t].defer_count + 1
                                                  ELSE task[t].defer_count
  PROVE  TallyExact'
<1> DEFINE k == task[t].attempt_count
<1>1. TypeOK /\ AttemptLedger /\ task[t].status = "running"
  BY DEF IInv, Owns, Fenced
<1>2. k \in 1..MaxClaims
  BY <1>1, Constants DEF AttemptLedger, TypeOK, TaskRow
<1>3. attempt[t][k] = "running"
  BY <1>1, <1>2 DEF AttemptLedger
<1>4. /\ \A a \in Task \ {t} : attempt'[a] = attempt[a]
      /\ \A n \in 1..MaxClaims : attempt'[t][n] = IF n = k THEN s ELSE attempt[t][n]
  BY <1>1, CloseType
<1> HIDE DEF k
<1>5. ASSUME NEW S \in {Failures, Deferrals}
      PROVE  Cardinality(Results(attempt'[t], S)) =
               IF s \in S THEN Cardinality(Results(attempt[t], S)) + 1
                          ELSE Cardinality(Results(attempt[t], S))
  <2>1. /\ \A n \in 1..MaxClaims \ {k} : attempt'[t][n] = attempt[t][n]
        /\ attempt[t][k] \notin S /\ attempt'[t][k] = s
    BY <1>2, <1>3, <1>4 DEF Failures, Deferrals
  <2> DEFINE a == attempt[t]
             b == attempt'[t]
  <2>2. /\ \A n \in 1..MaxClaims \ {k} : b[n] = a[n]
        /\ a[k] \notin S /\ b[k] = s
    BY <2>1
  <2> HIDE DEF a, b
  <2>3. Cardinality(Results(b, S)) =
          IF b[k] \in S THEN Cardinality(Results(a, S)) + 1 ELSE Cardinality(Results(a, S))
    BY <1>2, <2>2, ResultsCount
  <2> QED BY <2>2, <2>3 DEF a, b
<1>6. /\ task'[t].failure_count = Cardinality(Results(attempt'[t], Failures))
      /\ task'[t].defer_count = Cardinality(Results(attempt'[t], Deferrals))
  BY <1>5 DEF TallyExact
<1>7. ASSUME NEW a \in Task, a # t
      PROVE  /\ task'[a].failure_count = Cardinality(Results(attempt'[a], Failures))
             /\ task'[a].defer_count = Cardinality(Results(attempt'[a], Deferrals))
  BY <1>4, <1>7 DEF TallyExact
<1> QED BY <1>6, <1>7 DEF TallyExact

LEMMA TallyStep ==
  ASSUME IInv, TallyExact, [Next]_vars
  PROVE  TallyExact'
<1>1. /\ task \in [Task -> TaskRow] /\ AttemptLedger
      /\ attempt \in [Task -> [1..MaxClaims -> AttemptStatus]]
  BY DEF IInv, TypeOK
<1>2. ASSUME NEW w \in Worker, NEW t \in Task, claim_task(w, t) PROVE TallyExact'
  <2>1. ASSUME NEW a \in Task
        PROVE  /\ task'[a].failure_count = task[a].failure_count
               /\ task'[a].defer_count = task[a].defer_count
    BY <1>1, <1>2 DEF claim_task, Claimed
  <2>2. ASSUME NEW a \in Task, NEW n \in 1..MaxClaims
        PROVE  \/ attempt'[a][n] = attempt[a][n]
               \/ /\ attempt[a][n] \in {"none", "running"}
                  /\ attempt'[a][n] \in {"running", "lease_expired"}
    <3>1. CASE a # t
      BY <1>1, <1>2, <3>1 DEF claim_task
    <3>2. CASE a = t
      <4>1. task[t].attempt_count \in Nat
        BY <1>1 DEF TaskRow
      <4>2. n = task[t].attempt_count + 1 => attempt[t][n] = "none"
        BY <1>1, <4>1 DEF AttemptLedger
      <4>3. attempt'[t][n] = IF n = task[t].attempt_count + 1 THEN "running"
                ELSE IF n = task[t].attempt_count /\ task[t].status = "running"
                          /\ attempt[t][n] = "running"
                     THEN "lease_expired"
                     ELSE attempt[t][n]
        BY <1>1, <1>2 DEF claim_task
      <4> QED BY <3>2, <4>2, <4>3
    <3> QED BY <3>1, <3>2
  <2>3. ASSUME NEW a \in Task, NEW n \in 1..MaxClaims
        PROVE  \/ attempt'[a][n] = attempt[a][n]
               \/ /\ attempt[a][n] \notin Failures \cup Deferrals
                  /\ attempt'[a][n] \notin Failures \cup Deferrals
    BY <2>2 DEF Failures, Deferrals
  <2> QED BY <2>1, <2>3, TallyQuiet
<1>3. ASSUME NEW w \in Worker, NEW t \in Task, NEW A, complete_task(w, t, A)
      PROVE  TallyExact'
  <2>1. Owns(w, t) /\ attempt' = Close(t, "completed") /\ "completed" \in AttemptStatus
    BY <1>3 DEF complete_task, AttemptStatus
  <2>2. \A a \in Task : /\ task'[a].failure_count = task[a].failure_count
                        /\ task'[a].defer_count = task[a].defer_count
    BY <1>3 DEF complete_task, Released
  <2>3. "completed" \notin Failures /\ "completed" \notin Deferrals
    BY DEF Failures, Deferrals
  <2> QED BY <2>1, <2>2, <2>3, TallyClose
<1>4. ASSUME NEW w \in Worker, NEW t \in Task, fail_task(w, t) PROVE TallyExact'
  <2>1. PICK s \in {"failed", "dead_letter"} : attempt' = Close(t, s)
    BY <1>4 DEF fail_task
  <2>2. Owns(w, t) /\ s \in AttemptStatus /\ s \in Failures /\ s \notin Deferrals
    BY <1>4 DEF fail_task, AttemptStatus, Failures, Deferrals
  <2>3. /\ task'[t].failure_count = task[t].failure_count + 1
        /\ task'[t].defer_count = task[t].defer_count
    BY <1>4 DEF fail_task, Released
  <2>4. \A a \in Task \ {t} : /\ task'[a].failure_count = task[a].failure_count
                              /\ task'[a].defer_count = task[a].defer_count
    BY <1>1, <1>4 DEF fail_task, TaskRow
  <2> QED BY <2>1, <2>2, <2>3, <2>4, TallyClose
<1>5. ASSUME NEW w \in Worker, NEW t \in Task, defer_task(w, t) PROVE TallyExact'
  <2>1. Owns(w, t) /\ attempt' = Close(t, "deferred") /\ "deferred" \in AttemptStatus
    BY <1>5 DEF defer_task, AttemptStatus
  <2>2. "deferred" \notin Failures /\ "deferred" \in Deferrals
    BY DEF Failures, Deferrals
  <2>3. /\ task'[t].failure_count = task[t].failure_count
        /\ task'[t].defer_count = task[t].defer_count + 1
    BY <1>1, <1>5 DEF defer_task, Released
  <2>4. \A a \in Task \ {t} : /\ task'[a].failure_count = task[a].failure_count
                              /\ task'[a].defer_count = task[a].defer_count
    BY <1>1, <1>5 DEF defer_task
  <2> QED BY <2>1, <2>2, <2>3, <2>4, TallyClose
<1>6. ASSUME attempt' = attempt,
             \A a \in Task : /\ task'[a].failure_count = task[a].failure_count
                             /\ task'[a].defer_count = task[a].defer_count
      PROVE  TallyExact'
  BY <1>6, TallyQuiet
<1>7. ASSUME NEW w \in Worker, worker_crash(w) \/ \E t \in Task : stale_settle(w, t)
      PROVE  TallyExact'
  BY <1>6, <1>7 DEF worker_crash, stale_settle
<1>8. ASSUME NEW t \in Task,
             \/ \E w \in Worker : renew_task_lease(w, t)
             \/ lease_passes(t) \/ retry_passes(t) \/ cancel_root_task(t)
      PROVE  TallyExact'
  <2>1. attempt' = attempt
    BY <1>8 DEF renew_task_lease, lease_passes, retry_passes, cancel_root_task
  <2>2. \A a \in Task : /\ task'[a].failure_count = task[a].failure_count
                        /\ task'[a].defer_count = task[a].defer_count
    <3>1. \/ \E i \in Instant : \/ task' = [task EXCEPT ![t].lease_expires_at = i]
                              \/ task' = [task EXCEPT ![t].next_retry_at = i]
          \/ task' = [task EXCEPT ![t].status = "cancelled"]
      BY <1>8 DEF renew_task_lease, lease_passes, retry_passes, cancel_root_task, Instant
    <3>2. ASSUME NEW i \in Instant, task' = [task EXCEPT ![t].lease_expires_at = i]
          PROVE  \A a \in Task : /\ task'[a].failure_count = task[a].failure_count
                                 /\ task'[a].defer_count = task[a].defer_count
      BY <1>1, <3>2 DEF TaskRow
    <3>3. ASSUME NEW i \in Instant, task' = [task EXCEPT ![t].next_retry_at = i]
          PROVE  \A a \in Task : /\ task'[a].failure_count = task[a].failure_count
                                 /\ task'[a].defer_count = task[a].defer_count
      BY <1>1, <3>3 DEF TaskRow
    <3>4. ASSUME task' = [task EXCEPT ![t].status = "cancelled"]
          PROVE  \A a \in Task : /\ task'[a].failure_count = task[a].failure_count
                                 /\ task'[a].defer_count = task[a].defer_count
      BY <1>1, <3>4 DEF TaskRow
    <3> QED BY <3>1, <3>2, <3>3, <3>4
  <2> QED BY <1>6, <2>1, <2>2
<1>9. ASSUME NEW t \in Task, enqueue_due_retries(t) \/ activate_task(t) PROVE TallyExact'
  <2>1. \A a \in Task : /\ task'[a].failure_count = task[a].failure_count
                        /\ task'[a].defer_count = task[a].defer_count
    BY <1>1, <1>9 DEF enqueue_due_retries, activate_task, Released
  <2> QED BY <1>6, <1>9, <2>1 DEF enqueue_due_retries, activate_task
<1>10. CASE UNCHANGED vars
  BY <1>6, <1>10 DEF vars
<1> QED BY <1>2, <1>3, <1>4, <1>5, <1>7, <1>8, <1>9, <1>10 DEF Next

(* Only handlers that failed use up the budget of a task, a lease that ran  *)
(* out and a RetryLater do not, and the task is dead-lettered by the        *)
(* failure that uses up the last of it.                                     *)
THEOREM BudgetKept == Spec => []FailureBudget
<1>1. ASSUME IInv, BudgetExact, TallyExact PROVE FailureBudget
  <2> SUFFICES ASSUME NEW t \in Task
               PROVE  /\ task[t].failure_count = Tally(t, {"failed", "dead_letter"})
                      /\ task[t].defer_count = Tally(t, {"deferred"})
                      /\ task[t].failure_count <= MaxAttempts
                      /\ task[t].status = "dead_letter" <=> task[t].failure_count = MaxAttempts
    BY DEF FailureBudget
  <2>1. task[t].failure_count \in Nat
    BY <1>1 DEF IInv, TypeOK, TaskRow
  <2>2. /\ task[t].failure_count <= MaxAttempts
        /\ task[t].status = "dead_letter" <=> task[t].failure_count = MaxAttempts
    BY <1>1, <2>1, Constants DEF BudgetExact
  <2>3. /\ task[t].failure_count = Tally(t, {"failed", "dead_letter"})
        /\ task[t].defer_count = Tally(t, {"deferred"})
    BY <1>1 DEF TallyExact, Tally, Results, Failures, Deferrals
  <2> QED BY <2>2, <2>3
<1>2. Init => BudgetExact /\ TallyExact
  BY BudgetInit, TallyInit
<1>3. IInv /\ BudgetExact /\ TallyExact /\ [Next]_vars => BudgetExact' /\ TallyExact'
  BY BudgetStep, TallyStep
<1> QED BY <1>1, <1>2, <1>3, LeaseInvariant, PTL DEF Spec
-----------------------------------------------------------------------------
(* What the queue sees of a row that keeps its claim.                       *)
LEMMA SameView ==
  ASSUME NEW t \in Task, held' = held,
         task'[t].status = task[t].status,
         task'[t].lease_token = task[t].lease_token,
         task'[t].claim_version = task[t].claim_version,
         task'[t].failure_count = task[t].failure_count
  PROVE  /\ QueueState'[t] = QueueState[t]
         /\ QueueOwner'[t] = QueueOwner[t]
         /\ QueueFailures'[t] = QueueFailures[t]
BY DEF QueueState, QueueOwner, QueueFailures, Fenced

(* A row that is not running has no owner.                                  *)
LEMMA NoOwner ==
  /\ \A t \in Task : task[t].status # "running" => QueueOwner[t] = {}
  /\ \A t \in Task : task'[t].status # "running" => QueueOwner'[t] = {}
BY DEF QueueOwner, Fenced

(* The row of a task other than the one w settles keeps its owner.          *)
LEMMA OtherOwner ==
  ASSUME TypeOK, NEW w \in Worker, NEW t \in Task, held[w] # NoLease => held[w].task = t,
         Drop(w), NEW a \in Task \ {t}, task'[a] = task[a]
  PROVE  QueueOwner'[a] = QueueOwner[a]
BY DEF TypeOK, Drop, QueueOwner, Fenced

LEMMA InitQueue == Init => Queue!Init
BY DEF Init, NewRow, Queue!Init, QueueState, QueueOwner, QueueFailures, Fenced

LEMMA ClaimQueue ==
  ASSUME IInv, NEW w \in Worker, NEW t \in Task, claim_task(w, t)
  PROVE  Queue!Claim(w, t)
<1> DEFINE new == Claimed(task[t], task[t].attempt_count + 1, lastToken + 1,
                          task[t].claim_version + 1)
           lease == [task |-> t, lease_token |-> lastToken + 1,
                     claim_version |-> task[t].claim_version + 1]
<1>1. TypeOK /\ TokensInUse
  BY DEF IInv
<1>2. /\ task' = [task EXCEPT ![t] = new]
      /\ held' = [held EXCEPT ![w] = lease]
      /\ held[w] = NoLease
      /\ Claimable(t)
  BY DEF claim_task
<1>3. /\ new.status = "running"
      /\ new.failure_count = task[t].failure_count
      /\ new.lease_token = lastToken + 1
      /\ new.claim_version = task[t].claim_version + 1
  BY DEF Claimed
<1>4. lease \in Lease
  BY <1>1 DEF TypeOK, TaskRow, Lease
<1> HIDE DEF new
<1>5. QueueState[t] \in {"open", "executing"}
  BY <1>1, <1>2 DEF TypeOK, TaskRow, Status, Claimable, QueueState
<1>6. \A u \in Task : w \notin QueueOwner[u]
  BY <1>2 DEF QueueOwner, Fenced
<1>7. QueueState' = [QueueState EXCEPT ![t] = "executing"]
  BY <1>1, <1>2, <1>3 DEF TypeOK, QueueState
<1>8. QueueOwner' = [QueueOwner EXCEPT ![t] = {w}]
  <2>1. ASSUME NEW a \in Task, a # t PROVE QueueOwner'[a] = QueueOwner[a]
    BY <1>1, <1>2, <2>1 DEF TypeOK, QueueOwner, Fenced
  <2>2. ASSUME NEW v \in Worker, v # w PROVE ~Fenced(v, t)'
    BY <1>1, <1>2, <1>3, <2>2 DEF TypeOK, TokensInUse, Lease, Fenced
  <2>3. Fenced(w, t)'
    BY <1>1, <1>2, <1>3, <1>4, Constants DEF TypeOK, Fenced
  <2>4. QueueOwner'[t] = {w}
    BY <2>2, <2>3 DEF QueueOwner
  <2> QED BY <2>1, <2>4 DEF QueueOwner
<1>9. QueueFailures' = QueueFailures
  BY <1>1, <1>2, <1>3 DEF TypeOK, QueueFailures
<1> QED BY <1>5, <1>6, <1>7, <1>8, <1>9 DEF Queue!Claim

(* A worker whose result counts is the one owner of the queue, and no owner *)
(* any more after it.                                                       *)
LEMMA ResultQueue ==
  ASSUME IInv, NEW w \in Worker, NEW t \in Task, Owns(w, t), Drop(w),
         task'[t].status # "running",
         \A a \in Task \ {t} : \/ task'[a] = task[a]
                               \/ task[a].status # "running" /\ task'[a].status # "running"
  PROVE  QueueOwner[t] = {w} /\ QueueOwner' = [QueueOwner EXCEPT ![t] = {}]
<1>1. TypeOK /\ TokensInUse
  BY DEF IInv
<1>2. QueueOwner[t] = {w}
  BY <1>1 DEF TypeOK, TokensInUse, Lease, QueueOwner, Owns, Fenced
<1>3. QueueOwner'[t] = {}
  BY NoOwner
<1>4. ASSUME NEW a \in Task, a # t PROVE QueueOwner'[a] = QueueOwner[a]
  <2>1. CASE task'[a] = task[a]
    BY <1>1, <1>4, <2>1, OtherOwner DEF Owns, Fenced
  <2>2. CASE task[a].status # "running" /\ task'[a].status # "running"
    BY <2>2, NoOwner
  <2> QED BY <1>4, <2>1, <2>2
<1>5. QueueOwner' = [QueueOwner EXCEPT ![t] = {}]
  BY <1>3, <1>4 DEF QueueOwner
<1> QED BY <1>2, <1>5

LEMMA CompleteQueue ==
  ASSUME IInv, NEW w \in Worker, NEW t \in Task, NEW A, complete_task(w, t, A)
  PROVE  Queue!Complete(w, t)
<1>1. TypeOK
  BY DEF IInv
<1>2. /\ Owns(w, t) /\ Drop(w)
      /\ A \subseteq {a \in Task \ {t} : task[a].status = "blocked"}
      /\ task' = [a \in Task |->
                    IF a = t THEN Released(task[t], "completed", "null")
                    ELSE IF a \in A THEN Released(task[a], "queued", "null")
                    ELSE task[a]]
  BY DEF complete_task
<1>3. \A a \in Task : \A s, r :
        LET row == Released(task[a], s, r)
        IN row.status = s /\ row.failure_count = task[a].failure_count
  BY DEF Released
<1>4. Queue!Result(w, t)
  <2>1. /\ task'[t].status # "running"
        /\ \A a \in Task \ {t} : \/ task'[a] = task[a]
                                 \/ task[a].status # "running" /\ task'[a].status # "running"
    BY <1>2, <1>3
  <2> QED BY <1>2, <2>1, ResultQueue DEF Queue!Result
<1>5. QueueFailures' = QueueFailures
  BY <1>2, <1>3 DEF QueueFailures
<1>6. A \in SUBSET Queue!Waiting
  BY <1>2 DEF Queue!Waiting, QueueState
<1>7. QueueState' = [u \in Task |-> IF u = t THEN "completed"
                                   ELSE IF u \in A THEN "open" ELSE QueueState[u]]
  BY <1>2, <1>3 DEF QueueState
<1> QED BY <1>4, <1>5, <1>6, <1>7 DEF Queue!Complete

LEMMA FailQueue ==
  ASSUME IInv, BudgetExact, NEW w \in Worker, NEW t \in Task, fail_task(w, t)
  PROVE  Queue!Fail(w, t)
<1> DEFINE failures == task[t].failure_count + 1
           exhausted == failures >= MaxAttempts
           failed == [Released(task[t], IF exhausted THEN "dead_letter" ELSE "retry",
                               IF exhausted THEN "null" ELSE "future")
                        EXCEPT !.failure_count = failures]
           dependents == {d \in Task : Parent[d] = t /\ task[d].status = "blocked"}
           cancelled == IF exhausted THEN dependents ELSE {}
<1>1. TypeOK
  BY DEF IInv
<1>2. /\ Owns(w, t) /\ Drop(w)
      /\ task' = [a \in Task |->
                    IF a = t THEN failed
                    ELSE IF exhausted /\ a \in dependents
                         THEN [task[a] EXCEPT !.status = "cancelled"]
                    ELSE task[a]]
  BY DEF fail_task
<1>3. /\ failed.status = IF exhausted THEN "dead_letter" ELSE "retry"
      /\ failed.failure_count = failures
  BY DEF Released
<1>4. task[t].status = "running" /\ QueueFailures[t] = task[t].failure_count
  BY <1>2 DEF Owns, Fenced, QueueFailures
<1>5. exhausted <=> QueueFailures[t] + 1 = MaxAttempts
  <2>1. task[t].failure_count \in Nat /\ task[t].failure_count < MaxAttempts
    BY <1>1, <1>4 DEF BudgetExact, TypeOK, TaskRow
  <2> QED BY <1>4, <2>1, Constants
<1>6. ASSUME NEW a \in Task
      PROVE  LET row == [task[a] EXCEPT !.status = "cancelled"]
             IN row.status = "cancelled" /\ row.failure_count = task[a].failure_count
  BY <1>1 DEF TypeOK, TaskRow
<1> HIDE DEF failed, exhausted, failures
<1>7. Queue!Result(w, t)
  <2>1. /\ task'[t].status # "running"
        /\ \A a \in Task \ {t} : \/ task'[a] = task[a]
                                 \/ task[a].status # "running" /\ task'[a].status # "running"
    BY <1>2, <1>3, <1>6
  <2> QED BY <1>2, <2>1, ResultQueue DEF Queue!Result
<1>8. QueueFailures' = [QueueFailures EXCEPT ![t] = @ + 1]
  BY <1>2, <1>3, <1>4, <1>6 DEF QueueFailures, failures
<1>9. cancelled \in SUBSET Queue!Waiting
  BY DEF Queue!Waiting, QueueState
<1>10. QueueState' = [u \in Task |->
          IF u = t THEN (IF exhausted THEN "dead_letter" ELSE "open")
          ELSE IF u \in cancelled THEN "cancelled" ELSE QueueState[u]]
  BY <1>2, <1>3, <1>4, <1>6 DEF QueueState
<1>11. cancelled # {} => exhausted
  OBVIOUS
<1> HIDE DEF cancelled
<1> QED BY <1>5, <1>7, <1>8, <1>9, <1>10, <1>11 DEF Queue!Fail

LEMMA DeferQueue ==
  ASSUME IInv, NEW w \in Worker, NEW t \in Task, defer_task(w, t)
  PROVE  Queue!Defer(w, t)
<1> DEFINE deferred == [Released(task[t], "retry", "future")
                          EXCEPT !.defer_count = task[t].defer_count + 1]
<1>1. TypeOK
  BY DEF IInv
<1>2. Owns(w, t) /\ Drop(w) /\ task' = [task EXCEPT ![t] = deferred]
  BY DEF defer_task
<1>3. deferred.status = "retry" /\ deferred.failure_count = task[t].failure_count
  BY DEF Released
<1> HIDE DEF deferred
<1>4. task'[t] = deferred /\ \A a \in Task \ {t} : task'[a] = task[a]
  BY <1>1, <1>2 DEF TypeOK
<1>5. Queue!Result(w, t)
  <2>1. /\ task'[t].status # "running"
        /\ \A a \in Task \ {t} : \/ task'[a] = task[a]
                                 \/ task[a].status # "running" /\ task'[a].status # "running"
    BY <1>3, <1>4
  <2> QED BY <1>2, <2>1, ResultQueue DEF Queue!Result
<1>6. QueueState' = [QueueState EXCEPT ![t] = "open"]
  BY <1>3, <1>4 DEF QueueState
<1>7. QueueFailures' = QueueFailures
  BY <1>3, <1>4 DEF QueueFailures
<1> QED BY <1>5, <1>6, <1>7 DEF Queue!Defer

(* A worker that forgets its claim is lost to the queue.                    *)
LEMMA LoseQueue ==
  ASSUME IInv, NEW w \in Worker, Drop(w), task' = task
  PROVE  Queue!Lose(w)
<1>1. TypeOK
  BY DEF IInv
<1>2. QueueState' = QueueState /\ QueueFailures' = QueueFailures
  BY DEF QueueState, QueueFailures
<1>3. ASSUME NEW t \in Task PROVE QueueOwner'[t] = QueueOwner[t] \ {w}
  BY <1>1 DEF TypeOK, Drop, QueueOwner, Fenced
<1>4. QueueOwner' = [t \in Task |-> QueueOwner[t] \ {w}]
  BY <1>3 DEF QueueOwner
<1> QED BY <1>2, <1>4 DEF Queue!Lose

(* An activation and a cancellation are those of the queue.                 *)
LEMMA OpenQueue ==
  ASSUME IInv, NEW t \in Task
  PROVE  /\ activate_task(t) => Queue!Activate(t)
         /\ cancel_root_task(t) => Queue!Cancel(t)
<1>1. task \in [Task -> TaskRow]
  BY DEF IInv, TypeOK
<1>2. ASSUME NEW row, task' = [task EXCEPT ![t] = row], held' = held,
             task[t].status # "running", row.status # "running",
             row.failure_count = task[t].failure_count
      PROVE  QueueOwner' = QueueOwner /\ QueueFailures' = QueueFailures
  <2>1. task'[t] = row /\ \A a \in Task \ {t} : task'[a] = task[a]
    BY <1>1, <1>2
  <2>2. \A a \in Task : QueueOwner'[a] = QueueOwner[a] /\ QueueFailures'[a] = QueueFailures[a]
    BY <1>2, <2>1, SameView, NoOwner DEF QueueFailures
  <2> QED BY <2>2 DEF QueueOwner, QueueFailures
<1>3. ASSUME activate_task(t) PROVE Queue!Activate(t)
  <2> DEFINE row == Released(task[t], "queued", "null")
  <2>1. row.status = "queued" /\ row.failure_count = task[t].failure_count
    BY DEF Released
  <2> HIDE DEF row
  <2>2. task' = [task EXCEPT ![t] = row] /\ held' = held /\ task[t].status = "blocked"
    BY <1>3 DEF activate_task, row
  <2>3. QueueOwner' = QueueOwner /\ QueueFailures' = QueueFailures
    BY <1>2, <2>1, <2>2
  <2>4. QueueState' = [QueueState EXCEPT ![t] = "open"] /\ QueueState[t] = "blocked"
    BY <1>1, <2>1, <2>2 DEF QueueState
  <2> QED BY <2>3, <2>4 DEF Queue!Activate
<1>4. ASSUME cancel_root_task(t) PROVE Queue!Cancel(t)
  <2> DEFINE row == [task[t] EXCEPT !.status = "cancelled"]
  <2>1. row.status = "cancelled" /\ row.failure_count = task[t].failure_count
    BY <1>1 DEF TaskRow
  <2> HIDE DEF row
  <2>2. /\ task' = [task EXCEPT ![t] = row] /\ held' = held
        /\ task[t].status \in {"blocked", "queued", "retry"}
    BY <1>4 DEF cancel_root_task, row
  <2>3. QueueOwner' = QueueOwner /\ QueueFailures' = QueueFailures
    BY <1>2, <2>1, <2>2
  <2>4. /\ QueueState' = [QueueState EXCEPT ![t] = "cancelled"]
        /\ QueueState[t] \in {"blocked", "open"}
    BY <1>1, <2>1, <2>2 DEF QueueState
  <2> QED BY <2>3, <2>4 DEF Queue!Cancel
<1> QED BY <1>3, <1>4

(* A renewal, an instant that passes and a sweep of due retries are         *)
(* invisible in the queue.                                                  *)
LEMMA Invisible ==
  ASSUME IInv, NEW t \in Task,
         \/ \E w \in Worker : renew_task_lease(w, t)
         \/ enqueue_due_retries(t) \/ lease_passes(t) \/ retry_passes(t)
  PROVE  UNCHANGED Queue!vars
<1>1. task \in [Task -> TaskRow]
  BY DEF IInv, TypeOK
<1>2. ASSUME \A a \in Task : /\ QueueState'[a] = QueueState[a]
                            /\ QueueOwner'[a] = QueueOwner[a]
                            /\ QueueFailures'[a] = QueueFailures[a]
      PROVE  UNCHANGED Queue!vars
  BY <1>2 DEF Queue!vars, QueueState, QueueOwner, QueueFailures
<1>3. CASE enqueue_due_retries(t)
  <2> DEFINE row == Released(task[t], "queued", "null")
  <2>1. row.status = "queued" /\ row.failure_count = task[t].failure_count
    BY DEF Released
  <2> HIDE DEF row
  <2>2. /\ task'[t] = row /\ held' = held /\ task[t].status = "retry"
        /\ \A a \in Task \ {t} : task'[a] = task[a]
    BY <1>1, <1>3 DEF enqueue_due_retries, row
  <2>3. /\ QueueState'[t] = QueueState[t]
        /\ QueueOwner'[t] = QueueOwner[t]
        /\ QueueFailures'[t] = QueueFailures[t]
    BY <2>1, <2>2, NoOwner DEF QueueState, QueueFailures
  <2> QED BY <1>2, <2>2, <2>3, SameView
<1>4. CASE \/ \E w \in Worker : renew_task_lease(w, t)
           \/ lease_passes(t) \/ retry_passes(t)
  <2>1. PICK when \in Instant : \/ task' = [task EXCEPT ![t].lease_expires_at = when]
                               \/ task' = [task EXCEPT ![t].next_retry_at = when]
    BY <1>4 DEF renew_task_lease, lease_passes, retry_passes, Instant
  <2>2. held' = held
    BY <1>4 DEF renew_task_lease, lease_passes, retry_passes
  <2>3. ASSUME NEW a \in Task
        PROVE  /\ task'[a].status = task[a].status
               /\ task'[a].lease_token = task[a].lease_token
               /\ task'[a].claim_version = task[a].claim_version
               /\ task'[a].failure_count = task[a].failure_count
    BY <1>1, <2>1 DEF TaskRow
  <2> QED BY <1>2, <2>2, <2>3, SameView
<1> QED BY <1>3, <1>4

(* Every step of the tables is a step of the queue, or invisible in it.     *)
LEMMA StepQueue ==
  ASSUME IInv, BudgetExact, [Next]_vars
  PROVE  [Queue!Next]_(Queue!vars)
<1>1. ASSUME NEW w \in Worker, NEW t \in Task, claim_task(w, t)
      PROVE  Queue!Next
  BY <1>1, ClaimQueue DEF Queue!Next
<1>2. ASSUME NEW w \in Worker, NEW t \in Task, NEW A, complete_task(w, t, A)
      PROVE  Queue!Next
  BY <1>2, CompleteQueue DEF Queue!Next
<1>3. ASSUME NEW w \in Worker, NEW t \in Task, fail_task(w, t)
      PROVE  Queue!Next
  BY <1>3, FailQueue DEF Queue!Next
<1>4. ASSUME NEW w \in Worker, NEW t \in Task, defer_task(w, t)
      PROVE  Queue!Next
  BY <1>4, DeferQueue DEF Queue!Next
<1>5. ASSUME NEW w \in Worker, worker_crash(w) \/ \E t \in Task : stale_settle(w, t)
      PROVE  Queue!Next
  BY <1>5, LoseQueue DEF Queue!Next, worker_crash, stale_settle
<1>6. ASSUME NEW t \in Task, activate_task(t) \/ cancel_root_task(t)
      PROVE  Queue!Next
  BY <1>6, OpenQueue DEF Queue!Next
<1>7. CASE UNCHANGED vars
  BY <1>7 DEF vars, Queue!vars, QueueState, QueueOwner, QueueFailures, Fenced
<1> QED BY <1>1, <1>2, <1>3, <1>4, <1>5, <1>6, <1>7, Invisible DEF Next

(* The rows, leases and tokens of tasks.py implement the queue: whatever    *)
(* workers, sweeps, clocks and crashes do, a client of the queue sees a     *)
(* task taken by one owner at a time and settled once, by its owner.        *)
THEOREM LeaseImplementsQueue == Spec => ImplementsQueue
<1>1. Init => BudgetExact /\ Queue!Init
  BY BudgetInit, InitQueue
<1>2. IInv /\ BudgetExact /\ [Next]_vars => BudgetExact'
  BY BudgetStep
<1>3. IInv /\ BudgetExact /\ [Next]_vars => [Queue!Next]_(Queue!vars)
  BY StepQueue
<1> QED BY <1>1, <1>2, <1>3, LeaseInvariant, PTL DEF Spec, ImplementsQueue, Queue!Spec

(* The promise of the queue holds of the tables: one owner at most, and     *)
(* only of a running task; no worker owns two tasks; max_attempts failures  *)
(* are what it takes to dead-letter a task, never more and never fewer.     *)
THEOREM PromiseKept == Spec => []Queue!Promise
<1>1. ASSUME IInv, BudgetExact PROVE Queue!Promise
  <2> USE <1>1, Constants
  <2>1. TypeOK /\ TokensInUse
    BY DEF IInv
  <2>2. ASSUME NEW t \in Task
        PROVE  /\ \A v, w \in QueueOwner[t] : v = w
               /\ QueueOwner[t] # {} => QueueState[t] = "executing"
    BY <2>1 DEF TypeOK, TokensInUse, QueueOwner, QueueState, Fenced
  <2>3. ASSUME NEW t \in Task
        PROVE  /\ QueueFailures[t] <= MaxAttempts
               /\ QueueState[t] = "dead_letter" <=> QueueFailures[t] = MaxAttempts
    <3>1. task[t].failure_count \in Nat
      BY <2>1 DEF TypeOK, TaskRow
    <3> QED BY <3>1 DEF BudgetExact, QueueFailures, QueueState
  <2>4. ASSUME NEW t \in Task, NEW u \in Task, t # u
        PROVE  QueueOwner[t] \cap QueueOwner[u] = {}
    BY <2>4 DEF QueueOwner, Fenced
  <2> QED BY <2>2, <2>3, <2>4 DEF Queue!Promise
<1>2. Init => BudgetExact
  BY BudgetInit
<1>3. IInv /\ BudgetExact /\ [Next]_vars => BudgetExact'
  BY BudgetStep
<1> QED BY <1>1, <1>2, <1>3, LeaseInvariant, PTL DEF Spec
=============================================================================
