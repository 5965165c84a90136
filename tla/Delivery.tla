------------------------------ MODULE Delivery ------------------------------
(***************************************************************************)
(* One outgoing message: its row of `deliveries` with its attempts         *)
(* (repositories/postgres/delivery.py), the attempts of its task to send   *)
(* it (handle_delivery in apps/handlers.py), and the scheduler that        *)
(* reconciles the row of an automatic summary with the subscription        *)
(* (summary/reconciliation.py).  The row is a reservation with an expiry,  *)
(* and no update of it is fenced.  Other kinds of messages take the same   *)
(* steps without mark_summary_sent and without the scheduler.              *)
(*                                                                         *)
(* The task is the abstraction of TaskLease that matters here: at most one *)
(* worker owns it, a worker that lost it runs on and its result is stale.  *)
(* "queued" stands for every row that can be claimed: queued, a retry that *)
(* fell due, and running with a lease that ran out.                        *)
(***************************************************************************)
EXTENDS Naturals, FiniteSets

CONSTANTS
  Worker,                  \* handler threads
  Nobody,                  \* the owner of a task nobody runs
  DELIVERY_MAX_ATTEMPTS,
  WORKER_MAX_ATTEMPTS,     \* tasks.max_attempts
  MaxFaults                \* bound: faults in one execution

ASSUME DeliveryAssumption ==
  /\ DELIVERY_MAX_ATTEMPTS \in Nat \ {0}
  /\ WORKER_MAX_ATTEMPTS \in Nat \ {0}
  /\ MaxFaults \in Nat
  /\ IsFiniteSet(Worker)
  /\ Nobody \notin Worker

VARIABLES
  delivery,      \* the row of `deliveries`
  result,        \* result[n]: status of the row of `delivery_attempts` numbered n
  job,           \* the row of `tasks`
  owner,         \* the worker whose lease the task carries
  step,          \* step[w]: where w is in handle_delivery
  reconciling,   \* what the scheduler read of the row, and acts on next
  last_sent,     \* the subscription's last_sent_date is the day of the message
  faults,        \* faults so far
  sends,         \* history: calls of send_text
  wasSent,       \* history: the row was "sent"
  blurred        \* history: a reservation was lost by a sender still at work

history == <<sends, wasSent, blurred>>
vars == <<delivery, result, job, owner, step, reconciling, last_sent, faults, history>>

DELIVERY_STATUS == {"none", "reserved", "sent", "failed", "unknown"}
Sending == {"send", "mark_sent", "mark_unknown", "mark_failed"}
Unread == [seen |-> "none", attempt_count |-> 0]

TypeOK ==
  /\ delivery \in [status: DELIVERY_STATUS, attempt_count: 0..DELIVERY_MAX_ATTEMPTS,
                   lease_expires_at: {"null", "past", "future"}]
  /\ result \in [1..DELIVERY_MAX_ATTEMPTS -> DELIVERY_STATUS]
  /\ job \in [status: {"queued", "running", "completed", "dead_letter"},
              failure_count: 0..WORKER_MAX_ATTEMPTS]
  /\ owner \in Worker \cup {Nobody}
  /\ job.status = "running" <=> owner # Nobody
  /\ step \in [Worker -> Sending \cup {"idle", "reserve", "refused", "mark_summary_sent",
                                       "return", "raise", "retry_later"}]
  /\ reconciling \in [seen: {"none", "sent", "expired"},
                      attempt_count: 0..DELIVERY_MAX_ATTEMPTS]
  /\ last_sent \in BOOLEAN
  /\ faults \in 0..MaxFaults
  /\ wasSent \in BOOLEAN /\ blurred \in BOOLEAN

Init ==
  /\ delivery = [status |-> "none", attempt_count |-> 0, lease_expires_at |-> "null"]
  /\ result = [n \in 1..DELIVERY_MAX_ATTEMPTS |-> "none"]
  /\ job = [status |-> "queued", failure_count |-> 0]
  /\ owner = Nobody
  /\ step = [w \in Worker |-> "idle"]
  /\ reconciling = Unread
  /\ last_sent = FALSE
  /\ faults = 0
  /\ sends = 0 /\ wasSent = FALSE /\ blurred = FALSE

Fault == faults < MaxFaults /\ faults' = faults + 1
Goes(w, s) == step' = [step EXCEPT ![w] = s]
-----------------------------------------------------------------------------
(* A reservation that never expires: the TTL is not looked at.              *)
never_expired == FALSE

is_reservation_expired ==
  delivery.status = "reserved" /\ delivery.lease_expires_at \in {"null", "past"}

(* A reservation without the budget of attempts.                            *)
ReservableForever ==
  \/ delivery.status \in {"none", "failed"}
  \/ delivery.status = "reserved" /\ is_reservation_expired

(* A reservation that does not wait for one that is under way.              *)
ReservableAtOnce ==
  /\ delivery.status \notin {"sent", "unknown"}
  /\ delivery.attempt_count < DELIVERY_MAX_ATTEMPTS

Reservable ==
  /\ delivery.status \notin {"sent", "unknown"}
  /\ delivery.status = "reserved" => is_reservation_expired
  /\ delivery.attempt_count < DELIVERY_MAX_ATTEMPTS

(* reserve_delivery under its advisory lock: one transaction.  The attempt  *)
(* whose reservation expired is not closed.                                 *)
reserve_delivery(w) ==
  /\ step[w] = "reserve"
  /\ \/ /\ Reservable
        /\ LET n == delivery.attempt_count + 1
           IN /\ delivery' = [status |-> "reserved", attempt_count |-> n,
                              lease_expires_at |-> "future"]
              /\ result' = [result EXCEPT ![n] = "reserved"]
        /\ Goes(w, "send")
     \/ /\ ~Reservable
        /\ Goes(w, "refused")
        /\ UNCHANGED <<delivery, result>>
  /\ UNCHANGED <<job, owner, reconciling, last_sent, faults, history>>

(* get_delivery, in a later transaction: a message that is decided needs    *)
(* nothing; any other is tried again later, without end.                    *)
get_delivery(w) ==
  /\ step[w] = "refused"
  /\ Goes(w, IF delivery.status \in {"sent", "unknown"} THEN "return" ELSE "retry_later")
  /\ UNCHANGED <<delivery, result, job, owner, reconciling, last_sent, faults, history>>

(* send_text returns, raises TimeoutError or raises anything else.          *)
send_text(w) ==
  /\ step[w] = "send"
  /\ sends' = sends + 1
  /\ \E mark \in {"mark_sent", "mark_unknown", "mark_failed"} : Goes(w, mark)
  /\ UNCHANGED <<delivery, result, job, owner, reconciling, last_sent, faults,
                 wasSent, blurred>>

(* _update_status: whatever the row says, and whoever reserved it, the row  *)
(* and the attempt it counts last take the status.  lease_expires_at stays. *)
_update_status(status) ==
  /\ delivery' = [delivery EXCEPT !.status = status]
  /\ result' = [result EXCEPT ![delivery.attempt_count] = status]
  /\ wasSent' = (wasSent \/ status = "sent")

mark(w) ==
  /\ \/ step[w] = "mark_sent" /\ _update_status("sent") /\ Goes(w, "mark_summary_sent")
     \/ step[w] = "mark_unknown" /\ _update_status("unknown") /\ Goes(w, "return")
     \/ step[w] = "mark_failed" /\ _update_status("failed") /\ Goes(w, "raise")
  /\ UNCHANGED <<job, owner, reconciling, last_sent, faults, sends, blurred>>

mark_summary_sent(w) ==
  /\ step[w] = "mark_summary_sent"
  /\ last_sent' = TRUE
  /\ Goes(w, "return")
  /\ UNCHANGED <<delivery, result, job, owner, reconciling, faults, history>>

(* A call to the database raises: the handler raises.                       *)
database_error(w) ==
  /\ step[w] \in {"reserve", "refused", "mark_sent", "mark_unknown", "mark_failed",
                  "mark_summary_sent"}
  /\ Fault
  /\ Goes(w, "raise")
  /\ UNCHANGED <<delivery, result, job, owner, reconciling, last_sent, history>>
-----------------------------------------------------------------------------
claim(w) ==
  /\ step[w] = "idle"
  /\ job.status = "queued"
  /\ job' = [job EXCEPT !.status = "running"]
  /\ owner' = w
  /\ Goes(w, "reserve")
  /\ UNCHANGED <<delivery, result, reconciling, last_sent, faults, history>>

(* complete_task, fail_task or defer_task, or nothing when w does not own   *)
(* the task any more.                                                       *)
settle(w) ==
  /\ step[w] \in {"return", "raise", "retry_later"}
  /\ LET failures == job.failure_count + 1
         after == CASE step[w] = "return" -> [job EXCEPT !.status = "completed"]
                    [] step[w] = "retry_later" -> [job EXCEPT !.status = "queued"]
                    [] step[w] = "raise" ->
                         [status |-> IF failures >= WORKER_MAX_ATTEMPTS
                                     THEN "dead_letter" ELSE "queued",
                          failure_count |-> failures]
     IN job' = IF owner = w THEN after ELSE job
  /\ owner' = IF owner = w THEN Nobody ELSE owner
  /\ Goes(w, "idle")
  /\ UNCHANGED <<delivery, result, reconciling, last_sent, faults, history>>

crash(w) ==
  /\ step[w] # "idle"
  /\ Fault
  /\ Goes(w, "idle")
  /\ UNCHANGED <<delivery, result, job, owner, reconciling, last_sent, history>>

(* The lease of the task runs out; under a worker that is alive, and should *)
(* have renewed it, that is a fault.                                        *)
lease_passes ==
  /\ owner # Nobody
  /\ IF step[owner] = "idle" THEN UNCHANGED faults ELSE Fault
  /\ job' = [job EXCEPT !.status = "queued"]
  /\ owner' = Nobody
  /\ UNCHANGED <<delivery, result, step, reconciling, last_sent, history>>

(* The reservation runs out, under a sender that is still at work or not.   *)
reservation_passes ==
  /\ delivery.status = "reserved"
  /\ delivery.lease_expires_at = "future"
  /\ delivery' = [delivery EXCEPT !.lease_expires_at = "past"]
  /\ IF \E w \in Worker : step[w] \in Sending
     THEN Fault /\ blurred' = TRUE
     ELSE UNCHANGED <<faults, blurred>>
  /\ UNCHANGED <<result, job, owner, step, reconciling, last_sent, sends, wasSent>>

(* A recovery that looks at the expiry and not at the status; the expiry of *)
(* a decided row stays in the row.                                          *)
recover_whatever_expired ==
  /\ delivery.lease_expires_at # "null"
  /\ delivery.status # "failed"
  /\ _update_status("failed")
  /\ UNCHANGED <<job, owner, step, reconciling, last_sent, faults, sends, blurred>>

(* recover_stale_reserved_deliveries, when a worker of deliveries starts.   *)
recover_stale_reserved_deliveries ==
  /\ is_reservation_expired
  /\ _update_status("failed")
  /\ UNCHANGED <<job, owner, step, reconciling, last_sent, faults, sends, blurred>>

(* reconcile_auto_summary_delivery reads the row in one transaction ...     *)
reconcile_read ==
  /\ reconciling = Unread
  /\ \/ /\ delivery.status = "sent"
        /\ ~last_sent
        /\ reconciling' = [seen |-> "sent", attempt_count |-> delivery.attempt_count]
     \/ /\ is_reservation_expired
        /\ reconciling' = [seen |-> "expired", attempt_count |-> delivery.attempt_count]
  /\ UNCHANGED <<delivery, result, job, owner, step, last_sent, faults, history>>

(* A reconciliation that does not write the date.                           *)
reconcile_write_nothing ==
  /\ reconciling # Unread
  /\ reconciling' = Unread
  /\ UNCHANGED <<delivery, result, job, owner, step, last_sent, faults, history>>

(* ... and writes in another, by when the row may have been reserved again  *)
(* or decided.                                                              *)
reconcile_write ==
  /\ \/ /\ reconciling.seen = "sent"
        /\ last_sent' = TRUE
        /\ UNCHANGED <<delivery, result, wasSent, blurred>>
     \/ /\ reconciling.seen = "expired"
        /\ _update_status("failed")
        /\ blurred' = (blurred \/ delivery.status # "reserved"
                               \/ delivery.attempt_count # reconciling.attempt_count)
        /\ UNCHANGED last_sent
  /\ reconciling' = Unread
  /\ UNCHANGED <<job, owner, step, faults, sends>>

(* The scheduler dies, or its call raises, between the two.                 *)
reconcile_crash ==
  /\ reconciling # Unread
  /\ Fault
  /\ reconciling' = Unread
  /\ UNCHANGED <<delivery, result, job, owner, step, last_sent, history>>
-----------------------------------------------------------------------------
Handling(w) ==
  \/ reserve_delivery(w) \/ get_delivery(w) \/ send_text(w) \/ mark(w)
  \/ mark_summary_sent(w) \/ settle(w)

Next ==
  \/ \E w \in Worker : claim(w) \/ Handling(w) \/ database_error(w) \/ crash(w)
  \/ lease_passes
  \/ reservation_passes
  \/ recover_stale_reserved_deliveries
  \/ reconcile_read \/ reconcile_write \/ reconcile_crash

(* A handler takes its next step, a task in the queue is claimed, the       *)
(* scheduler ticks every 30 s, and time passes; nothing is assumed of       *)
(* faults or of the recovery, which runs at the start of a worker only.     *)
Fairness ==
  /\ \A w \in Worker : WF_vars(Handling(w))
  /\ WF_vars(\E w \in Worker : claim(w))
  /\ WF_vars(lease_passes /\ UNCHANGED faults)
  /\ WF_vars(reservation_passes /\ UNCHANGED faults)
  /\ WF_vars(reconcile_read)
  /\ WF_vars(reconcile_write)

Spec == Init /\ [][Next]_vars /\ Fairness
-----------------------------------------------------------------------------
(* Whatever the overlaps, crashes and retries, send_text is called at most  *)
(* DELIVERY_MAX_ATTEMPTS times for one delivery key.                        *)
AtMostMaxSends ==
  sends + Cardinality({w \in Worker : step[w] = "send"}) <= DELIVERY_MAX_ATTEMPTS

(* "the reservation keeps a retry from sending twice": two workers send at  *)
(* the same time only after a reservation was lost by a sender at work.     *)
SendersExclusive ==
  ~blurred => Cardinality({w \in Worker : step[w] \in Sending}) <= 1

(* "sent is never resent, unknown not at once": a decided row stays as it   *)
(* is, unless a sender lost its reservation or the scheduler wrote on an    *)
(* old reading.                                                             *)
DecidedForGood ==
  [][delivery.status \in {"sent", "unknown"} /\ ~blurred'
       => delivery'.status = delivery.status]_vars

(* The delivery of an automatic summary comes first, then the date in the   *)
(* subscription, and that always follows: the reconciliation makes up for a *)
(* worker that died between the two.                                        *)
SentSummaryRecorded ==
  /\ [](last_sent => wasSent)
  /\ delivery.status = "sent" ~> last_sent \/ delivery.status # "sent"

(* The task of a delivery ends, unless all its attempts were used and none  *)
(* was decided: then handle_delivery raises RetryLater for ever.            *)
DeliveryEnds ==
  <>(\/ job.status \in {"completed", "dead_letter"}
     \/ /\ delivery.attempt_count = DELIVERY_MAX_ATTEMPTS
        /\ delivery.status \in {"reserved", "failed"})

(* "`sent` is never sent again automatically": once the row was sent, no    *)
(* attempt reserves it.                                                     *)
SentNeverResent ==
  [][wasSent => delivery'.attempt_count = delivery.attempt_count]_vars
=============================================================================
