--------------------------- MODULE DeliveryProofs ---------------------------
(***************************************************************************)
(* Proofs about Delivery for any number of workers, attempts and faults:   *)
(* how often a message is sent, who sends it, and what stays decided.      *)
(***************************************************************************)
EXTENDS Delivery, FiniteSetTheorems, TLAPS

AboutToSend == {w \in Worker : step[w] = "send"}

(* Every call of send_text, made or about to be made, has an attempt of its *)
(* own in the row.                                                          *)
SendsCounted ==
  /\ sends \in Nat
  /\ sends + Cardinality(AboutToSend) <= delivery.attempt_count

(* Unless a reservation was lost under its sender, one worker at most is    *)
(* between its reservation and its mark, and the row is its reservation.    *)
ReservationHeld ==
  ~blurred =>
    \A w \in Worker : step[w] \in Sending =>
      /\ delivery.status = "reserved" /\ delivery.lease_expires_at = "future"
      /\ \A v \in Worker : step[v] \in Sending => v = w

(* What the scheduler read as an expired reservation has expired, or is not *)
(* the reservation of the row any more.                                     *)
ReadingOld ==
  reconciling.seen = "expired" =>
    /\ reconciling.attempt_count <= delivery.attempt_count
    /\ delivery.status = "reserved" /\ delivery.attempt_count = reconciling.attempt_count
         => delivery.lease_expires_at # "future"

(* Whoever is about to record a summary as sent has seen it sent.           *)
SentSeen ==
  \/ wasSent
  \/ /\ delivery.status # "sent" /\ reconciling.seen # "sent" /\ ~last_sent
     /\ \A w \in Worker : step[w] # "mark_summary_sent"

(* A task that was not given up has failures left, at a cost of one each.    *)
FailuresLeft == job.status # "dead_letter" => job.failure_count < WORKER_MAX_ATTEMPTS

IInv == TypeOK /\ FailuresLeft /\ SendsCounted /\ ReservationHeld /\ ReadingOld /\ SentSeen
-----------------------------------------------------------------------------
LEMMA Constants ==
  /\ DELIVERY_MAX_ATTEMPTS \in Nat /\ DELIVERY_MAX_ATTEMPTS > 0
  /\ WORKER_MAX_ATTEMPTS \in Nat /\ WORKER_MAX_ATTEMPTS > 0
  /\ MaxFaults \in Nat
  /\ IsFiniteSet(Worker)
  /\ Nobody \notin Worker
BY DeliveryAssumption

(* How the number of workers about to send changes with the step of one.    *)
LEMMA SendersCount ==
  ASSUME TypeOK, NEW w \in Worker, NEW s, Goes(w, s)
  PROVE  /\ Cardinality(AboutToSend) \in Nat
         /\ Cardinality(AboutToSend') =
              Cardinality(AboutToSend)
                + (IF s = "send" THEN 1 ELSE 0) - (IF step[w] = "send" THEN 1 ELSE 0)
<1>1. IsFiniteSet(AboutToSend)
  BY Constants, FS_Subset DEF AboutToSend
<1>2. AboutToSend' = IF s = "send" THEN AboutToSend \cup {w} ELSE AboutToSend \ {w}
  BY DEF TypeOK, Goes, AboutToSend
<1>3. w \in AboutToSend <=> step[w] = "send"
  BY DEF AboutToSend
<1>4. Cardinality(AboutToSend) \in Nat
  BY <1>1, FS_CardinalityType
<1>5. CASE s = "send"
  <2>1. Cardinality(AboutToSend \cup {w}) =
          IF w \in AboutToSend THEN Cardinality(AboutToSend) ELSE Cardinality(AboutToSend) + 1
    BY <1>1, FS_AddElement
  <2> QED BY <1>2, <1>3, <1>4, <1>5, <2>1
<1>6. CASE s # "send"
  <2>1. Cardinality(AboutToSend \ {w}) =
          IF w \in AboutToSend THEN Cardinality(AboutToSend) - 1 ELSE Cardinality(AboutToSend)
    BY <1>1, FS_RemoveElement
  <2> QED BY <1>2, <1>3, <1>4, <1>6, <2>1
<1> QED BY <1>4, <1>5, <1>6

LEMMA InitIInv == Init => IInv
<1> SUFFICES ASSUME Init PROVE IInv
  OBVIOUS
<1> USE Constants DEF Init
<1>1. TypeOK /\ FailuresLeft
  <2>1. /\ delivery \in [status: DELIVERY_STATUS, attempt_count: 0..DELIVERY_MAX_ATTEMPTS,
                        lease_expires_at: {"null", "past", "future"}]
        /\ result \in [1..DELIVERY_MAX_ATTEMPTS -> DELIVERY_STATUS]
        /\ reconciling \in [seen: {"none", "sent", "expired"},
                           attempt_count: 0..DELIVERY_MAX_ATTEMPTS]
    BY DEF DELIVERY_STATUS, Unread
  <2>2. /\ job \in [status: {"queued", "running", "completed", "dead_letter"},
                   failure_count: 0..WORKER_MAX_ATTEMPTS]
        /\ owner \in Worker \cup {Nobody}
        /\ job.status = "running" <=> owner # Nobody
        /\ FailuresLeft
    BY DEF FailuresLeft
  <2>3. /\ step \in [Worker -> Sending \cup {"idle", "reserve", "refused", "mark_summary_sent",
                                            "return", "raise", "retry_later"}]
        /\ faults \in 0..MaxFaults
    OBVIOUS
  <2>4. last_sent \in BOOLEAN /\ wasSent \in BOOLEAN /\ blurred \in BOOLEAN
    OBVIOUS
  <2> QED BY <2>1, <2>2, <2>3, <2>4 DEF TypeOK
<1>2. SendsCounted
  <2>1. AboutToSend = {}
    BY DEF AboutToSend
  <2> QED BY <2>1, FS_EmptySet DEF SendsCounted
<1>3. ReservationHeld /\ ReadingOld /\ SentSeen
  BY DEF ReservationHeld, ReadingOld, SentSeen, Sending, Unread
<1> QED BY <1>1, <1>2, <1>3 DEF IInv
-----------------------------------------------------------------------------
(* The types, action by action.                                             *)
LEMMA TypeStep ==
  ASSUME TypeOK, FailuresLeft, [Next]_vars
  PROVE  TypeOK' /\ FailuresLeft'
<1> USE Constants
<1>1. ASSUME NEW w \in Worker, claim(w) PROVE TypeOK' /\ FailuresLeft'
  BY <1>1 DEF TypeOK, FailuresLeft, claim, Goes, history
<1>2. ASSUME NEW w \in Worker, reserve_delivery(w) PROVE TypeOK' /\ FailuresLeft'
  <2>1. CASE Reservable
    <3>1. delivery.attempt_count + 1 \in 1..DELIVERY_MAX_ATTEMPTS
      BY <2>1 DEF TypeOK, Reservable
    <3>2. /\ delivery' = [status |-> "reserved", attempt_count |-> delivery.attempt_count + 1,
                         lease_expires_at |-> "future"]
          /\ result' = [result EXCEPT ![delivery.attempt_count + 1] = "reserved"]
          /\ Goes(w, "send")
          /\ UNCHANGED <<job, owner, reconciling, last_sent, faults, history>>
      BY <1>2, <2>1 DEF reserve_delivery
    <3>3. /\ delivery' \in [status: DELIVERY_STATUS, attempt_count: 0..DELIVERY_MAX_ATTEMPTS,
                            lease_expires_at: {"null", "past", "future"}]
          /\ result' \in [1..DELIVERY_MAX_ATTEMPTS -> DELIVERY_STATUS]
      BY <3>1, <3>2 DEF TypeOK, DELIVERY_STATUS
    <3> QED BY <3>2, <3>3 DEF TypeOK, FailuresLeft, Goes, history, Sending
  <2>2. CASE ~Reservable
    BY <1>2, <2>2 DEF TypeOK, FailuresLeft, reserve_delivery, Goes, history
  <2> QED BY <2>1, <2>2
<1>3. ASSUME NEW w \in Worker, get_delivery(w) PROVE TypeOK' /\ FailuresLeft'
  BY <1>3 DEF TypeOK, FailuresLeft, get_delivery, Goes, history
<1>4. ASSUME NEW w \in Worker, send_text(w) PROVE TypeOK' /\ FailuresLeft'
  BY <1>4 DEF TypeOK, FailuresLeft, send_text, Goes, Sending
<1>5. ASSUME NEW w \in Worker, mark(w) PROVE TypeOK' /\ FailuresLeft'
  BY <1>5 DEF TypeOK, FailuresLeft, mark, _update_status, Goes, DELIVERY_STATUS
<1>6. ASSUME NEW w \in Worker, mark_summary_sent(w) PROVE TypeOK' /\ FailuresLeft'
  BY <1>6 DEF TypeOK, FailuresLeft, mark_summary_sent, Goes, history
<1>7. ASSUME NEW w \in Worker, settle(w) PROVE TypeOK' /\ FailuresLeft'
  BY <1>7 DEF TypeOK, FailuresLeft, settle, Goes, history
<1>8. ASSUME NEW w \in Worker, database_error(w) \/ crash(w) PROVE TypeOK' /\ FailuresLeft'
  BY <1>8 DEF TypeOK, FailuresLeft, database_error, crash, Fault, Goes, history
<1>9. CASE lease_passes
  BY <1>9 DEF TypeOK, FailuresLeft, lease_passes, Fault, history
<1>10. CASE reservation_passes
  <2>1. faults' \in 0..MaxFaults /\ blurred' \in BOOLEAN
    <3>1. CASE \E w \in Worker : step[w] \in Sending
      <4>1. faults < MaxFaults /\ faults' = faults + 1 /\ blurred' = TRUE
        BY <1>10, <3>1 DEF reservation_passes, Fault
      <4> QED BY <4>1 DEF TypeOK
    <3>2. CASE ~\E w \in Worker : step[w] \in Sending
      BY <1>10, <3>2 DEF TypeOK, reservation_passes
    <3> QED BY <3>1, <3>2
  <2>2. /\ delivery' = [delivery EXCEPT !.lease_expires_at = "past"]
        /\ UNCHANGED <<result, job, owner, step, reconciling, last_sent, sends, wasSent>>
    BY <1>10 DEF reservation_passes
  <2> QED BY <2>1, <2>2 DEF TypeOK, FailuresLeft
<1>11. CASE recover_stale_reserved_deliveries
  BY <1>11 DEF TypeOK, FailuresLeft, recover_stale_reserved_deliveries, _update_status, DELIVERY_STATUS
<1>12. CASE reconcile_read
  BY <1>12 DEF TypeOK, FailuresLeft, reconcile_read, history
<1>13. CASE reconcile_write
  <2>1. last_sent' \in BOOLEAN /\ blurred' \in BOOLEAN /\ wasSent' \in BOOLEAN
    BY <1>13 DEF TypeOK, reconcile_write, _update_status
  <2>2. /\ \/ UNCHANGED <<delivery, result>>
           \/ /\ delivery' = [delivery EXCEPT !.status = "failed"]
              /\ result' = [result EXCEPT ![delivery.attempt_count] = "failed"]
        /\ reconciling' = Unread
        /\ UNCHANGED <<job, owner, step, faults, sends>>
    BY <1>13 DEF reconcile_write, _update_status
  <2> QED BY <2>1, <2>2 DEF TypeOK, FailuresLeft, Unread, DELIVERY_STATUS
<1>14. CASE reconcile_crash
  BY <1>14 DEF TypeOK, FailuresLeft, reconcile_crash, Fault, Unread, history
<1>15. CASE UNCHANGED vars
  BY <1>15 DEF TypeOK, FailuresLeft, vars, history
<1> QED BY <1>1, <1>2, <1>3, <1>4, <1>5, <1>6, <1>7, <1>8, <1>9, <1>10, <1>11, <1>12,
           <1>13, <1>14, <1>15 DEF Next, Handling
-----------------------------------------------------------------------------
(* An attempt is counted before its message is sent.                        *)
LEMMA SendsStep ==
  ASSUME TypeOK, SendsCounted, [Next]_vars
  PROVE  SendsCounted'
<1> DEFINE n == Cardinality(AboutToSend)
<1> HIDE DEF n
<1>0. sends \in Nat /\ delivery.attempt_count \in Nat /\ sends + n <= delivery.attempt_count
  BY Constants DEF TypeOK, SendsCounted, n
(* One worker moves, not to a call of send_text.                            *)
<1>1. ASSUME NEW w \in Worker, NEW s, s # "send", Goes(w, s), UNCHANGED sends,
             delivery'.attempt_count = delivery.attempt_count
      PROVE  SendsCounted'
  <2>1. n \in Nat /\ n' = n - (IF step[w] = "send" THEN 1 ELSE 0)
    BY <1>1, SendersCount DEF n
  <2>2. n' \in Int /\ n' <= n
    BY <2>1
  <2> QED BY <1>0, <1>1, <2>1, <2>2 DEF SendsCounted, n
<1>2. ASSUME UNCHANGED <<step, sends>>, delivery'.attempt_count = delivery.attempt_count
      PROVE  SendsCounted'
  BY <1>2 DEF SendsCounted, AboutToSend
<1>3. ASSUME NEW w \in Worker, reserve_delivery(w) PROVE SendsCounted'
  <2>1. CASE Reservable
    <3>1. /\ delivery'.attempt_count = delivery.attempt_count + 1
          /\ Goes(w, "send") /\ step[w] = "reserve" /\ UNCHANGED sends
      BY <1>3, <2>1 DEF reserve_delivery, history
    <3>2. n \in Nat /\ n' = n + 1
      BY <3>1, SendersCount DEF n
    <3> QED BY <1>0, <3>1, <3>2 DEF SendsCounted, n
  <2>2. CASE ~Reservable
    <3>1. Goes(w, "refused") /\ UNCHANGED sends /\ delivery'.attempt_count = delivery.attempt_count
      BY <1>3, <2>2 DEF reserve_delivery, history
    <3> QED BY <1>1, <3>1
  <2> QED BY <2>1, <2>2
<1>4. ASSUME NEW w \in Worker, send_text(w) PROVE SendsCounted'
  <2>1. PICK s \in {"mark_sent", "mark_unknown", "mark_failed"} : Goes(w, s)
    BY <1>4 DEF send_text
  <2>2. /\ delivery'.attempt_count = delivery.attempt_count
        /\ step[w] = "send" /\ sends' = sends + 1
    BY <1>4 DEF send_text
  <2>3. s # "send"
    OBVIOUS
  <2>4. n \in Nat /\ n' = n - 1
    BY <2>1, <2>2, <2>3, SendersCount DEF n
  <2> QED BY <1>0, <2>2, <2>4 DEF SendsCounted, n
<1>5. ASSUME NEW w \in Worker, mark(w) PROVE SendsCounted'
  <2>1. /\ UNCHANGED sends /\ delivery'.attempt_count = delivery.attempt_count
        /\ Goes(w, "mark_summary_sent") \/ Goes(w, "return") \/ Goes(w, "raise")
    BY <1>5 DEF mark, _update_status, TypeOK
  <2> QED BY <1>1, <2>1
<1>6. ASSUME NEW w \in Worker,
             claim(w) \/ get_delivery(w) \/ mark_summary_sent(w) \/ settle(w)
               \/ database_error(w) \/ crash(w)
      PROVE  SendsCounted'
  <2>1. /\ UNCHANGED sends /\ delivery'.attempt_count = delivery.attempt_count
        /\ \E s \in {"reserve", "return", "retry_later", "idle", "raise"} : Goes(w, s)
    BY <1>6 DEF claim, get_delivery, mark_summary_sent, settle, database_error, crash, history
  <2>2. PICK s \in {"reserve", "return", "retry_later", "idle", "raise"} : Goes(w, s)
    BY <2>1
  <2>3. s # "send"
    OBVIOUS
  <2> QED BY <1>1, <2>1, <2>2, <2>3
<1>7. CASE lease_passes \/ reservation_passes \/ recover_stale_reserved_deliveries
             \/ reconcile_read \/ reconcile_write \/ reconcile_crash \/ UNCHANGED vars
  <2>1. UNCHANGED <<step, sends>> /\ delivery'.attempt_count = delivery.attempt_count
    BY <1>7 DEF TypeOK, lease_passes, reservation_passes, recover_stale_reserved_deliveries,
       reconcile_read, reconcile_write, reconcile_crash, _update_status, vars, history
  <2> QED BY <1>2, <2>1
<1> QED BY <1>3, <1>4, <1>5, <1>6, <1>7 DEF Next, Handling

(* The row is the reservation of whoever sends.                             *)
LEMMA ReservationStep ==
  ASSUME TypeOK, ReservationHeld, ReadingOld, [Next]_vars
  PROVE  ReservationHeld'
<1> SUFFICES ASSUME ~blurred', NEW w \in Worker, step'[w] \in Sending
             PROVE  /\ delivery'.status = "reserved" /\ delivery'.lease_expires_at = "future"
                    /\ \A v \in Worker : step'[v] \in Sending => v = w
  BY DEF ReservationHeld
<1>1. ~blurred
  BY DEF TypeOK, Next, Handling, claim, reserve_delivery, get_delivery, send_text, mark,
     mark_summary_sent, settle, database_error, crash, lease_passes, reservation_passes,
     recover_stale_reserved_deliveries, reconcile_read, reconcile_write, reconcile_crash,
     vars, history
<1>2. \A u \in Worker : step[u] \in Sending =>
         /\ delivery.status = "reserved" /\ delivery.lease_expires_at = "future"
         /\ \A v \in Worker : step[v] \in Sending => v = u
  BY <1>1 DEF ReservationHeld
<1>3. is_reservation_expired => \A u \in Worker : step[u] \notin Sending
  BY <1>2 DEF is_reservation_expired
<1>4. ASSUME NEW u \in Worker, reserve_delivery(u)
      PROVE  /\ delivery'.status = "reserved" /\ delivery'.lease_expires_at = "future"
             /\ \A v \in Worker : step'[v] \in Sending => v = w
  <2>1. CASE Reservable
    <3>1. \A v \in Worker : step[v] \notin Sending
      BY <1>2, <1>3, <2>1 DEF Reservable
    <3> QED BY <1>4, <2>1, <3>1 DEF reserve_delivery, Goes, TypeOK
  <2>2. CASE ~Reservable
    BY <1>2, <1>4, <2>2 DEF reserve_delivery, Goes, TypeOK, Sending
  <2> QED BY <2>1, <2>2
<1>5. ASSUME NEW u \in Worker, send_text(u)
      PROVE  /\ delivery'.status = "reserved" /\ delivery'.lease_expires_at = "future"
             /\ \A v \in Worker : step'[v] \in Sending => v = w
  BY <1>2, <1>5 DEF send_text, Goes, TypeOK, Sending
<1>6. ASSUME NEW u \in Worker, mark(u) PROVE FALSE
  <2>1. step[u] \in Sending /\ step'[u] \notin Sending
    BY <1>6 DEF mark, Goes, TypeOK, Sending
  <2>2. \A v \in Worker : v # u => step'[v] = step[v]
    BY <1>6 DEF mark, Goes, TypeOK
  <2> QED BY <1>2, <2>1, <2>2
<1>7. ASSUME NEW u \in Worker,
             claim(u) \/ get_delivery(u) \/ mark_summary_sent(u) \/ settle(u)
               \/ database_error(u) \/ crash(u)
      PROVE  /\ delivery'.status = "reserved" /\ delivery'.lease_expires_at = "future"
             /\ \A v \in Worker : step'[v] \in Sending => v = w
  <2>1. UNCHANGED delivery
    BY <1>7 DEF claim, get_delivery, mark_summary_sent, settle, database_error, crash
  <2>2. PICK s \in {"reserve", "return", "retry_later", "idle", "raise"} : Goes(u, s)
    BY <1>7 DEF claim, get_delivery, mark_summary_sent, settle, database_error, crash
  <2> QED BY <1>2, <2>1, <2>2 DEF Goes, TypeOK, Sending
<1>8. CASE reservation_passes
  BY <1>8 DEF reservation_passes
<1>9. CASE recover_stale_reserved_deliveries
  BY <1>3, <1>9 DEF recover_stale_reserved_deliveries
<1>10. CASE reconcile_write
  <2>1. CASE reconciling.seen = "expired"
    BY <1>2, <1>10, <2>1 DEF reconcile_write, ReadingOld
  <2>2. CASE reconciling.seen # "expired"
    BY <1>2, <1>10, <2>2 DEF reconcile_write
  <2> QED BY <2>1, <2>2
<1>11. CASE lease_passes \/ reconcile_read \/ reconcile_crash \/ UNCHANGED vars
  BY <1>2, <1>11 DEF lease_passes, reconcile_read, reconcile_crash, vars
<1> QED BY <1>4, <1>5, <1>6, <1>7, <1>8, <1>9, <1>10, <1>11 DEF Next, Handling

(* A new reservation takes the next number.                                 *)
LEMMA ReadingStep ==
  ASSUME TypeOK, ReadingOld, [Next]_vars
  PROVE  ReadingOld'
<1>0. delivery.attempt_count \in Nat /\ reconciling.attempt_count \in Nat
  BY Constants DEF TypeOK
<1>1. ASSUME NEW w \in Worker, reserve_delivery(w) PROVE ReadingOld'
  <2>1. CASE Reservable
    <3>1. /\ delivery'.attempt_count = delivery.attempt_count + 1
          /\ UNCHANGED reconciling
      BY <1>1, <2>1 DEF reserve_delivery
    <3> QED BY <1>0, <3>1 DEF ReadingOld
  <2>2. CASE ~Reservable
    BY <1>1, <2>2 DEF reserve_delivery, ReadingOld
  <2> QED BY <2>1, <2>2
<1>2. ASSUME UNCHANGED reconciling, NEW st \in {"sent", "failed", "unknown"}, _update_status(st)
      PROVE  ReadingOld'
  BY <1>2 DEF ReadingOld, _update_status, TypeOK
<1>3. ASSUME NEW w \in Worker, mark(w) PROVE ReadingOld'
  BY <1>2, <1>3 DEF mark
<1>4. CASE recover_stale_reserved_deliveries
  BY <1>2, <1>4 DEF recover_stale_reserved_deliveries
<1>5. CASE reservation_passes
  BY <1>5 DEF reservation_passes, ReadingOld, TypeOK
<1>6. CASE reconcile_read
  BY <1>0, <1>6 DEF reconcile_read, ReadingOld, is_reservation_expired, TypeOK
<1>7. CASE reconcile_write \/ reconcile_crash
  BY <1>7 DEF reconcile_write, reconcile_crash, Unread, ReadingOld
<1>8. ASSUME UNCHANGED <<delivery, reconciling>> PROVE ReadingOld'
  BY <1>8 DEF ReadingOld
<1>9. ASSUME NEW w \in Worker,
             claim(w) \/ get_delivery(w) \/ send_text(w) \/ mark_summary_sent(w)
               \/ settle(w) \/ database_error(w) \/ crash(w)
      PROVE  ReadingOld'
  BY <1>8, <1>9 DEF claim, get_delivery, send_text, mark_summary_sent, settle, database_error,
     crash
<1>10. CASE lease_passes \/ UNCHANGED vars
  BY <1>8, <1>10 DEF lease_passes, vars
<1> QED BY <1>1, <1>3, <1>4, <1>5, <1>6, <1>7, <1>9, <1>10 DEF Next, Handling

(* wasSent only grows, and nobody learns of a message sent before it was.   *)
LEMMA SentStep ==
  ASSUME TypeOK, SentSeen, [Next]_vars
  PROVE  SentSeen'
<1>1. CASE wasSent
  <2>1. wasSent'
    BY <1>1 DEF Next, Handling, claim, reserve_delivery, get_delivery, send_text, mark,
       mark_summary_sent, settle, database_error, crash, lease_passes, reservation_passes,
       recover_stale_reserved_deliveries, reconcile_read, reconcile_write, reconcile_crash,
       _update_status, vars, history
  <2> QED BY <2>1 DEF SentSeen
<1> SUFFICES ASSUME ~wasSent, delivery.status # "sent", reconciling.seen # "sent", ~last_sent,
                    \A w \in Worker : step[w] # "mark_summary_sent"
             PROVE  SentSeen'
  BY <1>1 DEF SentSeen
<1>2. ASSUME NEW w \in Worker, mark(w) PROVE SentSeen'
  BY <1>2 DEF mark, _update_status, SentSeen, Goes, TypeOK
<1>3. ASSUME NEW w \in Worker, reserve_delivery(w) PROVE SentSeen'
  BY <1>3 DEF reserve_delivery, SentSeen, Goes, TypeOK
<1>4. ASSUME NEW w \in Worker, send_text(w) PROVE SentSeen'
  BY <1>4 DEF send_text, SentSeen, Goes, TypeOK
<1>5. ASSUME NEW w \in Worker,
             claim(w) \/ get_delivery(w) \/ settle(w) \/ database_error(w) \/ crash(w)
      PROVE  SentSeen'
  BY <1>5 DEF claim, get_delivery, settle, database_error, crash, history, SentSeen, Goes, TypeOK
<1>6. CASE recover_stale_reserved_deliveries \/ reservation_passes
  BY <1>6 DEF recover_stale_reserved_deliveries, reservation_passes, _update_status, SentSeen, TypeOK
<1>7. CASE reconcile_read \/ reconcile_write \/ reconcile_crash
  BY <1>7 DEF reconcile_read, reconcile_write, reconcile_crash, _update_status, Unread, history,
     SentSeen, TypeOK
<1>8. CASE lease_passes \/ UNCHANGED vars
  BY <1>8 DEF lease_passes, vars, history, SentSeen
<1>9. ASSUME NEW w \in Worker PROVE ~mark_summary_sent(w)
  BY DEF mark_summary_sent
<1> QED BY <1>2, <1>3, <1>4, <1>5, <1>6, <1>7, <1>8, <1>9 DEF Next, Handling
-----------------------------------------------------------------------------
(* The inductive invariant behind the theorems below.                       *)
THEOREM DeliveryInvariant == Spec => []IInv
<1>1. Init => IInv
  BY InitIInv
<1>2. IInv /\ [Next]_vars => IInv'
  BY TypeStep, SendsStep, ReservationStep, ReadingStep, SentStep DEF IInv
<1> QED BY <1>1, <1>2, PTL DEF Spec

(* Every variable of Delivery stays in its type.                            *)
THEOREM DeliveryTypes == Spec => []TypeOK
BY DeliveryInvariant, PTL DEF IInv

(* send_text is called at most DELIVERY_MAX_ATTEMPTS times for one delivery *)
(* key: reserve_delivery counts the attempt before the message goes out, and *)
(* no update of the row ever takes an attempt back.                         *)
THEOREM SendBudget == Spec => []AtMostMaxSends
<1>1. IInv => AtMostMaxSends
  <2> SUFFICES ASSUME IInv PROVE AtMostMaxSends
    OBVIOUS
  <2>1. IsFiniteSet(AboutToSend)
    BY Constants, FS_Subset DEF AboutToSend
  <2>2. Cardinality(AboutToSend) \in Nat
    BY <2>1, FS_CardinalityType
  <2>3. sends + Cardinality(AboutToSend) <= DELIVERY_MAX_ATTEMPTS
    BY <2>2, Constants DEF IInv, TypeOK, SendsCounted
  <2> QED BY <2>3 DEF AtMostMaxSends, AboutToSend
<1> QED BY <1>1, DeliveryInvariant, PTL

(* Two workers send one message at the same time only after a reservation   *)
(* was lost by a sender still at work.                                      *)
THEOREM OneSender == Spec => []SendersExclusive
<1>1. IInv => SendersExclusive
  <2> SUFFICES ASSUME IInv, ~blurred
               PROVE  Cardinality({w \in Worker : step[w] \in Sending}) <= 1
    BY DEF SendersExclusive
  <2> DEFINE S == {w \in Worker : step[w] \in Sending}
  <2>1. CASE S = {}
    BY <2>1, FS_EmptySet
  <2>2. CASE S # {}
    <3>1. PICK w : w \in S
      BY <2>2
    <3>2. S = {w}
      BY <3>1 DEF IInv, ReservationHeld
    <3> HIDE DEF S
    <3>3. Cardinality(S) = 1
      BY <3>2, FS_Singleton
    <3> QED BY <3>3 DEF S
  <2> QED BY <2>1, <2>2
<1> QED BY <1>1, DeliveryInvariant, PTL

(* A row that is sent or unknown is written again only by a sender that     *)
(* lost its reservation or by a reconciliation that acts on an old reading. *)
THEOREM DecidedStays == Spec => DecidedForGood
<1>1. IInv /\ [Next]_vars =>
        [delivery.status \in {"sent", "unknown"} /\ ~blurred'
           => delivery'.status = delivery.status]_vars
  <2> SUFFICES ASSUME IInv, Next, delivery.status \in {"sent", "unknown"}, ~blurred'
               PROVE  delivery'.status = delivery.status
    BY DEF vars
  <2>1. \A w \in Worker : ~blurred => step[w] \notin Sending
    BY DEF IInv, ReservationHeld
  <2>2. ASSUME NEW w \in Worker, Handling(w) PROVE delivery'.status = delivery.status
    BY <2>1, <2>2 DEF Handling, reserve_delivery, Reservable, get_delivery, send_text, mark,
       mark_summary_sent, settle, Sending
  <2>3. ASSUME NEW w \in Worker, claim(w) \/ database_error(w) \/ crash(w)
        PROVE  delivery'.status = delivery.status
    BY <2>3 DEF claim, database_error, crash
  <2>4. CASE lease_passes \/ reservation_passes \/ recover_stale_reserved_deliveries
    BY <2>4 DEF lease_passes, reservation_passes, recover_stale_reserved_deliveries,
       is_reservation_expired
  <2>5. CASE reconcile_read \/ reconcile_write \/ reconcile_crash
    BY <2>5 DEF reconcile_read, reconcile_write, reconcile_crash
  <2> QED BY <2>2, <2>3, <2>4, <2>5 DEF Next
<1> QED BY <1>1, DeliveryInvariant, PTL DEF Spec, DecidedForGood

(* The subscription is never marked for a day whose summary was not sent:   *)
(* mark_summary_sent and the reconciliation follow mark_sent.               *)
THEOREM RecordedAfterSent == Spec => [](last_sent => wasSent)
<1>1. IInv => (last_sent => wasSent)
  BY DEF IInv, SentSeen
<1> QED BY <1>1, DeliveryInvariant, PTL
=============================================================================
