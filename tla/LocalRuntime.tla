---------------------------- MODULE LocalRuntime ----------------------------
(***************************************************************************)
(* The runtime of one process with TASK_QUEUE_BACKEND = "local": the       *)
(* bounded executor of runtime/executor.py with its slots and its set of   *)
(* messages in flight, process_record of core/worker.py on the write-ahead *)
(* log and the index of notes, the drainer that submits what is pending,   *)
(* and the enrichment of notes with its own pool and drainer.  Messages    *)
(* come in through Intake.                                                 *)
(*                                                                         *)
(* The log and the index are files that are truncated and written again    *)
(* (mark_processed, save_index): a process that dies meanwhile leaves a    *)
(* prefix of the log, or a file that cannot be parsed.  The lock of the    *)
(* space is held for all of process_record.                                *)
(***************************************************************************)
EXTENDS Intake

CONSTANTS
  Query,                     \* questions, which are tasks too
  SLOTS,                     \* MAX_WORKERS + TASK_QUEUE_SIZE
  PENDING_DRAIN_BATCH_SIZE,
  ENRICHMENT_MAX_ATTEMPTS

ASSUME RuntimeAssumption ==
  /\ SLOTS \in Nat \ {0}
  /\ PENDING_DRAIN_BATCH_SIZE \in Nat \ {0}
  /\ ENRICHMENT_MAX_ATTEMPTS \in Nat \ {0}
  /\ Query \cap Message = {} /\ None \notin Query

VARIABLES
  queued,        \* tasks submitted that are not in the space yet
  running,       \* the task that holds the lock, its records to process
  done,          \* tasks that left the space and are not finished
  inflight,      \* _inflight_ingest_keys
  drainer,       \* what the drainer has read and not yet submitted
  note,          \* note[m]: the note of m in the index
  indexed,       \* the index file can be parsed
  enrichment     \* the task of the enrichment pool, which has one slot here

executor == <<queued, running, done, inflight>>
runtime == <<executor, drainer, enrichment>>
vars == <<intakeVars, runtime, note, indexed>>

Task == Message \cup Query
Nothing == [pc |-> "free", task |-> None, todo |-> <<>>]
NoEnrichment == [pc |-> "free", message |-> None]

lock_free == running.pc = "free"
Taken == Cardinality(queued) + Cardinality(done) + (IF lock_free THEN 0 ELSE 1)

(* Types; and the executor has accepted no more than its semaphore allows,  *)
(* the messages of accepted tasks being in flight.                          *)
TypeOK ==
  /\ IntakeTypeOK
  /\ queued \subseteq Task /\ done \subseteq Task
  /\ running \in [pc: {"free", "record", "index", "mark"}, task: Task \cup {None},
                  todo: Seq(Message)]
  /\ inflight \subseteq Message
  /\ drainer \in Seq(Message)
  /\ note \in [Message -> [status: {"none", "provisional", "enriching", "failed", "ready"},
                           attempts: 0..ENRICHMENT_MAX_ATTEMPTS]]
  /\ indexed \in BOOLEAN
  /\ enrichment \in [pc: {"free", "queued", "enrich"}, message: Message \cup {None}]
  /\ Taken <= SLOTS
  /\ Message \cap (queued \cup done \cup {running.task}) = inflight

Init ==
  /\ IntakeInit
  /\ queued = {} /\ done = {}
  /\ running = Nothing
  /\ inflight = {}
  /\ drainer = <<>>
  /\ note = [m \in Message |-> [status |-> "none", attempts |-> 0]]
  /\ indexed = TRUE
  /\ enrichment = NoEnrichment

(* load_pending_records of core/wal.py: what is pending, in the order of    *)
(* the log.  The k-th is the one that has k pending records up to it.       *)
pending_records ==
  LET open == {i \in DOMAIN log : status[log[i]] = "pending"}
      place(k) == CHOOSE i \in open : Cardinality({j \in open : j <= i}) = k
  IN [k \in 1..Cardinality(open) |-> log[place(k)]]

note_exists(m) == note[m].status # "none"
Record == Head(running.todo)
Goes(pc) == running' = [running EXCEPT !.pc = pc]
NoIntake == UNCHANGED <<backend, sensitive, log, status, readable, key, handler, acked>>
-----------------------------------------------------------------------------
(* The executor.                                                            *)

(* Every message that is not in flight is accepted.                         *)
rejected_without_slots(m) == m \in inflight

(* _submit: refused, if m is in flight or every slot is taken.              *)
rejected(m) == m \in inflight \/ Taken = SLOTS
submit_ingest(m) ==
  IF rejected(m) THEN UNCHANGED <<queued, inflight>>
  ELSE queued' = queued \cup {m} /\ inflight' = inflight \cup {m}

(* The end of handle_text_message; a rejected record waits in the log.      *)
submit_message(h) ==
  /\ In(h, "submit")
  /\ submit_ingest(handler[h].message)
  /\ Returns(h)
  /\ UNCHANGED <<backend, sensitive, log, status, readable, key, events, excused, running, done,
                 drainer, note, indexed, enrichment>>

(* A question: it is answered from the notes, not kept.                     *)
submit_query(q) ==
  /\ Event
  /\ backend = "local"
  /\ q \notin queued \cup done \cup {running.task}
  /\ Taken < SLOTS
  /\ queued' = queued \cup {q}
  /\ NoIntake
  /\ UNCHANGED <<excused, running, done, inflight, drainer, note, indexed, enrichment>>

(* The lock is held until every record is through process_record.           *)
Holds(t, todo) ==
  IF todo = <<>> THEN running' = Nothing /\ done' = done \cup {t}
  ELSE running' = [pc |-> "record", task |-> t, todo |-> todo] /\ UNCHANGED done

(* A thread of the pool takes the task up and enters the space; a thread    *)
(* that waits for the lock does what a queued task does.  For a query,      *)
(* process_pending reads the log.                                           *)
run_task(t) ==
  /\ t \in queued
  /\ lock_free
  /\ queued' = queued \ {t}
  /\ Holds(t, CASE t \in Message -> <<t>>
                [] t \in Query /\ readable -> pending_records
                [] OTHER -> <<>>)
  /\ NoIntake
  /\ UNCHANGED <<events, excused, inflight, drainer, note, indexed, enrichment>>

(* process_record is through with a record, or raised on it.                *)
NextRecord == Holds(running.task, Tail(running.todo))

(* The log says processed before the note is in the index.                  *)
process_record_marks_first ==
  /\ status' = [status EXCEPT ![Record] = "processed"]
  /\ IF note_exists(Record) THEN Goes("mark") ELSE Goes("index")

process_record ==
  /\ UNCHANGED status
  /\ IF note_exists(Record) THEN Goes("mark") ELSE Goes("index")

begin_record ==
  /\ running.pc = "record"
  /\ indexed
  /\ process_record
  /\ UNCHANGED <<backend, sensitive, log, readable, key, handler, acked, events, excused,
                 queued, done, inflight, drainer, note, indexed, enrichment>>

(* The markdown of the day, then the index: what a crash in between leaves  *)
(* is written again.                                                        *)
save_note ==
  /\ running.pc = "index"
  /\ note' = [note EXCEPT ![Record].status = "provisional"]
  /\ Goes("mark")
  /\ NoIntake
  /\ UNCHANGED <<events, excused, queued, done, inflight, drainer, indexed, enrichment>>

mark_processed ==
  /\ running.pc = "mark"
  /\ status' = IF Record \in Logged THEN [status EXCEPT ![Record] = "processed"] ELSE status
  /\ NextRecord
  /\ UNCHANGED <<backend, sensitive, log, readable, key, handler, acked, events, excused,
                 queued, inflight, drainer, note, indexed, enrichment>>

(* The index cannot be parsed, or anything else raises.                     *)
record_raises ==
  /\ \/ running.pc = "record" /\ ~indexed /\ UNCHANGED events
     \/ running.pc \in {"index", "mark"} /\ Event
  /\ NextRecord
  /\ NoIntake /\ UNCHANGED <<excused, queued, inflight, drainer, note, indexed, enrichment>>

(* The message of a task that failed stays in flight.                       *)
on_finished_only_on_success(t) == {m \in Message \cap {t} : note_exists(m)}

on_finished(t) == {t}
submit_enrichment(m) ==
  IF enrichment.pc = "free" THEN enrichment' = [pc |-> "queued", message |-> m]
  ELSE UNCHANGED enrichment

(* finally.  The notice that the note is archived may raise before          *)
(* enrichment is asked for (module Delivery).                               *)
finish_task(t) ==
  /\ t \in done
  /\ done' = done \ {t}
  /\ inflight' = inflight \ on_finished(t)
  /\ \/ t \in Message /\ note_exists(t) /\ submit_enrichment(t)
     \/ UNCHANGED enrichment
  /\ NoIntake /\ UNCHANGED <<events, excused, queued, running, drainer, note, indexed>>
-----------------------------------------------------------------------------
(* The drainers.                                                            *)

FirstOf(seq, n) == SubSeq(seq, 1, IF Len(seq) < n THEN Len(seq) ELSE n)

(* drain_once reads what is pending ...                                     *)
load_pending_records ==
  /\ backend = "local"
  /\ drainer = <<>>
  /\ lock_free
  /\ readable
  /\ pending_records # <<>>
  /\ drainer' = FirstOf(pending_records, PENDING_DRAIN_BATCH_SIZE)
  /\ NoIntake /\ UNCHANGED <<events, excused, executor, note, indexed, enrichment>>

(* ... and submits it, until the executor refuses.                          *)
drain_once ==
  LET m == Head(drainer)
  IN /\ drainer # <<>>
     /\ IF m \in inflight
        THEN drainer' = Tail(drainer) /\ UNCHANGED <<queued, inflight>>
        ELSE /\ submit_ingest(m)
             /\ drainer' = IF rejected(m) THEN <<>> ELSE Tail(drainer)
     /\ NoIntake /\ UNCHANGED <<events, excused, running, done, note, indexed, enrichment>>

list_pending_enrichments ==
  {m \in Message : /\ note[m].status \in {"provisional", "enriching", "failed"}
                   /\ note[m].attempts < ENRICHMENT_MAX_ATTEMPTS}

drain_enrichment(m) ==
  /\ indexed
  /\ m \in list_pending_enrichments
  /\ enrichment.pc = "free"
  /\ submit_enrichment(m)
  /\ NoIntake /\ UNCHANGED <<events, excused, executor, drainer, note, indexed>>
-----------------------------------------------------------------------------
(* enrich_note.  Each update_note_metadata writes the index again.          *)

(* The note is done, or its attempts are used up.                           *)
nothing_to_enrich(m) ==
  \/ note[m].status = "ready"
  \/ note[m].status \in {"failed", "enriching"} /\ note[m].attempts >= ENRICHMENT_MAX_ATTEMPTS

start_enrichment ==
  LET m == enrichment.message
      over == ~indexed \/ nothing_to_enrich(m)
  IN /\ enrichment.pc = "queued"
     /\ lock_free
     /\ enrichment' = IF over THEN NoEnrichment ELSE [enrichment EXCEPT !.pc = "enrich"]
     /\ note' = IF over THEN note ELSE [note EXCEPT ![m] =
                  [status |-> "enriching", attempts |-> @.attempts + 1]]
     /\ NoIntake /\ UNCHANGED <<events, excused, executor, drainer, indexed>>

(* Classified and embedded without the lock, which the result needs again.  *)
enrich_note(result) ==
  /\ enrichment.pc = "enrich"
  /\ lock_free
  /\ IF result = "failed" THEN Event ELSE UNCHANGED events
  /\ note' = [note EXCEPT ![enrichment.message].status = result]
  /\ enrichment' = NoEnrichment
  /\ NoIntake /\ UNCHANGED <<excused, executor, drainer, indexed>>
-----------------------------------------------------------------------------
(* The process dies and starts again.  A file that was being written may be *)
(* cut: of the log a prefix is left, or nothing that can be parsed.         *)
Rewriting == readable /\ running.pc = "mark"
Appending == readable /\ lock_free /\ \E h \in Handler : In(h, "append")
Indexing == indexed /\ (running.pc = "index" \/ (lock_free /\ enrichment.pc # "free"))

crash(left, parsed, index) ==
  /\ Event
  /\ backend = "local"
  /\ left = Len(log) \/ Rewriting
  /\ parsed = readable \/ (~parsed /\ (Rewriting \/ Appending))
  /\ index = indexed \/ (~index /\ Indexing)
  /\ log' = SubSeq(log, 1, left)
  /\ status' = [m \in Message |->
       CASE m \notin Elements(log') -> "none"
         [] m \in Elements(log') /\ left < Len(log) /\ m = Record -> "processed"
         [] OTHER -> status[m]]
  /\ readable' = parsed
  /\ indexed' = index
  /\ excused' = excused \cup (Logged \ Elements(log'))
                 \cup (IF indexed /\ ~index THEN {m \in Message : note_exists(m)} ELSE {})
  /\ handler' = [h \in Handler |-> Unhandled]
  /\ queued' = {} /\ done' = {} /\ running' = Nothing
  /\ inflight' = {}
  /\ drainer' = <<>>
  /\ enrichment' = NoEnrichment
  /\ UNCHANGED <<backend, sensitive, key, acked, note>>
-----------------------------------------------------------------------------
Run ==
  \/ \E t \in Task : run_task(t) \/ finish_task(t)
  \/ begin_record \/ save_note \/ mark_processed \/ record_raises
Drain == load_pending_records \/ drain_once
Enrich == start_enrichment \/ \E result \in {"ready", "failed"} : enrich_note(result)
Handle(h) == \/ /\ In(h, "append") => lock_free
                /\ Receive(h) /\ UNCHANGED <<runtime, note, indexed>>
             \/ submit_message(h)
DrainEnrichment == \E m \in Message : drain_enrichment(m)
Crash == \E left \in 0..Len(log), parsed, index \in BOOLEAN : crash(left, parsed, index)

Next ==
  \/ Run
  \/ Drain \/ Enrich \/ DrainEnrichment
  \/ \E h \in Handler : Handle(h)
  \/ (Deliver \/ IntakeFaults) /\ UNCHANGED <<runtime, note, indexed>>
  \/ \E q \in Query : submit_query(q)
  \/ Crash

Spec == Init /\ [][Next]_vars

(* Threads run, the drainers come round, Feishu delivers again.             *)
Fairness ==
  /\ WF_vars(Run)
  /\ WF_vars(\E h \in Handler : Handle(h))
  /\ WF_vars(Drain)
  /\ WF_vars(Enrich)
  /\ WF_vars(DrainEnrichment)
  /\ WF_vars(Deliver /\ UNCHANGED <<runtime, note, indexed>>)

FairSpec == Spec /\ Fairness
-----------------------------------------------------------------------------
(* A message Feishu delivers no more is kept: it is in the log, or still    *)
(* handled, and what the log calls processed is a note.  Exceptions: the    *)
(* handler raised and the exception was swallowed, the receiver died with   *)
(* the idempotency key taken, a crash cut the file.                         *)
NothingLost ==
  \A m \in Message \ excused :
    /\ m \in acked => m \in Logged \/ Handling(m) # {}
    /\ status[m] = "processed" => note_exists(m)

Enriched(m) == note[m].status = "ready" \/ note[m].attempts = ENRICHMENT_MAX_ATTEMPTS

(* Every message is kept in the end, and what the local log keeps becomes a *)
(* note whose enrichment ends, however full the executor was and whatever   *)
(* failed or crashed on the way; with the same exceptions, and unless a     *)
(* crash left a file that cannot be parsed.                                 *)
EventuallyArchived ==
  <>[](readable /\ indexed =>
         \A m \in Message \ excused :
           /\ m \in Logged
           /\ backend = "local" /\ m \notin sensitive => status[m] = "processed" /\ Enriched(m))
=============================================================================
