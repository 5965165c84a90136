# Suixinji: TLA+ verification of the runtime and the memory

Suixinji is a note-taking assistant behind a Feishu bot. A message becomes a
note, facts and memories are extracted from the note by LLM calls, questions
are answered from both, and summaries are sent on a schedule. In its
distributed mode (`TASK_QUEUE_BACKEND=redis_streams`) several processes share
PostgreSQL and Redis: the bot or API receives, a relay publishes, stream
workers execute, a scheduler sweeps. In its local mode one process does all of
it, with files and a bounded thread pool. This project models the parts of the
two where order, failure and concurrency decide whether a message is kept,
processed and remembered as promised, checks them with TLC on small instances
and proves every safety property of these checks with TLAPS for all instances.

`PROJECT.json` maps every definition to the lines it models, and lists runs,
mutants, findings, hazards and theorems. Paths below are relative to `src/`.

## 1. Inventory

| Component | State | Operations | Hard behaviour |
| --- | --- | --- | --- |
| Task rows and leases (`repositories/postgres/tasks.py`) | `tasks`, `task_attempts` | claim, renew, complete, fail, defer, sweep of due retries, cancel | leases that run out under a live worker, late results, clock skew between hosts |
| Space dispatch (`repositories/postgres/dispatch.py`, the completion statement of `tasks.py`) | `inbox_messages`, `spaces` (watermarks) | receive, stage completion, failure, skip, recovery | a statement whose snapshot is older than the lock it waits for |
| Outbox and relay (`outbox.py`, `apps/outbox_relay.py`) | `outbox_events` | claim batch, publish, mark published or failed | crash between XADD and the mark, attempts used up |
| Redis stream client (`runtime/streams/client.py`) | stream, consumer group, dead-letter stream | XADD, XREADGROUP, XAUTOCLAIM, XACK | duplicates, reclaim from a live consumer |
| Worker loop (`runtime/streams/worker.py`) | the message in hand, heartbeat thread | `_handle`: claim, run, settle, acknowledge | database commit and XACK are two steps |
| Delivery (`delivery.py`, `handle_delivery`) | `deliveries`, `delivery_attempts` | reserve, send, mark, recover | an external send that cannot be rolled back |
| Summary reconciliation (`summary/reconciliation.py`) | the subscription's `last_sent_date` | read the delivery, then mark | check in one transaction, act in another |
| Distributed lock (`infrastructure/redis_lock.py`) | Redis key, advisory lock, renewal thread | acquire, renew, release, fallback | TTL under a live holder, two locks for one key |
| Bot entry (`bot/feishu_bot.py`) | the event in hand | store or refuse a text, submit it | exceptions are swallowed, the event counts as delivered |
| Receiver (`apps/receiver.py`, `redis_idempotency.py`) | idempotency key with TTL | get, begin, complete, fail | a crash leaves `processing` behind |
| Local runtime (`runtime/executor.py`, `core/wal.py`, `core/worker.py`, drainers) | log and index files, slots, messages in flight | append, submit, process, drain, enrich, restart | a full executor, a crash that cuts a file |
| Memory writes (`memory/service.py`, `consolidator.py`, `repositories/postgres/memory.py`) | extraction states, candidates, decisions, memories | extract, decide, apply, review, sweep | a decision made on a snapshot by one of several workers |
| Fact memory (`memory/fact_memory.py`) | facts, cards, questions, tombstones, lease | ingest, consolidate, review, answer, forget | a plan made by an LLM while its facts and cards change |
| Preference and task cards, semantic profile (`memory/*`) | card contents, jobs, derived texts | commit, maintain, project | contents decided by an LLM |
| LLM key pool, rate limits, caches, sessions | counters, TTL keys | acquire, release, expire | limits under concurrency |
| Storage, console, agents, evaluation | files, HTTP views, prompts | | mostly I/O and text |

How they interact. `receive_command` writes the inbox row, the root task and its
outbox event in one transaction. The relay moves events to the stream of the
task's type. A worker that reads a message claims the task row, runs the handler
and settles the row; the completion also advances the watermarks of the space
and inserts events of the tasks this releases. A handler enqueues further tasks
(memory extraction, delivery) in transactions of its own. Everything is joined
by shared tables, except stream messages, which only carry a task id: the row
decides whether the message still means anything.

What makes each part correct:

* lease: one owner, no late result counts, attempts tell the truth, the failure
  budget is exact;
* dispatch: watermarks never pass open work, no message runs before what it
  depends on, and none stays blocked for ever;
* pipeline: no request is lost, a duplicate changes nothing, every task is
  settled in the end;
* delivery: sends are bounded, decided rows stay decided, the subscription
  follows the delivery;
* lock: one process inside, nobody frees another's lock, every wait ends;
* intake and local runtime: what was acknowledged is kept, what is kept becomes
  a note, the executor takes no more than it has room for;
* memory writes: a candidate acts once and only on a memory as it was when it
  was decided, a note said to be done is done, and every note that the sweep
  reaches is done in the end;
* fact memory: what is derived rests on facts that stand, forgotten evidence
  does not come back, what the user edited stays the user's.

## 2. Modules

| Module | Models | Uses |
| --- | --- | --- |
| `TaskQueue` | what the task queue promises, without rows and leases | |
| `TaskLease` | task rows, attempts, leases | implements `TaskQueue` |
| `TaskLeaseProofs` | theorems about `TaskLease`, among them that it implements `TaskQueue` | `TaskLease` |
| `SpaceDispatch` | inbox, watermarks, release order of one space | lease abstracted |
| `SpaceDispatchProofs` | theorems about `SpaceDispatch` | `SpaceDispatch` |
| `TaskPipeline` | outbox, relay, stream, group, worker loop | extends `TaskLease` and implements it |
| `TaskPipelineProofs` | theorems about `TaskPipeline`, among them that it implements `TaskLease` | `TaskPipeline`, `TaskLeaseProofs` |
| `Delivery` | one outgoing summary, its task, the reconciliation | lease abstracted |
| `DeliveryProofs` | theorems about `Delivery` | `Delivery` |
| `CoordinatedLock` | the Redis lock and the PostgreSQL fallback | |
| `CoordinatedLockProofs` | theorems about `CoordinatedLock` | `CoordinatedLock` |
| `Intake` | a message enters, with either backend | |
| `LocalRuntime` | executor, log, index, drainers and enrichment of one process | extends `Intake` |
| `LocalRuntimeProofs` | theorems about `LocalRuntime` and `Intake` | `LocalRuntime` |
| `MemoryWrite` | from a note to long-term memories | lock abstracted |
| `MemoryWriteProofs` | theorems about `MemoryWrite` | `MemoryWrite` |
| `FactMemory` | facts, cards and questions of one space | |
| `FactMemoryProofs` | theorems about `FactMemory` | `FactMemory` |
| `MC*` | instances for TLC | |

An operator named as a sentence about a defect (`ClaimableSettled`,
`claim_task_leaving_attempt`, ...) and placed before the definition it resembles
is a mutant: no specification uses it, and substituting it must break the
property listed with it in `PROJECT.json`.

### TaskLease

`task[t]` is the row of `tasks` without payload and error texts; `attempt[t][n]`
the status of the row of `task_attempts` numbered n; `held[w]` what a handler
thread remembers of its claim (task, token, claim version), and what its calls
to renew, complete, fail and defer pass as fencing. Each function of `tasks.py`
is one `session_scope` and therefore one action. A uuid4 is a fresh number.
`activate_task` and `cancel_root_task` stand for the callers in `dispatch.py`
that change a task row and are free to happen at any time here; `SpaceDispatch`
says when they do.

Time is kept as the outcome of a comparison: `lease_expires_at` and
`next_retry_at` are null, past or future, and an instant may pass at any step.
The code compares with a `now` of the caller's host, taken before it waits for
the row lock; whatever that clock says is some moment at which the instant
passes, so every skew is covered.

### SpaceDispatch

One space. `inbox[s]` is the row with sequence number s, `task[<<"root", s>>]`
and `task[<<"memory", s>>]` the statuses of its tasks. "queued" stands for queued
and retry, which differ for the lease only. `receive_command`, `fail_task` and
`skip_inbox_record` lock the row of the space before they read it and are one
step. The success path `_complete_task_with_inbox_outcome` is one READ COMMITTED
statement that fixes its snapshot first and then waits for
`pg_advisory_xact_lock`: `begin_complete` takes the snapshot, `end_complete`
applies it. Rows the statement updates are re-read by PostgreSQL and so are
current; the progress it computes is of the snapshot. `recover_skipped_ingress`
is a selection and later one transaction per selected row. `metadata_json`, time
stamps and texts are left out, `memory_gap_sequence_no` and
`processed_sequence_no` are kept.

### TaskPipeline

Extends `TaskLease` with the outbox row of the n-th request of a task, the
relay's claims, the undelivered entries of the stream, the pending entries of
the group and each worker's place in `_handle`. Every step on the database is
the action of `TaskLease`, conjoined with what happens to the message. A batch
of several events or messages behaves as several relays or workers with one
each. Idle times are not kept: XAUTOCLAIM may find any pending message idle, and
taking it from a live worker is a fault.

### Delivery

One row of `deliveries` for an automatic summary, its task (owner, status,
failures), two workers inside `handle_delivery`, and the scheduler's
reconciliation in its two transactions. Other kinds of deliveries take a subset
of these steps. The task is the abstraction of `TaskLease`: one owner at most,
others run on and their results are stale. `FAKE_EXTERNALS`, a switch for load
tests, is left out.

### CoordinatedLock

One key. `mode` is chosen at the start and says how the key is used: critical
(falls back to the advisory lock), optional (gives up), or leader (the bare lock
of `apps/scheduler.py`, which nobody renews). The in-process `RLock` of the
local backend is left out; it is used only without Redis.

### TaskQueue

The abstract specification of the queue: a task is blocked, open, executing or
settled, at most one worker's result counts, `MaxFailures` failures end it.
`TaskLease` implements it (`ImplementsQueue`): queued and retry are open; the
owner is the worker whose remembered token and version are those of a running
row; a lease that runs out changes nothing until someone else claims. Since
`TaskPipeline` implements `TaskLease`, the refinements form a chain from the
worker loop to the promise.

### Intake and LocalRuntime

`Intake` is `handle_text_message` up to the point where the message is stored.
`log` is the write-ahead log of a space or, with `redis_streams`, its inbox
table. Feishu delivers until the event handler returns, and that handler
swallows exceptions. A message whose text looks sensitive is stored without it.

`LocalRuntime` follows the message in the local mode. A task is `queued`,
`running` (it holds the lock of the space and goes through `process_record` for
its records) or `done` (out of the space, slot and in-flight key not yet given
back). A question is a task too, because `process_pending` first processes what
is pending. The log and the index are files that are truncated and rewritten: a
crash leaves all of a file, a prefix, or something that does not parse. Threads
that wait for the lock are still `queued`; the enrichment pool has one slot. Not
in the model: the summary task, the second block that a retry after a crash
writes into the day's markdown file, several spaces, and the shutdown of the
executor.

`excused` keeps the messages that were lost in one of the three ways the code
does not guard against, so that `NothingLost` can say that there is no fourth:
the event handler swallowed an exception before the message was stored
(`feishu_bot.py:1048`), a receiver died with the idempotency key taken
(`receiver.py:61`), a crash cut a file. The last one stands against
`docs/PROJECT_ARCHITECTURE.md:85`, which calls the update of the notes and their
index atomic ("原子更新"): the code holds the lock of the space, but truncates the
file and writes it anew.

### MemoryWrite

One note and the candidates that can be extracted from it. Several workers are in
`_process_note_memory_impl` at once: a task, its retry, the daily sweep. A step
is a transaction; `apply_memory_decision` is two, as it reads the prior decision
under its advisory lock before it locks the row of the target. What the LLM
extracts and decides is any choice among those that the code lets through.
`seen` stands for version numbers, which are only compared with the one a worker
read. `outrun` does not exist in the code: it keeps the workers whose target was
changed by anyone (another worker, a correction, a resolution, a weekly run) since
they decided, so that `MutatesLiveTargets` can say that a write finds its target
unchanged, and not merely active. Superseded, conflicted, archived, expired and deleted memories are one
status, "retired". The lock of a memory key is `CoordinatedLock` reduced to what
it guarantees: a holder that may lose it (`lock_lost`, `lock_expires`).

The daily sweep, `process_unextracted_notes`, does not look at every note: it goes
through the first 100 of `load_index`, oldest first (`consolidator.py:497`; the
scheduler passes no other limit, `scheduler.py:67`), and skips a note that is not
queryable (`:498`). `sweep.reaches` says whether the note is one of those, is
either way at the start, and changes when the index does (`index_changes`). A
sweep that does not reach the note returns without touching it.
Candidates of preference and task cards and the monthly consolidation are left
out.

### FactMemory

One space. A transaction of the store holds the advisory lock of the space and is
one step, except `apply_plan`: its plan has any number of actions, each a step on
the copy `tx`, between which nobody else moves. A fact is a source, a revision of
its text and a statement, which stands for evidence span, type and content: the
code's fact id is made of these (`fact_memory.py:161`). Extraction finds any
subset of the facts of a revision. A tombstone is a source and a forgotten
statement, and it keeps out a fact of that source whose span contains the
forgotten one or is contained in it (`:167-169`), the relation `Overlap`. It keeps
out nothing else: a reworded or partly overlapping span, and any other fact of
the note, becomes active (`docs/fact-memory-consolidation.md:104` speaks of the
other facts that remain). Versions of cards are again `seen`.
The links between cards, freshness, scopes and owners are data that no guard
here depends on. `overwritten` keeps the facts whose row `ingest_candidate`
replaced by a copy that was out of date (`fact_memory.py:224`): the properties
say what holds apart from them.

## 3. Runs

| Run | Checks | Result |
| --- | --- | --- |
| `lease` | `TypeOK`, `AttemptLedger`, `FailureBudget`, `SingleOwner`, `SettledForGood`, `AttemptsWriteOnce`, `ImplementsQueue` | hold |
| `dispatch` | `TypeOK`, `WatermarkSound`, `NoOvertake`, `WatermarkExact`, `OnlyKnownStrandings` | hold |
| `dispatch_release` | `CompletionReleasesNext` | violated |
| `pipeline` | `PipelineTypeOK`, `OnlyKnownLosses`, `DuplicatesAreFaults`, `ImplementsLease`, `EventuallySettled` | hold |
| `pipeline_reclaim` | `TimedOutIsReclaimable` | violated |
| `delivery` | `TypeOK`, `AtMostMaxSends`, `SendersExclusive`, `DecidedForGood`, `SentSummaryRecorded`, `DeliveryEnds` | hold |
| `delivery_resend` | `SentNeverResent` | violated |
| `lock` | `TypeOK`, `OverlapIsDegraded`, `KeyIsOwn`, `WaitEnds` | hold |
| `lock_overlap` | `MutualExclusion` | violated |
| `facts` | `TypeOK`, `DerivedRestsOnActiveFacts`, `ForgottenStaysForgotten`, `EditedEvidenceExclusive`, `OneConsumer` | hold |
| `memory_write` | `TypeOK`, `AppliedOnce`, `CompletedMeansSettled`, `MutatesLiveTargets`, `ExtractionSettles` | hold |
| `local_runtime` | `TypeOK`, `NothingLost`, `EventuallyArchived` | hold |

The four violations are disagreements between the code and what its documents
or tests say:

* **Completion with an old snapshot.** A completion statement starts, waits for
  the advisory lock behind `receive_command`, and does not see the message that
  commits meanwhile as blocked. Nothing releases that message until another
  completion of the space runs. `OnlyKnownStrandings` shows that, apart from an
  ingest whose note stage stays open for good (its memory task finished the row
  and the ingest was dead-lettered after that), this is the only way to strand a
  message.
* **Acknowledged under another worker.** `fail_task` commits the retry, another
  worker reclaims the message and takes the due retry row, the first worker's
  XACK removes the message. If the second worker dies, the row is running with
  an expired lease and nothing carries it. `OnlyKnownLosses` shows that this and
  a dead outbox event are the only ways to lose a request.
* **Sent, then sent again.** The reconciliation reads an expired reservation, the
  slow sender marks the row sent, the reconciliation writes failed, and the next
  attempt sends again.
* **Two locks for one key.** A critical lock whose wait times out (5 s) is taken
  through PostgreSQL, beside the process that holds it through Redis. No fault
  is needed, only a body longer than the wait. `OverlapIsDegraded` shows that
  within one of the two locks exclusion holds unless the lock itself is lost.

A fifth disagreement shows in the premise of `ExtractionSettles`, without which it
is false. `docs/design/DESIGN.md:128` says that the daily consolidation retries
what failed or is partial, and `:133` that it takes up the notes of the past that
were not extracted. In a space of more than 100 notes it never looks at a newer
one, so a note whose memory task failed for good stays failed. A note within reach
does settle.

Bounds, and why they are enough:

* `lease`: a root and a dependent, two workers, two failures, three claims. A
  stale worker needs one other worker; three claims give expiry, failure and
  deferral in every order. The workers are symmetric.
* `dispatch`: eight sequences of kinds, of three or four messages. Watermark
  errors need a message in progress, one before and one after; the sequence of
  four has a memory query between ingests. The kinds are fixed per sequence to
  keep overlapping completions within reach. `dispatch_release` stops at three.
* `pipeline`: one task, two workers, two faults, two attempts to publish, one
  deferral, four claims. Tasks share nothing in the pipeline except capacity.
  `MaxAttempts` is 1 here, so a retry comes from a deferral; the retry after a
  failure is followed by `lease` and by `pipeline_reclaim`, with 2.
* `delivery`: the budgets of `core/settings.py` (3 sends, 5 failures), two
  workers, three faults: enough to use up all sends by crashes.
* `lock`: three processes (a holder, a waiter, a late releaser), four
  acquisitions, two faults, all three modes. `lock_overlap` has no fault.
* `facts`: one note with two facts in its first revision, one of them with a
  card, and a third in its second revision, whose span contains that of one of
  the two; the answer to a question; three cards, two runs, two workers, four
  events. An event is a note or a run begun, an action of a plan or a command; a
  lease expires at no cost. Four allow a run that acts, a takeover, and a user's
  command between them, and a note brought in late around a forgetting. Both
  cases of the tombstone occur, the fact it keeps out and the one it lets in. The
  batch is one fact, so that a run leaves others waiting.
* `memory_write`: one candidate, two workers, a known memory under another key and
  room for two more, two events (tasks, commands, faults) besides the sweeps of
  the scheduler, which are free. Two events give a crash and a command, a lost
  lock and a retry, two commands. The sweep reaches the note or not at the start,
  and a change of the index is an event.
* `local_runtime`: two messages of which one may be sensitive, one question, two
  slots, a batch of one, two attempts to enrich, two handlers with
  `redis_streams`, two events (duplicates, exceptions, questions, crashes). Two
  tasks fill the executor, so the third is refused.

Deadlock is checked in `memory_write`, whose scheduler never rests. Every other
model bounds its messages, claims or acquisitions, and the system rests when they
are used up. That nobody waits for ever is the subject of `EventuallySettled`,
`DeliveryEnds`, `WaitEnds`, `ExtractionSettles` and `EventuallyArchived`.

Fairness. `TaskLease`, `SpaceDispatch` and `FactMemory` have none. In `TaskPipeline` the relay
and every worker loop for ever (`run_forever`), a handler returns or raises, and
instants pass: weak fairness of each. Reclaiming is fair because a worker looks
at pending entries whenever it read nothing new, and the one task of the run
cannot keep the stream full. In `Delivery` a handler goes on, a claimable task
is claimed and the scheduler ticks. In `CoordinatedLock` a wait has a deadline,
a body ends and a key without renewal expires, all weakly fair; the advisory
lock is strongly fair, because PostgreSQL queues its waiters. In `MemoryWrite`
threads run, the scheduler ticks, days pass and leases end, and
`ExtractionSettles` has for its premise that from some time on the sweep reaches
the note (`<>[]sweep.reaches`); in `LocalRuntime`
threads run, both drainers loop and Feishu repeats what was not acknowledged:
weak fairness of each. Faults and commands are never fair and are bounded by
`MaxFaults` or `MaxEvents`: liveness is claimed for executions whose faults end. Nothing is assumed of the heartbeat.

## 4. Proofs

Every invariant and every action property of the passing runs is a theorem,
for every value of the constants that the assumption named with each module
admits. Each proof has one shape: an inductive invariant `IInv`, a lemma that
`Init` establishes it, lemmas that each action keeps it, and the property from
it. `IInv` was checked by TLC on the instance of the run before it was proved.

### TaskLeaseProofs

For any sets of tasks and workers, any parent relation and any budgets
(`LeaseAssumption`).

* `LeaseInvariant` with `IInv == TypeOK /\ AttemptLedger /\ TokensInUse`;
  `TypeCorrect`, `LedgerKept`, `LeaseExclusive` (`SingleOwner`),
  `SettledTasksStay` (`SettledForGood`), `ResultsStay` (`AttemptsWriteOnce`).
  Two workers hold the claim of one row only if they remember the same token;
  that they never do needs that a token is given to one worker and none above
  `lastToken` is in use (`TokensInUse`). `AttemptLedger` ties the status of the
  row to that of its last attempt, so that a step which closes an attempt closes
  the one that is running. Lemmas about rows that keep their attempts
  (`QuietRow`) and rows whose attempt is closed (`ClosedRow`) carry the steps.
* `LeaseImplementsQueue` (`ImplementsQueue`): each action is the operation of
  the queue named after it or leaves the queue as it is (a renewal, a sweep, an
  instant). A claim makes its worker the only owner because its token is new; a
  result that counts comes from the only owner. `BudgetExact` makes the
  comparison `failures >= max_attempts` of `fail_task` the equality of the queue.
* `PromiseKept`: what clients of the queue rely on holds of the tables.
* `BudgetKept` (`FailureBudget`): the counters of a row are the numbers of
  attempts with those results. `TallyExact` says so, and is kept because the
  attempt a step closes was running and therefore in no count before.

### TaskPipelineProofs

For any finite set of tasks and any budgets (`PipelineAssumption`; the
requests in the outbox are counted, so they have to be finite).

* `PipelineImplementsLease` (`ImplementsLease`): a step of relay, stream, sweep
  or worker loop is the lease step it contains or changes no row.
  `PipelineKeepsLease` draws the consequence: one owner, the failure budget,
  settled tasks that stay settled, and the abstract queue, all of the worker loop.
* `PipelineInvariant` with `IInv /\ PipeInv`; `PipelineTypes`, `OnlyKnownWays`
  (`OnlyKnownLosses`), `NoFreeDuplicates` (`DuplicatesAreFaults`). For
  duplicates, `PaidFor` is the invariant: messages so far, events a relay may
  still claim and claims not settled are together no more than requests and
  faults. A relay that crashes and a live claim whose lease runs out make an
  event claimable again, and each costs a fault. For losses, `DeliveredReaches`: if
  the last request of a waiting task was added to the stream, a message of it
  is there that no worker is about to acknowledge, unless the retry row was
  taken through another message. It needs that ids grow along the stream
  (`IdsGrow`) and name one task (`IdsAgree`).

### SpaceDispatchProofs

For any bound on the messages, of any kinds in any order
(`DispatchAssumption`).

* `DispatchInvariant`, `DispatchTypes`, `WatermarksSound` (`WatermarkSound`),
  `WatermarksExact` (`WatermarkExact`), `MessagesInOrder` (`NoOvertake`),
  `NoOtherStrandings` (`OnlyKnownStrandings`).
* A completion writes watermarks it computed from an old snapshot. That this is
  sound is `Snapshots`: the snapshot was a sound state of the space, and since
  then messages have only been added and stages only finished (`Later`). What a
  watermark passed in the snapshot is finished now.
* `RowOK` says what the stages of a message have to do with its tasks: an open
  note stage has an ingest that will close it, or one that died after its memory
  task had finished the row. That disjunct is `OpenForGood`, and it cannot be
  dropped.
* While nothing overlapped, the watermarks stop only before an open stage
  (`ExactFor`) and no blocked message is reached by them (`Unreached`). Behind
  settled predecessors every stage is closed, hence the watermark is past them,
  hence the message is not blocked. `AdvanceStops` and `ProgressIsExact` are the
  facts about the completion statement; both rest on the least open stage
  (`LeastElement`).

### DeliveryProofs

For any finite set of workers and any budgets (`DeliveryAssumption`).

* `DeliveryInvariant`, `DeliveryTypes`, `SendBudget` (`AtMostMaxSends`),
  `OneSender` (`SendersExclusive`), `DecidedStays` (`DecidedForGood`),
  `RecordedAfterSent`.
* `SendsCounted`: sends made and workers about to send are together no more than
  `attempt_count` of the row, since each reservation counts before it sends. The
  budget is checked at the reservation, so it bounds the sends.
* `ReservationHeld`: unless a reservation was lost under its sender, one worker
  is between reservation and mark, and the row is its reservation.
* `RecordedAfterSent` is the safety half of `SentSummaryRecorded`.

### CoordinatedLockProofs

For any number of processes, acquisitions and faults (`LockAssumption`).

* `LockInvariant` with `IInv == TypeOK /\ TokensDiffer /\ LocksHeld`: a process
  inside that did not lose its lock has its token in the key or the advisory
  lock on its connection, and no two lock objects share a token. `LockTypes`;
  `OverlapOnlyDegraded` (`OverlapIsDegraded`), since the key and the advisory
  lock each name one process; `KeyStaysOwn` (`KeyIsOwn`), since release compares
  tokens.

### LocalRuntimeProofs

For any messages, questions, handlers and slots (`IntakeAssumption`,
`RuntimeAssumption`).

* `RuntimeInvariant`, `RuntimeTypes`, `MessagesKept` (`NothingLost`). `TypeOK`
  says as well that the executor holds no more tasks than it has slots, and that
  `inflight` is exactly the messages it holds: a record the executor
  refuses as in flight is one it has.
* An acknowledgement may rest on another handler's key. `Entries` therefore
  covers every key that answers a later delivery, and says that its message is
  in the log, excused, or with a receiver that took the key. `Notes` and `Runs`
  say the same of a record on its way into the index.

### MemoryWriteProofs

For any candidates and keys, and finite sets of workers and memories
(`WriteAssumption`; ids are counted).

* `MemoryInvariant`, `MemoryTypes`, `CandidatesActOnce` (`AppliedOnce`),
  `CompletedNotesSettled` (`CompletedMeansSettled`), `WritesLiveTargets`
  (`MutatesLiveTargets`).
* The check for an earlier decision and the write are two transactions.
  `LockHeld` and `FirstWrite` say that the lock of the key covers both: whoever
  is about to write is the first, unless the lock was lost or the user rejected
  the candidate meanwhile. `ActedOnRecord` ties the effects to the records.
* `Progress` follows one call: what it took up without an error is settled. It
  is what makes a completed note settled.
* `SeenIsActive`: whoever still has the current version of a memory has seen it
  active, because every change of status changes the version. That the
  comparison of versions at the write suffices follows from it.
* `CopiesCurrent`: a worker whose target was changed since it decided does not
  have its current version. A write that passes the comparison is therefore made
  by nobody in `outrun`, and its target is as it was at the decision.

### FactMemoryProofs

For any notes, questions, runs, workers and batch size (`FactAssumption`).

* `FactInvariant`, `FactTypes`, `EvidenceStands` (`DerivedRestsOnActiveFacts`),
  `ForgettingIsFinal` (`ForgottenStaysForgotten`), `CorrectionsHold`
  (`EditedEvidenceExclusive`), `ConsumedOnce` (`OneConsumer`).
* `Rests` and `Edits` speak of committed rows and of the uncommitted work of
  `apply_plan` alike, so that the commit keeps them. `PlanStep` shows them for
  every action of a plan at once, from the effect of an action on one card
  (`CardEffect`) and one question (`QuestionEffect`).
* `LocksKept`: a plan neither takes nor gives a lock of the user. `BatchWaits`:
  the run with the lease has its batch to itself, so a run that commits consumes
  facts that still wait.
* `ForgettingIsFinal` is an invariant and a statement about steps. The invariant,
  `ForgottenGone`, needs `OneRevision`: the active facts of a source are of one
  revision. For the steps, `ComesBack` shows that only `ingest_fact` and the copy
  of `ingest_candidate` make a fact active; the first tests the tombstones, and
  the second is what `overwritten` names.

### What is only model-checked

* Liveness and everything under fairness, with ENABLED in it, which the prover
  does not have: `EventuallySettled`, `SentSummaryRecorded` (its safety half is
  proved), `DeliveryEnds`, `WaitEnds`, `ExtractionSettles`, `EventuallyArchived`.
* The four violations, each shown by one trace.

Induction over data is out of the prover's reach, so no model computes by
recursion what a theorem speaks of. `pending_records` of `LocalRuntime` numbers
the open records of the log by counting instead of filtering the sequence, and
the proofs use the library's theorems on finite sets and the well-foundedness
of `<` on the naturals.

## 5. Plan

Done: the lease and the queue it implements, dispatch, pipeline, delivery, lock,
intake with the local runtime, memory writes, fact memory, all with their
proofs. Next, in this order:

1. Preference cards: the commit of several cards with optimistic versions, the
   generations of card jobs, the review outbox.
2. The lanes of `AdaptiveStreamWorker` with a second task that keeps a stream
   full, and the dead-letter stream after a crash.
3. The order of row locks and advisory locks in `fail_task` and the completion.

## 6. Not modelled

The map covers the code that changes shared state. Most of the repository does
not: two fifths of its lines are evaluation suites (`eval/`) and scripts, and
much of the rest is prompts, LLM plumbing, retrieval and ranking, console pages
and text formatting. A model of those would be a list of
arbitrary choices, and the properties would say nothing about the code.

* LLM clients, prompts, agents, embedding, search and ranking: results of models.
  Where their choice drives a modelled component (extraction, decisions, plans),
  it is any choice the code's validation lets through.
* `memory/repository.py`: the SQLite twin of `repositories/postgres/memory.py`,
  for the local mode, where one process and one lock leave no interleaving that
  `MemoryWrite` does not have.
* Preference and task cards: their contents and plans are LLM output; the
  versioned commit is planned above. The semantic profile is a derived text.
* The JSON delivery store of the local mode: `Delivery` has its protocol.
* Storage of markdown and vectors, console, evaluation, scripts: I/O, views and
  measurement.
* Session pools, overload control, rate limits, caches, the LLM key pool: they
  delay or refuse work, which every interleaving here allows already.
* `create_task` and `update_task_status` of `tasks.py`: without a caller in the
  distributed runtime.
* Trimming of streams by MAXLEN: listed as a hazard, beyond the bounds.
