---------------------------- MODULE MemoryWrite ----------------------------
(***************************************************************************)
(* From one note to long-term memories: _process_note_memory_impl of       *)
(* memory/service.py extracts candidates, consolidate_candidate decides    *)
(* what each does to the memories there are, apply_memory_decision of      *)
(* repositories/postgres/memory.py does it.  Tasks, their retries and the  *)
(* daily sweep of memory/scheduler.py all run it, in several workers at    *)
(* once, while the user reviews, corrects and forgets.                     *)
(*                                                                         *)
(* A step is a transaction.  apply_memory_decision is two: the prior       *)
(* decision is read under an advisory lock on the key the memory will      *)
(* have; from the lock on the target's row on it is one step.  A memory's  *)
(* version is only compared with the version a worker read, and it grows   *)
(* with every _versioned_update: `seen` is the set of the workers whose    *)
(* copy is current.  Superseded, conflicted, archived, expired and deleted  *)
(* memories are treated alike by all of this code: they are "retired".     *)
(***************************************************************************)
EXTENDS Naturals, FiniteSets

CONSTANTS
  Worker,         \* threads that process the note
  Candidate,      \* what can be extracted from the note
  Key,            \* identities of memories (effective_memory_key)
  KeyOf,          \* KeyOf[c]: the key of candidate c
  Memory,         \* memory ids, a bound on how many memories are ever made
  Known,          \* the memories of the space at the start
  KnownKey,       \* KnownKey[m]: their keys
  MaxEvents,      \* bound: tasks, user commands, weekly runs, faults
  None            \* no memory, no worker, no candidate

ASSUME WriteAssumption ==
  /\ KeyOf \in [Candidate -> Key]
  /\ Known \subseteq Memory
  /\ KnownKey \in [Known -> Key]
  /\ MaxEvents \in Nat
  /\ None \notin Memory \cup Worker \cup Candidate
  /\ "dead" \notin Worker
  /\ IsFiniteSet(Worker) /\ IsFiniteSet(Memory)

VARIABLES
  extraction,     \* the row of memory_extraction_state
  candidate,      \* candidate[c]: status of its row
  memory,         \* rows of memories
  pending,        \* pending[m]: the open decision whose result is m
  applied,        \* candidates with an applied decision
  keylock,        \* keylock[k]: holder of the coordinated lock of key k
  identity,       \* identity[k]: holder of the advisory lock of key k
  worker,         \* worker[w]: the call that w is in
  sweep,          \* the run of today's daily consolidation, and what it reaches
  editing,        \* the pending memory an edit command is about to approve
  events,         \* tasks, commands and faults so far
  effects,        \* history: effects[c]: decisions recorded for c, 2 for more
  settled,        \* history: candidates that were decided or discarded
  unlocked,       \* history: candidates processed after their lock was lost
  overtaken,      \* history: candidates rejected while a worker was on them
  outrun          \* history: workers whose target was changed since they decided

rows == <<extraction, candidate, memory, pending, applied>>
locks == <<keylock, identity>>
record == <<effects, settled, unlocked, overtaken>>
history == <<record, outrun>>
vars == <<rows, locks, worker, sweep, editing, events, history>>

Relation == {"merge", "supersede", "conflict", "ambiguous_match"}
Final == {"applied", "pending_review", "discarded"}
DECISION == [action: {"none", "discard", "insert", "add_source", "update", "supersede",
                      "pending_review"},
             relation: Relation \cup {"none"}, target: Memory \cup {None}]
MEMORY == [status: {"absent", "active", "pending_review", "retired", "purged"},
           key: Key \cup {None}, seen: SUBSET Worker]
WORKER == [pc: {"idle", "check", "begin", "extract", "next", "claim", "adjudicate", "apply",
                "write", "mark", "outer", "outer_mark", "sweep", "report", "weekly"},
           force: BOOLEAN, sweeping: BOOLEAN, raised: BOOLEAN,
           found: SUBSET Candidate, todo: SUBSET Candidate,
           results: BOOLEAN, errors: BOOLEAN,
           cand: Candidate \cup {None}, decision: DECISION, listed: SUBSET Memory]

NoDecision == [action |-> "none", relation |-> "none", target |-> None]
NoMemory == [status |-> "absent", key |-> None, seen |-> {}]
Resting == [pc |-> "idle", force |-> FALSE, sweeping |-> FALSE, raised |-> FALSE,
            found |-> {}, todo |-> {}, results |-> FALSE, errors |-> FALSE,
            cand |-> None, decision |-> NoDecision, listed |-> {}]

TypeOK ==
  /\ extraction \in [status: {"none", "processing", "completed", "empty", "partial", "failed"},
                     stale: BOOLEAN, found: SUBSET Candidate]
  /\ candidate \in [Candidate -> Final \cup {"absent", "extracted", "processing", "failed"}]
  /\ memory \in [Memory -> MEMORY]
  /\ pending \in [Memory -> [cand: Candidate \cup {None}, decision: DECISION]]
  /\ applied \subseteq Candidate
  /\ keylock \in [Key -> Worker \cup {None, "dead"}]
  /\ identity \in [Key -> Worker \cup {None}]
  /\ worker \in [Worker -> WORKER]
  /\ sweep \in [status: {"due", "running", "completed", "failed"}, owner: Worker \cup {None},
                reaches: BOOLEAN]
  /\ editing \in Memory \cup {None}
  /\ events \in 0..MaxEvents
  /\ effects \in [Candidate -> 0..2]
  /\ settled \subseteq Candidate
  /\ unlocked \subseteq Candidate
  /\ overtaken \subseteq Candidate
  /\ outrun \subseteq Worker

Open(m) == pending[m].cand # None
Closed == [cand |-> None, decision |-> NoDecision]

Init ==
  /\ extraction = [status |-> "none", stale |-> FALSE, found |-> {}]
  /\ candidate = [c \in Candidate |-> "absent"]
  /\ memory = [m \in Memory |-> IF m \in Known
                                 THEN [status |-> "active", key |-> KnownKey[m], seen |-> {}]
                                 ELSE NoMemory]
  /\ pending = [m \in Memory |-> Closed]
  /\ applied = {}
  /\ keylock = [k \in Key |-> None]
  /\ identity = [k \in Key |-> None]
  /\ worker = [w \in Worker |-> Resting]
  /\ sweep \in [status: {"due"}, owner: {None}, reaches: BOOLEAN]
  /\ editing = None
  /\ events = 0
  /\ effects = [c \in Candidate |-> 0]
  /\ settled = {}
  /\ unlocked = {}
  /\ overtaken = {}
  /\ outrun = {}

Event == events < MaxEvents /\ events' = events + 1
At(w, pc) == worker[w].pc = pc
Goes(w, pc) == worker' = [worker EXCEPT ![w].pc = pc]

Active == {m \in Memory : memory[m].status = "active"}
Existing == {m \in Memory : memory[m].status \notin {"absent", "purged"}}
Fresh == {m \in Memory : memory[m].status = "absent"}

(* The worker is done with the note; a sweep goes on with what is due.      *)
Returned(w, raised) ==
  worker' = [worker EXCEPT ![w] = IF @.sweeping
    THEN [Resting EXCEPT !.pc = "report", !.sweeping = TRUE, !.raised = raised]
    ELSE Resting]

(* _mark_extraction_state writes the row whoever wrote it last.             *)
Marked(status, found) == [status |-> status, stale |-> FALSE, found |-> found]

(* _versioned_update: the memories M take a status and a new version.       *)
Versioned(M, status) ==
  [m \in Memory |-> IF m \in M THEN [memory[m] EXCEPT !.status = status, !.seen = {}]
                    ELSE memory[m]]

(* Workers that decided on one of the memories M and did not write yet.     *)
DecidedOn(M) == {w \in Worker : worker[w].pc \in {"apply", "write"}
                                 /\ worker[w].decision.target \in M}
Outruns(M) == outrun' = outrun \cup DecidedOn(M)
-----------------------------------------------------------------------------
(* Extraction.                                                              *)

process_note_memory(w, force) ==
  /\ Event
  /\ At(w, "idle")
  /\ worker' = [worker EXCEPT ![w] = [Resting EXCEPT !.pc = "check", !.force = force]]
  /\ UNCHANGED <<rows, locks, sweep, editing, history>>

terminal_extraction_state(w) == extraction.status \in {"completed", "empty"} /\ ~worker[w].force

get_extraction_state(w) ==
  /\ At(w, "check")
  /\ IF terminal_extraction_state(w) THEN Returned(w, FALSE)
     ELSE worker' = [worker EXCEPT ![w].pc = "begin", ![w].force = FALSE]
  /\ UNCHANGED <<rows, locks, sweep, editing, events, history>>

mark_extraction_processing(w) ==
  /\ At(w, "begin")
  /\ extraction' = Marked("processing", {})
  /\ Goes(w, "extract")
  /\ UNCHANGED <<candidate, memory, pending, applied, locks, sweep, editing, events, history>>

(* The model finds E and the validator refuses V of them: rows that exist   *)
(* are kept, those of V are marked.                                         *)
extract_candidates(w, E, V) ==
  /\ At(w, "extract")
  /\ V \subseteq E
  /\ candidate' = [c \in Candidate |-> IF c \in V THEN "discarded"
                                       ELSE IF c \in E /\ candidate[c] = "absent"
                                       THEN "extracted" ELSE candidate[c]]
  /\ settled' = settled \cup V
  /\ worker' = [worker EXCEPT ![w].pc = "next", ![w].found = E \ V, ![w].todo = E \ V]
  /\ UNCHANGED <<extraction, memory, pending, applied, locks, sweep, editing, events,
                 effects, unlocked, overtaken, outrun>>

(* Extraction, or a write to the rows around it, raises.                    *)
raises(w) ==
  /\ Event
  /\ worker[w].pc \in {"check", "begin", "extract"}
  /\ Goes(w, "outer")
  /\ UNCHANGED <<rows, locks, sweep, editing, history>>

(* except: the state is read, and marked if it is nobody's result.          *)
outer_except(w) ==
  /\ At(w, "outer")
  /\ IF extraction.status \in {"none", "processing"} THEN Goes(w, "outer_mark")
                                                     ELSE Returned(w, TRUE)
  /\ UNCHANGED <<rows, locks, sweep, editing, events, history>>

mark_extraction_failed(w) ==
  /\ At(w, "outer_mark")
  /\ extraction' = Marked("failed", {})
  /\ Returned(w, TRUE)
  /\ UNCHANGED <<candidate, memory, pending, applied, locks, sweep, editing, events, history>>

(* The verdict on the note, once every candidate had its turn.              *)
Verdict(w) ==
  IF worker[w].found = {} THEN "empty"
  ELSE IF ~worker[w].errors THEN "completed"
  ELSE IF worker[w].results THEN "partial" ELSE "failed"

finish(w) ==
  /\ At(w, "next")
  /\ worker[w].todo = {}
  /\ extraction' = Marked(Verdict(w), IF Verdict(w) = "completed" THEN worker[w].found ELSE {})
  /\ Returned(w, Verdict(w) = "failed")
  /\ UNCHANGED <<candidate, memory, pending, applied, locks, sweep, editing, events, history>>
-----------------------------------------------------------------------------
(* One candidate.                                                           *)

(* A candidate somebody is working on counts as done.                       *)
idempotent_processing(c) == candidate[c] \in Final \cup {"processing"}

idempotent(c) == candidate[c] \in Final

get_memory_candidate_status(w, c) ==
  /\ At(w, "next")
  /\ c \in worker[w].todo
  /\ worker' = [worker EXCEPT ![w].todo = @ \ {c},
                  ![w].results = @ \/ idempotent(c),
                  ![w].cand = IF idempotent(c) THEN None ELSE c,
                  ![w].pc = IF idempotent(c) THEN "next" ELSE "claim"]
  /\ UNCHANGED <<rows, locks, sweep, editing, events, history>>

(* Marked validated, then processing; nobody tells the two apart.           *)
mark_memory_candidate(w) ==
  /\ At(w, "claim")
  /\ candidate' = [candidate EXCEPT ![worker[w].cand] = "processing"]
  /\ Goes(w, "adjudicate")
  /\ UNCHANGED <<extraction, memory, pending, applied, locks, sweep, editing, events, history>>

(* What adjudicate_memory may recommend on the active memories.             *)
Decisions ==
     [action: {"discard", "insert"}, relation: {"none"}, target: {None}]
  \cup [action: {"add_source", "update", "supersede"}, relation: {"none"}, target: Active]
  \cup [action: {"pending_review"}, relation: {"merge", "supersede", "conflict"}, target: Active]
  \cup [action: {"pending_review"}, relation: {"ambiguous_match"}, target: {None}]

(* Ids are left for everybody who may need one (a bound of the model).      *)
Room(w) == Cardinality(Fresh) > Cardinality({v \in Worker \ {w} :
                                               worker[v].pc \in {"apply", "write"}})

(* Under the coordinated lock of the candidate's key.                       *)
consolidate_candidate(w, d) ==
  LET k == KeyOf[worker[w].cand]
  IN /\ At(w, "adjudicate")
     /\ keylock[k] = None
     /\ keylock' = [keylock EXCEPT ![k] = w]
     /\ Room(w) \/ d.action = "discard"
     /\ memory' = IF d.target = None THEN memory
                  ELSE [memory EXCEPT ![d.target].seen = @ \cup {w}]
     /\ worker' = [worker EXCEPT ![w].decision = d, ![w].pc = "apply"]
     /\ outrun' = outrun \ {w}
     /\ UNCHANGED <<extraction, candidate, pending, applied, identity, sweep, editing, events,
                    record>>

(* An update is applied under the key of its target.                        *)
candidate_for_evolution(w) ==
  LET d == worker[w].decision
  IN IF d.action = "update" THEN memory[d.target].key ELSE KeyOf[worker[w].cand]

Released(w) == keylock' = [k \in Key |-> IF keylock[k] = w THEN None ELSE keylock[k]]
Unseen(cells, w) == [m \in Memory |-> [cells[m] EXCEPT !.seen = @ \ {w}]]

(* Every delivery of a candidate is a new decision.                         *)
prior_of_this_call(c) == FALSE

prior(c) == c \in applied \/ \E m \in Memory : pending[m].cand = c

(* The beginning of apply_memory_decision: a candidate with a decision is   *)
(* answered from it.                                                        *)
apply_memory_decision(w) ==
  LET c == worker[w].cand
      k == candidate_for_evolution(w)
  IN /\ At(w, "apply")
     /\ identity[k] = None
     /\ IF prior(c)
        THEN /\ worker' = [worker EXCEPT ![w].pc = "mark",
                  ![w].decision = [NoDecision EXCEPT !.action =
                     IF c \in applied THEN "add_source" ELSE "pending_review"]]
             /\ Released(w)
             /\ memory' = Unseen(memory, w)
             /\ UNCHANGED identity
        ELSE /\ Goes(w, "write")
             /\ identity' = [identity EXCEPT ![k] = w]
             /\ UNCHANGED <<keylock, memory>>
     /\ UNCHANGED <<extraction, candidate, pending, applied, sweep, editing, events, history>>

(* An active target is taken for an unchanged one.                          *)
snapshot_active(w, t) == t = None \/ memory[t].status = "active"

snapshot_current(w, t) == t = None \/ w \in memory[t].seen

(* A target that changed meanwhile: the same update adds a source, any      *)
(* other is left to the user.                                               *)
Revised(w, same_state) ==
  LET d == worker[w].decision
  IN IF snapshot_current(w, d.target) THEN d
     ELSE IF same_state THEN [d EXCEPT !.action = "add_source", !.relation = "none"]
     ELSE [d EXCEPT !.action = "pending_review", !.relation = "conflict"]

(* The rest of apply_memory_decision, and the end of both locks.  A task    *)
(* that is done archives the active duplicates D.                           *)
write(w, same_state, D) ==
  LET c == worker[w].cand
      d == Revised(w, same_state)
      new == CHOOSE m \in Fresh : TRUE
      row(status) == [status |-> status, key |-> KeyOf[c], seen |-> {}]
      archived == Versioned(D, "retired")
      result == CASE d.action = "discard" -> memory
                  [] d.action = "insert" -> [memory EXCEPT ![new] = row("active")]
                  [] d.action = "pending_review" -> [memory EXCEPT ![new] = row("pending_review")]
                  [] d.action = "add_source" -> archived
                  [] d.action = "update" -> [archived EXCEPT ![d.target].seen = {}]
                  [] d.action = "supersede" ->
                       [memory EXCEPT ![d.target].status = "retired",
                                      ![d.target].seen = {}, ![new] = row("active")]
  IN /\ At(w, "write")
     /\ d.target # None => d.target \in Existing
     /\ D \subseteq Active \ {d.target}
     /\ D # {} => d.action \in {"add_source", "update"}
     /\ memory' = Unseen(result, w)
     /\ pending' = IF d.action = "pending_review"
                   THEN [pending EXCEPT ![new] = [cand |-> c, decision |-> d]] ELSE pending
     /\ applied' = IF d.action = "pending_review" THEN applied ELSE applied \cup {c}
     /\ effects' = [effects EXCEPT ![c] = IF @ = 2 THEN 2 ELSE @ + 1]
     /\ settled' = settled \cup {c}
     /\ Released(w)
     /\ identity' = [k \in Key |-> IF identity[k] = w THEN None ELSE identity[k]]
     /\ worker' = [worker EXCEPT ![w].pc = "mark",
                     ![w].decision = [NoDecision EXCEPT !.action = d.action]]
     /\ Outruns(D \cup IF d.action \in {"update", "supersede"} THEN {d.target} ELSE {})
     /\ UNCHANGED <<extraction, candidate, sweep, editing, events, unlocked, overtaken>>

(* The action itself is stored as the status.                               *)
final_status_is_action(w) == worker[w].decision.action

final_status(w) ==
  CASE worker[w].decision.action = "pending_review" -> "pending_review"
    [] worker[w].decision.action = "discard" -> "discarded"
    [] OTHER -> "applied"

mark_final(w) ==
  /\ At(w, "mark")
  /\ candidate' = [candidate EXCEPT ![worker[w].cand] = final_status(w)]
  /\ worker' = [worker EXCEPT ![w].pc = "next", ![w].results = TRUE, ![w].cand = None,
                              ![w].decision = NoDecision]
  /\ UNCHANGED <<extraction, memory, pending, applied, locks, sweep, editing, events, history>>

(* The transaction is rolled back, the lock released, the candidate marked. *)
except(w) ==
  /\ candidate' = [candidate EXCEPT ![worker[w].cand] = "failed"]
  /\ Released(w)
  /\ identity' = [k \in Key |-> IF identity[k] = w THEN None ELSE identity[k]]
  /\ memory' = Unseen(memory, w)
  /\ worker' = [worker EXCEPT ![w].pc = "next", ![w].errors = TRUE, ![w].cand = None,
                  ![w].results = @ \/ At(w, "mark"), ![w].decision = NoDecision]
  /\ UNCHANGED <<extraction, pending, applied, sweep, editing, history>>

(* The target of the decision was purged meanwhile.                         *)
target_not_found(w) ==
  /\ At(w, "write")
  /\ worker[w].decision.target \notin Existing \cup {None}
  /\ except(w)
  /\ UNCHANGED events

(* Anything else raises: a lock, the language model, the database.          *)
candidate_error(w) ==
  /\ Event
  /\ worker[w].pc \in {"claim", "adjudicate", "apply", "write", "mark"}
  /\ except(w)
-----------------------------------------------------------------------------
(* The daily sweep.                                                         *)

(* run_memory_consolidation_once of the daily cadence: a run is reserved    *)
(* unless it is completed, or running and not yet                           *)
(* MEMORY_CONSOLIDATION_RUN_LEASE_SECONDS old.                              *)
reserve_consolidation_run(w) ==
  /\ At(w, "idle")
  /\ \/ sweep.status \in {"due", "failed"} /\ UNCHANGED events
     \/ sweep.status = "running" /\ sweep.owner = None /\ UNCHANGED events
     \/ sweep.status = "running" /\ sweep.owner # None /\ Event
  /\ sweep' = [sweep EXCEPT !.status = "running", !.owner = w]
  /\ worker' = [worker EXCEPT ![w] = [Resting EXCEPT !.pc = "sweep", !.sweeping = TRUE]]
  /\ UNCHANGED <<rows, locks, editing, history>>

(* A note in processing is left alone for good.                             *)
never_stale == FALSE

is_processing_stale == extraction.stale

(* The step of process_unextracted_notes on the note: the sweep goes        *)
(* through the first 100 notes of the index, oldest first, and passes over  *)
(* those that cannot be queried.  It does not reach the others.             *)
process_unextracted_notes(w) ==
  /\ At(w, "sweep")
  /\ CASE ~sweep.reaches -> Returned(w, FALSE) /\ UNCHANGED extraction
       [] sweep.reaches /\ extraction.status \in {"completed", "empty"} ->
            Returned(w, FALSE) /\ UNCHANGED extraction
       [] sweep.reaches /\ extraction.status = "processing" /\ ~is_processing_stale ->
            Returned(w, FALSE) /\ UNCHANGED extraction
       [] sweep.reaches /\ extraction.status = "processing" /\ is_processing_stale ->
            Goes(w, "check") /\ extraction' = Marked("failed", {})
       [] OTHER -> Goes(w, "check") /\ UNCHANGED extraction
  /\ UNCHANGED <<candidate, memory, pending, applied, locks, sweep, editing, events, history>>

(* run_expiry_once, at the end of a sweep, on the memories M whose time is  *)
(* over.                                                                    *)
expire_due_memories(w, M) ==
  /\ Event
  /\ At(w, "report")
  /\ M # {} /\ M \subseteq Active
  /\ memory' = Versioned(M, "retired")
  /\ Outruns(M)
  /\ UNCHANGED <<extraction, candidate, pending, applied, locks, worker, sweep, editing, record>>

(* mark_consolidation_completed or _failed: a run that was taken over, or   *)
(* whose day is over, has another id.                                       *)
mark_consolidation(w) ==
  /\ At(w, "report")
  /\ sweep' = IF sweep.owner = w
              THEN [sweep EXCEPT !.status = IF worker[w].raised THEN "failed" ELSE "completed",
                                 !.owner = None]
              ELSE sweep
  /\ worker' = [worker EXCEPT ![w] = Resting]
  /\ UNCHANGED <<rows, locks, editing, events, history>>

(* merge_duplicate_episodic lists the active memories once, then gives the  *)
(* duplicates up one by one, whatever they have become.                     *)
merge_duplicate_episodic(w, D) ==
  /\ Event
  /\ At(w, "idle")
  /\ D # {} /\ D \subseteq Active /\ D # Active
  /\ worker' = [worker EXCEPT ![w] = [Resting EXCEPT !.pc = "weekly", !.listed = D]]
  /\ UNCHANGED <<rows, locks, sweep, editing, history>>

update_memory(w, m) ==
  /\ At(w, "weekly")
  /\ m \in worker[w].listed
  /\ memory' = Versioned({m} \cap Existing, "retired")
  /\ worker' = [worker EXCEPT ![w] = IF worker[w].listed = {m} THEN Resting
                                     ELSE [worker[w] EXCEPT !.listed = @ \ {m}]]
  /\ Outruns({m} \cap Existing)
  /\ UNCHANGED <<extraction, candidate, pending, applied, locks, sweep, editing, events, record>>
-----------------------------------------------------------------------------
(* The user.                                                                *)

(* forget, correct, purge and resolve a memory of any status.               *)
set_memory(m, status) ==
  /\ Event
  /\ m \in Existing
  /\ memory' = Versioned({m}, status)
  /\ Outruns({m})
  /\ UNCHANGED <<extraction, candidate, pending, applied, locks, worker, sweep, editing, record>>

soft_delete_memory(m) == set_memory(m, "retired")
correct_memory(m) == set_memory(m, "active")
purge_memory(m) == set_memory(m, "purged")
resolve_memory_conflict(m) == set_memory(m, "active") \/ set_memory(m, "retired")

(* An ambiguous match cannot be approved: ValueError, nothing changes.      *)
Approvable(m) ==
  /\ memory[m].status = "pending_review" /\ Open(m)
  /\ pending[m].decision.relation # "ambiguous_match"
  /\ pending[m].decision.target \in Existing

Approve(m) ==
  LET d == pending[m].decision
      t == d.target
      both == [s \in {"merge", "supersede", "conflict"} |->
                 CASE s = "merge" -> <<memory[t].status, "retired">>
                   [] s = "supersede" -> <<"retired", "active">>
                   [] s = "conflict" -> <<"retired", "retired">>]
  IN /\ Approvable(m)
     /\ memory' = [memory EXCEPT ![t].status = both[d.relation][1], ![t].seen = {},
                                 ![m].status = both[d.relation][2], ![m].seen = {}]
     /\ applied' = applied \cup {pending[m].cand}
     /\ pending' = [pending EXCEPT ![m] = Closed]
     /\ Outruns({m, t})

approve_pending_memory(m) ==
  /\ Event
  /\ Approve(m)
  /\ UNCHANGED <<extraction, candidate, locks, worker, sweep, editing, record>>

(* The first transaction of an edit: for a task, the decision may become    *)
(* an update of its target.                                                 *)
edit_pending_memory(m, retarget) ==
  /\ Event
  /\ editing = None
  /\ memory[m].status = "pending_review"
  /\ retarget => Open(m) /\ pending[m].decision.target \in Existing
  /\ memory' = [memory EXCEPT ![m].seen = {}]
  /\ pending' = IF retarget THEN [pending EXCEPT ![m].decision.relation = "merge"] ELSE pending
  /\ editing' = m
  /\ Outruns({m})
  /\ UNCHANGED <<extraction, candidate, applied, locks, worker, sweep, record>>

(* The second: approve, or find that there is nothing to approve.           *)
approve_edited ==
  /\ editing # None
  /\ \/ Approve(editing)
     \/ ~Approvable(editing) /\ UNCHANGED <<memory, pending, applied, outrun>>
  /\ editing' = None
  /\ UNCHANGED <<extraction, candidate, locks, worker, sweep, events, record>>

reject_pending_memory(m) ==
  LET c == pending[m].cand
  IN /\ Event
     /\ memory[m].status = "pending_review"
     /\ memory' = Versioned({m}, "retired")
     /\ pending' = [pending EXCEPT ![m] = Closed]
     /\ candidate' = IF Open(m) THEN [candidate EXCEPT ![c] = "discarded"] ELSE candidate
     /\ overtaken' = IF \E w \in Worker : worker[w].cand = c THEN overtaken \cup ({c} \ {None})
                                                             ELSE overtaken
     /\ Outruns({m})
     /\ UNCHANGED <<extraction, applied, locks, worker, sweep, editing, effects, settled, unlocked>>
-----------------------------------------------------------------------------
(* Time and faults.                                                         *)

(* A worker dies.  Its transaction is rolled back, its key lock is not.     *)
crash(w) ==
  /\ Event
  /\ ~At(w, "idle")
  /\ worker' = [worker EXCEPT ![w] = Resting]
  /\ keylock' = [k \in Key |-> IF keylock[k] = w THEN "dead" ELSE keylock[k]]
  /\ identity' = [k \in Key |-> IF identity[k] = w THEN None ELSE identity[k]]
  /\ memory' = Unseen(memory, w)
  /\ sweep' = IF sweep.owner = w THEN [sweep EXCEPT !.owner = None] ELSE sweep
  /\ UNCHANGED <<extraction, candidate, pending, applied, editing, history>>

lock_expires(k) ==
  /\ keylock[k] = "dead"
  /\ keylock' = [keylock EXCEPT ![k] = None]
  /\ UNCHANGED <<rows, identity, worker, sweep, editing, events, history>>

(* The lock stops to exclude others while its holder goes on (module        *)
(* CoordinatedLock).                                                        *)
lock_lost(w) ==
  LET k == KeyOf[worker[w].cand]
  IN /\ Event
     /\ worker[w].pc \in {"apply", "write"}
     /\ keylock[k] = w
     /\ keylock' = [keylock EXCEPT ![k] = None]
     /\ unlocked' = unlocked \cup {worker[w].cand}
     /\ UNCHANGED <<rows, identity, worker, sweep, editing, effects, settled, overtaken, outrun>>

(* MEMORY_EXTRACTION_LEASE_SECONDS pass: for sure when nobody is at work,   *)
(* or while a worker is slow.                                               *)
AtWork == {w \in Worker : worker[w].pc \in {"extract", "next", "claim", "adjudicate", "apply",
                                            "write", "mark", "outer", "outer_mark"}}

extraction_lease_over ==
  /\ extraction.status = "processing" /\ ~extraction.stale
  /\ IF AtWork = {} THEN UNCHANGED events ELSE Event
  /\ extraction' = [extraction EXCEPT !.stale = TRUE]
  /\ UNCHANGED <<candidate, memory, pending, applied, locks, worker, sweep, editing, history>>

(* The sweep of the next day has a row of its own; one that still runs at   *)
(* midnight is slow.                                                        *)
next_day ==
  /\ \/ sweep.status = "completed" /\ UNCHANGED events
     \/ sweep.status = "running" /\ Event
  /\ sweep' = [sweep EXCEPT !.status = "due", !.owner = None]
  /\ UNCHANGED <<rows, locks, worker, editing, history>>

(* update_note_metadata makes the note queryable or not, or older notes are *)
(* stored late and move it beyond the first 100.                            *)
index_changes ==
  /\ Event
  /\ sweep' = [sweep EXCEPT !.reaches = ~@]
  /\ UNCHANGED <<rows, locks, worker, editing, history>>
-----------------------------------------------------------------------------
Work(w) ==
  \/ get_extraction_state(w) \/ mark_extraction_processing(w)
  \/ \E E \in SUBSET Candidate : \E V \in SUBSET E : extract_candidates(w, E, V)
  \/ outer_except(w) \/ mark_extraction_failed(w) \/ finish(w)
  \/ \E c \in Candidate : get_memory_candidate_status(w, c)
  \/ mark_memory_candidate(w)
  \/ \E d \in Decisions : consolidate_candidate(w, d)
  \/ apply_memory_decision(w)
  \/ \E same_state \in BOOLEAN, D \in SUBSET Active : write(w, same_state, D)
  \/ mark_final(w)
  \/ target_not_found(w)
  \/ process_unextracted_notes(w) \/ mark_consolidation(w)
  \/ \E m \in Memory : update_memory(w, m)

Environment ==
  \/ \E w \in Worker :
       \/ \E force \in BOOLEAN : process_note_memory(w, force)
       \/ \E D \in SUBSET Active : merge_duplicate_episodic(w, D) \/ expire_due_memories(w, D)
       \/ raises(w) \/ candidate_error(w) \/ crash(w) \/ lock_lost(w)
  \/ \E m \in Memory :
       \/ soft_delete_memory(m) \/ correct_memory(m) \/ purge_memory(m)
       \/ resolve_memory_conflict(m)
       \/ approve_pending_memory(m) \/ reject_pending_memory(m)
       \/ \E retarget \in BOOLEAN : edit_pending_memory(m, retarget)
  \/ index_changes

Sweep == \E w \in Worker : reserve_consolidation_run(w)

Next ==
  \/ \E w \in Worker : Work(w)
  \/ Sweep
  \/ Environment
  \/ approve_edited
  \/ \E k \in Key : lock_expires(k)
  \/ extraction_lease_over
  \/ next_day

Spec == Init /\ [][Next]_vars

(* Threads run, the scheduler ticks, and leases end.                        *)
Fairness ==
  /\ \A w \in Worker : WF_vars(Work(w))
  /\ WF_vars(Sweep)
  /\ WF_vars(extraction_lease_over)
  /\ WF_vars(next_day)
  /\ \A k \in Key : WF_vars(lock_expires(k))

FairSpec == Spec /\ Fairness
-----------------------------------------------------------------------------
(* A candidate acts once: however often its note is processed, by however   *)
(* many workers, with whatever crashes in between, at most one decision is  *)
(* recorded for it ("Idempotency is enforced by the decision's candidate    *)
(* id", repositories/postgres/memory.py:2365).  Exceptions: a lock that did *)
(* not hold, and a rejection while a worker was on the candidate.           *)
AppliedOnce == \A c \in Candidate : effects[c] > 1 => c \in unlocked \cup overtaken

(* A note that counts as completed is: every candidate its last worker took *)
(* up has been decided, by that worker or by another one it relied on.      *)
CompletedMeansSettled == extraction.status = "completed" => extraction.found \subseteq settled

(* A decision is applied to the memory it was made on, as it was: nothing   *)
(* changed the target since the adjudication.  What the user corrected,     *)
(* resolved or forgot meanwhile, another worker rewrote or a weekly run     *)
(* gave up is neither updated nor superseded, though it may be active.      *)
MutatesLiveTargets ==
  [][\A w \in Worker :
       At(w, "write") /\ worker'[w].pc = "mark"
       /\ worker'[w].decision.action \in {"update", "supersede"} =>
         worker[w].decision.target \in Active /\ w \notin outrun]_vars

(* Once failures end, a note that the sweep reaches is done: the sweep      *)
(* finds what a crash, a failure or a partial result left behind.  Nothing  *)
(* is promised of a note that is not among the first 100 of the index.      *)
ExtractionSettles ==
  <>[]sweep.reaches => <>[](extraction.status \in {"completed", "empty"})
=============================================================================
