--------------------------- MODULE MemoryWriteProofs ---------------------------
(***************************************************************************)
(* Proofs about the way from a note to long-term memories, for any number  *)
(* of workers, candidates, memories and events: a candidate acts once, a   *)
(* completed note is settled, and a decision changes only a memory that is *)
(* active and that nothing changed since the decision.                     *)
(***************************************************************************)
EXTENDS MemoryWrite, FiniteSetTheorems, TLAPS

(* A worker has a candidate exactly from the claim to the mark.             *)
Busy == {"claim", "adjudicate", "apply", "write", "mark"}
HasCandidate ==
  \A w \in Worker : worker[w].cand # None <=> worker[w].pc \in Busy

(* What adjudicate_memory, the revision of a decision and an open decision  *)
(* can be.                                                                  *)
Sound(d) ==
  /\ d.action # "none"
  /\ d.action \in {"add_source", "update", "supersede"} => d.target # None
  /\ d.action \in {"discard", "insert"} => d.target = None
  /\ d.action = "pending_review" => d.relation \in Relation

SoundDecisions ==
  /\ \A w \in Worker : worker[w].pc \in {"apply", "write"} => Sound(worker[w].decision)
  /\ \A m \in Memory : Open(m) => pending[m].decision.relation \in Relation

(* A memory that a worker's copy is current of is active: whatever changes  *)
(* a status changes the version.                                            *)
SeenIsActive == \A m \in Memory : memory[m].seen # {} => memory[m].status = "active"

(* A worker whose target was changed under it has no current copy of it.    *)
CopiesCurrent ==
  \A w \in outrun :
    worker[w].pc \in {"apply", "write"} /\ worker[w].decision.target \in Memory =>
      w \notin memory[worker[w].decision.target].seen

(* An id that was never used has no decision, and there are enough of them. *)
Needing == {w \in Worker : /\ worker[w].pc \in {"apply", "write"}
                           /\ worker[w].decision.action # "discard"}
EnoughIds ==
  /\ \A m \in Fresh : ~Open(m)
  /\ Cardinality(Needing) <= Cardinality(Fresh)

(* The lock of the key is held from the consolidation to the write, unless  *)
(* it was lost.                                                             *)
LockHeld ==
  \A w \in Worker :
    worker[w].pc \in {"apply", "write"} /\ worker[w].cand \notin unlocked
      => keylock[KeyOf[worker[w].cand]] = w

(* A candidate that acted has its decision on record, or was rejected when  *)
(* nobody was on it, and then nobody ever takes it up again.                *)
ActedOnRecord ==
  \A c \in Candidate :
    effects[c] >= 1 /\ c \notin overtaken =>
      \/ prior(c)
      \/ candidate[c] = "discarded" /\ \A w \in Worker : worker[w].cand # c

(* The worker that is about to write is the first.                          *)
FirstWrite ==
  \A w \in Worker :
    worker[w].pc = "write" /\ worker[w].cand \notin unlocked \cup overtaken =>
      ~prior(worker[w].cand) /\ effects[worker[w].cand] = 0

(* Whatever counts as decided is.                                           *)
DecidedSettled ==
  /\ \A c \in Candidate : candidate[c] \in Final => c \in settled
  /\ \A c \in Candidate : prior(c) => c \in settled
  /\ \A w \in Worker : worker[w].pc = "mark" => worker[w].cand \in settled

(* A worker that met no error has settled all it took up so far.            *)
Progress ==
  \A w \in Worker :
    worker[w].pc \in {"next"} \cup Busy /\ ~worker[w].errors =>
      worker[w].found \ (worker[w].todo \cup {worker[w].cand}) \subseteq settled

IInv == TypeOK /\ HasCandidate /\ SoundDecisions /\ SeenIsActive /\ CopiesCurrent
        /\ EnoughIds /\ LockHeld
        /\ ActedOnRecord /\ FirstWrite /\ AppliedOnce
        /\ DecidedSettled /\ Progress /\ CompletedMeansSettled
-----------------------------------------------------------------------------
(* The assumptions of the module in the form the provers use.               *)
LEMMA WriteConstants ==
  /\ KeyOf \in [Candidate -> Key]
  /\ Known \subseteq Memory /\ KnownKey \in [Known -> Key]
  /\ MaxEvents \in Nat
  /\ None \notin Memory /\ None \notin Worker /\ None \notin Candidate
  /\ "dead" \notin Worker
  /\ IsFiniteSet(Worker) /\ IsFiniteSet(Memory)
BY WriteAssumption

(* The rows that several operations write.                                  *)
LEMMA RestingRow ==
  /\ NoDecision \in DECISION
  /\ Resting \in WORKER
  /\ Resting.pc = "idle" /\ Resting.cand = None
  /\ Closed \in [cand: Candidate \cup {None}, decision: DECISION]
  /\ Closed.cand = None
<1>1. NoDecision \in DECISION
  BY DEF NoDecision, DECISION
<1> QED BY <1>1 DEF Resting, WORKER, Closed

LEMMA ReportRow ==
  ASSUME NEW x \in BOOLEAN
  PROVE  LET r == [Resting EXCEPT !.pc = "report", !.sweeping = TRUE, !.raised = x]
         IN  r \in WORKER /\ r.pc = "report" /\ r.cand = None
<1>1. Resting \in WORKER /\ Resting.cand = None
  BY RestingRow
<1> QED BY <1>1 DEF WORKER

LEMMA SweepRow ==
  LET r == [Resting EXCEPT !.pc = "sweep", !.sweeping = TRUE]
  IN  r \in WORKER /\ r.pc = "sweep" /\ r.cand = None
<1>1. Resting \in WORKER /\ Resting.cand = None
  BY RestingRow
<1> QED BY <1>1 DEF WORKER

LEMMA CheckRow ==
  ASSUME NEW x \in BOOLEAN
  PROVE  LET r == [Resting EXCEPT !.pc = "check", !.force = x]
         IN  r \in WORKER /\ r.pc = "check" /\ r.cand = None
<1>1. Resting \in WORKER /\ Resting.cand = None
  BY RestingRow
<1> QED BY <1>1 DEF WORKER

LEMMA WeeklyRow ==
  ASSUME NEW D \in SUBSET Memory
  PROVE  LET r == [Resting EXCEPT !.pc = "weekly", !.listed = D]
         IN  r \in WORKER /\ r.pc = "weekly" /\ r.cand = None
<1>1. Resting \in WORKER /\ Resting.cand = None
  BY RestingRow
<1> QED BY <1>1 DEF WORKER

LEMMA StatusRow ==
  ASSUME TypeOK, NEW w \in Worker, NEW c \in Candidate, get_memory_candidate_status(w, c)
  PROVE  /\ worker' \in [Worker -> WORKER]
         /\ \A v \in Worker \ {w} : worker'[v] = worker[v]
         /\ worker'[w].cand = IF idempotent(c) THEN None ELSE c
         /\ worker'[w].pc = IF idempotent(c) THEN "next" ELSE "claim"
         /\ worker'[w].todo = worker[w].todo \ {c}
         /\ worker'[w].found = worker[w].found
         /\ worker'[w].errors = worker[w].errors
<1> DEFINE r == [worker[w] EXCEPT !.todo = @ \ {c}, !.results = @ \/ idempotent(c),
                    !.cand = IF idempotent(c) THEN None ELSE c,
                    !.pc = IF idempotent(c) THEN "next" ELSE "claim"]
<1>1. worker \in [Worker -> WORKER] /\ idempotent(c) \in BOOLEAN
  BY DEF TypeOK, idempotent
<1>2. worker[w] \in WORKER
  BY <1>1
<1>3. worker' = [worker EXCEPT ![w] = r]
  BY <1>1 DEF get_memory_candidate_status
<1>4. r \in WORKER
  BY <1>1, <1>2 DEF WORKER
<1>5. /\ r.cand = IF idempotent(c) THEN None ELSE c
      /\ r.pc = IF idempotent(c) THEN "next" ELSE "claim"
      /\ r.todo = worker[w].todo \ {c}
      /\ r.found = worker[w].found
      /\ r.errors = worker[w].errors
  BY <1>2 DEF WORKER
<1> HIDE DEF r
<1> QED BY <1>1, <1>3, <1>4, <1>5

LEMMA RowChanged ==
  ASSUME worker \in [Worker -> WORKER], NEW w \in Worker, NEW r \in WORKER,
         worker' = [worker EXCEPT ![w] = r]
  PROVE  /\ worker' \in [Worker -> WORKER]
         /\ worker'[w] = r
         /\ \A v \in Worker \ {w} : worker'[v] = worker[v]
OBVIOUS

LEMMA GoesRow ==
  ASSUME TypeOK, NEW w \in Worker,
         NEW pc \in {"begin", "extract", "outer", "outer_mark", "check", "adjudicate", "write"},
         Goes(w, pc)
  PROVE  /\ worker' \in [Worker -> WORKER]
         /\ \A v \in Worker \ {w} : worker'[v] = worker[v]
         /\ worker'[w].pc = pc
         /\ worker'[w].cand = worker[w].cand
         /\ worker'[w].todo = worker[w].todo
         /\ worker'[w].found = worker[w].found
         /\ worker'[w].errors = worker[w].errors
         /\ worker'[w].decision = worker[w].decision
<1> DEFINE r == [worker[w] EXCEPT !.pc = pc]
<1>1. worker \in [Worker -> WORKER] /\ worker[w] \in WORKER
  BY DEF TypeOK
<1>2. worker' = [worker EXCEPT ![w] = r]
  BY <1>1 DEF Goes
<1>3. r \in WORKER
  BY <1>1 DEF WORKER
<1>4. /\ r.pc = pc /\ r.cand = worker[w].cand /\ r.todo = worker[w].todo
      /\ r.found = worker[w].found /\ r.errors = worker[w].errors
      /\ r.decision = worker[w].decision
  BY <1>1 DEF WORKER
<1> HIDE DEF r
<1> QED BY <1>1, <1>2, <1>3, <1>4, RowChanged

LEMMA ReturnedRow ==
  ASSUME TypeOK, NEW w \in Worker, NEW raised \in BOOLEAN, Returned(w, raised)
  PROVE  /\ worker' \in [Worker -> WORKER]
         /\ \A v \in Worker \ {w} : worker'[v] = worker[v]
         /\ worker'[w].pc \in {"idle", "report"}
         /\ worker'[w].cand = None
<1> DEFINE rep == [Resting EXCEPT !.pc = "report", !.sweeping = TRUE, !.raised = raised]
           r == IF worker[w].sweeping THEN rep ELSE Resting
<1>1. worker \in [Worker -> WORKER]
  BY DEF TypeOK
<1>2. worker' = [worker EXCEPT ![w] = r]
  BY <1>1 DEF Returned
<1>4. rep \in WORKER /\ rep.pc = "report" /\ rep.cand = None
  BY ReportRow
<1>5. r \in WORKER /\ r.pc \in {"idle", "report"} /\ r.cand = None
  <2> HIDE DEF rep
  <2> QED BY <1>4, RestingRow
<1> HIDE DEF r
<1> QED BY <1>1, <1>2, <1>5, RowChanged

(* The cells of memory that several operations write.                       *)
LEMMA UnseenCells ==
  ASSUME NEW cells \in [Memory -> MEMORY], NEW w
  PROVE  /\ Unseen(cells, w) \in [Memory -> MEMORY]
         /\ \A m \in Memory : /\ Unseen(cells, w)[m].status = cells[m].status
                              /\ Unseen(cells, w)[m].key = cells[m].key
                              /\ Unseen(cells, w)[m].seen = cells[m].seen \ {w}
<1>1. ASSUME NEW m \in Memory
      PROVE  /\ [cells[m] EXCEPT !.seen = @ \ {w}] \in MEMORY
             /\ [cells[m] EXCEPT !.seen = @ \ {w}].status = cells[m].status
             /\ [cells[m] EXCEPT !.seen = @ \ {w}].key = cells[m].key
             /\ [cells[m] EXCEPT !.seen = @ \ {w}].seen = cells[m].seen \ {w}
  <2>1. cells[m] \in MEMORY
    OBVIOUS
  <2> QED BY <2>1 DEF MEMORY
<1>2. Unseen(cells, w) \in [Memory -> MEMORY]
  BY <1>1 DEF Unseen
<1>3. \A m \in Memory : Unseen(cells, w)[m] = [cells[m] EXCEPT !.seen = @ \ {w}]
  BY DEF Unseen
<1> QED BY <1>1, <1>2, <1>3

LEMMA VersionedCells ==
  ASSUME TypeOK, NEW M, NEW status \in {"active", "retired", "purged"}
  PROVE  /\ Versioned(M, status) \in [Memory -> MEMORY]
         /\ \A m \in Memory : IF m \in M THEN /\ Versioned(M, status)[m].status = status
                                              /\ Versioned(M, status)[m].seen = {}
                                         ELSE Versioned(M, status)[m] = memory[m]
<1>1. ASSUME NEW m \in Memory
      PROVE  /\ [memory[m] EXCEPT !.status = status, !.seen = {}] \in MEMORY
             /\ [memory[m] EXCEPT !.status = status, !.seen = {}].status = status
             /\ [memory[m] EXCEPT !.status = status, !.seen = {}].seen = {}
             /\ memory[m] \in MEMORY
  <2>1. memory[m] \in MEMORY
    BY DEF TypeOK
  <2> QED BY <2>1 DEF MEMORY
<1>2. Versioned(M, status) \in [Memory -> MEMORY]
  BY <1>1 DEF Versioned
<1>3. \A m \in Memory : Versioned(M, status)[m] =
                          IF m \in M THEN [memory[m] EXCEPT !.status = status, !.seen = {}]
                                     ELSE memory[m]
  BY DEF Versioned
<1> QED BY <1>1, <1>2, <1>3

LEMMA LocksFreed ==
  ASSUME TypeOK, NEW w \in Worker, NEW x \in {None, "dead"}
  PROVE  /\ [k \in Key |-> IF keylock[k] = w THEN x ELSE keylock[k]]
              \in [Key -> Worker \cup {None, "dead"}]
         /\ [k \in Key |-> IF identity[k] = w THEN None ELSE identity[k]]
              \in [Key -> Worker \cup {None}]
BY DEF TypeOK
-----------------------------------------------------------------------------
(* Most steps change nothing that the invariant speaks of, but for one      *)
(* worker that goes where it needs neither a lock nor an id.                *)
Leaves(w) ==
  /\ worker'[w].pc \notin {"apply", "write"}
  /\ worker'[w].cand # None <=> worker'[w].pc \in Busy
  /\ \/ worker'[w].cand \in {None, worker[w].cand}
     \/ candidate[worker'[w].cand] \notin Final
  /\ worker'[w].pc = "mark" => worker'[w].cand \in settled
  /\ worker'[w].pc \in {"next"} \cup Busy /\ ~worker'[w].errors =>
       worker'[w].found \ (worker'[w].todo \cup {worker'[w].cand}) \subseteq settled

WorkersLeave == \A w \in Worker : worker'[w] = worker[w] \/ Leaves(w)

LocksKept ==
  \A w \in Worker, k \in Key :
    worker'[w] = worker[w] /\ worker[w].cand \notin unlocked' /\ keylock[k] = w => keylock'[k] = w

CandidatesKept ==
  \A c \in Candidate :
    /\ candidate'[c] \in Final => candidate[c] \in Final \/ c \in settled'
    /\ candidate[c] = "discarded" /\ (\A w \in Worker : worker[w].cand # c)
         => candidate'[c] = "discarded"

MemoriesKept ==
  /\ \A m \in Memory : memory'[m].seen # {} => memory'[m].status = "active"
  /\ \A m \in Memory : memory'[m].status = "absent" <=> memory[m].status = "absent"
  /\ \A m \in Memory : memory'[m].seen \subseteq memory[m].seen

(* Whoever is overtaken loses its copy.                                     *)
OutrunKept ==
  \E M \in SUBSET Memory : Outruns(M) /\ \A m \in M : memory'[m].seen = {}

DecisionsKept ==
  /\ \A c \in Candidate : prior(c)' => prior(c)
  /\ \A c \in Candidate : prior(c) /\ ~prior(c)' =>
       \/ c \in overtaken'
       \/ candidate'[c] = "discarded" /\ \A w \in Worker : worker'[w].cand # c
  /\ \A m \in Memory : Open(m)' => Open(m) /\ pending'[m].decision.relation \in Relation

Quiet == /\ WorkersLeave /\ LocksKept /\ CandidatesKept /\ MemoriesKept /\ DecisionsKept
         /\ OutrunKept
         /\ extraction' = extraction \/ CompletedMeansSettled'
         /\ UNCHANGED effects
         /\ settled \subseteq settled' /\ unlocked \subseteq unlocked' /\ overtaken \subseteq overtaken'

LEMMA SameOutrun ==
  ASSUME UNCHANGED outrun
  PROVE  OutrunKept
<1>1. DecidedOn({}) = {}
  BY DEF DecidedOn
<1>2. Outruns({})
  BY <1>1 DEF Outruns
<1> QED BY <1>2 DEF OutrunKept

LEMMA OutrunWorkers ==
  ASSUME TypeOK, OutrunKept
  PROVE  outrun' \subseteq Worker
BY DEF TypeOK, OutrunKept, Outruns, DecidedOn

LEMMA CopiesStay ==
  ASSUME TypeOK, CopiesCurrent, OutrunKept,
         \A v \in Worker : worker'[v].pc \in {"apply", "write"} =>
           worker[v].pc \in {"apply", "write"} /\ worker'[v].decision = worker[v].decision,
         \A m \in Memory : memory'[m].seen \subseteq memory[m].seen
  PROVE  CopiesCurrent'
<1> SUFFICES ASSUME NEW w \in outrun', worker'[w].pc \in {"apply", "write"},
                    worker'[w].decision.target \in Memory
             PROVE  w \notin memory'[worker'[w].decision.target].seen
  BY DEF CopiesCurrent
<1>1. PICK M \in SUBSET Memory : Outruns(M) /\ \A m \in M : memory'[m].seen = {}
  BY DEF OutrunKept
<1>2. w \in Worker
  BY OutrunWorkers
<1>3. CASE w \in outrun
  BY <1>2, <1>3 DEF CopiesCurrent
<1>4. CASE w \in DecidedOn(M)
  BY <1>1, <1>2, <1>4 DEF DecidedOn
<1> QED BY <1>1, <1>3, <1>4 DEF Outruns

LEMMA QuietStep ==
  ASSUME IInv, TypeOK', Quiet
  PROVE  IInv'
<1>1. /\ TypeOK /\ UNCHANGED effects
      /\ settled \subseteq settled' /\ unlocked \subseteq unlocked' /\ overtaken \subseteq overtaken'
  BY DEF Quiet, IInv
<1>2. HasCandidate'
  BY DEF Quiet, WorkersLeave, Leaves, IInv, HasCandidate
<1>3. SoundDecisions'
  <2>1. \A w \in Worker : worker'[w].pc \in {"apply", "write"} => worker'[w] = worker[w]
    BY DEF Quiet, WorkersLeave, Leaves
  <2> QED BY <2>1 DEF Quiet, DecisionsKept, IInv, SoundDecisions
<1>4. SeenIsActive'
  BY DEF Quiet, MemoriesKept, SeenIsActive
<1>5. EnoughIds'
  <2>1. Fresh' = Fresh
    BY DEF Quiet, MemoriesKept, Fresh
  <2>2. \A m \in Fresh' : ~Open(m)'
    BY <2>1 DEF Quiet, DecisionsKept, IInv, EnoughIds, Fresh
  <2>3. \A w \in Worker : worker'[w].pc \in {"apply", "write"} => worker'[w] = worker[w]
    BY DEF Quiet, WorkersLeave, Leaves
  <2>4. Needing' \subseteq Needing
    BY <2>3 DEF Needing
  <2>5. IsFiniteSet(Needing) /\ IsFiniteSet(Fresh)
    BY WriteConstants, FS_Subset DEF Needing, Fresh
  <2>6. Cardinality(Needing') <= Cardinality(Needing) /\ IsFiniteSet(Needing')
    BY <2>4, <2>5, FS_Subset
  <2>7. Cardinality(Needing) <= Cardinality(Fresh)
    BY DEF IInv, EnoughIds
  <2>8. Cardinality(Needing) \in Nat /\ Cardinality(Needing') \in Nat /\ Cardinality(Fresh) \in Nat
    BY <2>5, <2>6, FS_CardinalityType
  <2>9. Cardinality(Needing') <= Cardinality(Fresh')
    BY <2>1, <2>6, <2>7, <2>8
  <2> QED BY <2>2, <2>9 DEF EnoughIds
<1>6. LockHeld'
  <2> SUFFICES ASSUME NEW w \in Worker, worker'[w].pc \in {"apply", "write"},
                      worker'[w].cand \notin unlocked'
               PROVE  keylock'[KeyOf[worker'[w].cand]] = w
    BY DEF LockHeld
  <2>1. worker'[w] = worker[w]
    BY DEF Quiet, WorkersLeave, Leaves
  <2>2. keylock[KeyOf[worker[w].cand]] = w /\ worker[w].cand \notin unlocked'
    BY <1>1, <2>1 DEF IInv, LockHeld
  <2>3. worker[w].cand \in Candidate
    <3>1. worker[w] \in WORKER
      BY <1>1 DEF TypeOK
    <3>2. worker[w].cand # None
      BY <2>1 DEF IInv, HasCandidate, Busy
    <3> QED BY <3>1, <3>2 DEF WORKER
  <2>4. KeyOf[worker[w].cand] \in Key
    BY <2>3, WriteConstants
  <2> QED BY <2>1, <2>2, <2>4 DEF Quiet, LocksKept
<1>7. ActedOnRecord'
  <2> SUFFICES ASSUME NEW c \in Candidate, effects'[c] >= 1, c \notin overtaken', ~prior(c)'
               PROVE  candidate'[c] = "discarded" /\ \A w \in Worker : worker'[w].cand # c
    BY DEF ActedOnRecord
  <2>1. CASE prior(c)
    BY <2>1 DEF Quiet, DecisionsKept
  <2> SUFFICES ASSUME ~prior(c)
               PROVE  candidate'[c] = "discarded" /\ \A w \in Worker : worker'[w].cand # c
    BY <2>1
  <2>2. candidate[c] = "discarded" /\ \A w \in Worker : worker[w].cand # c
    BY <1>1 DEF IInv, ActedOnRecord
  <2>3. candidate'[c] = "discarded"
    BY <2>2 DEF Quiet, CandidatesKept
  <2>4. \A w \in Worker : worker'[w].cand # c
    BY <2>2, WriteConstants DEF Quiet, WorkersLeave, Leaves, Final
  <2> QED BY <2>3, <2>4
<1>8. FirstWrite'
  <2> SUFFICES ASSUME NEW w \in Worker, worker'[w].pc = "write",
                      worker'[w].cand \notin unlocked' \cup overtaken'
               PROVE  ~prior(worker[w].cand)' /\ effects'[worker[w].cand] = 0
                      /\ worker'[w].cand = worker[w].cand
    BY DEF FirstWrite, prior
  <2>1. worker'[w] = worker[w]
    BY DEF Quiet, WorkersLeave, Leaves
  <2>2. ~prior(worker[w].cand) /\ effects[worker[w].cand] = 0
    BY <1>1, <2>1 DEF IInv, FirstWrite
  <2>3. worker[w].cand \in Candidate
    <3>1. worker[w] \in WORKER
      BY <1>1 DEF TypeOK
    <3>2. worker[w].cand # None
      BY <2>1 DEF IInv, HasCandidate, Busy
    <3> QED BY <3>1, <3>2 DEF WORKER
  <2> QED BY <1>1, <2>1, <2>2, <2>3 DEF Quiet, DecisionsKept
<1>9. AppliedOnce'
  BY <1>1 DEF IInv, AppliedOnce
<1>10. DecidedSettled'
  <2>1. \A c \in Candidate : candidate'[c] \in Final => c \in settled'
    BY <1>1 DEF Quiet, CandidatesKept, IInv, DecidedSettled
  <2>2. \A c \in Candidate : prior(c)' => c \in settled'
    BY <1>1 DEF Quiet, DecisionsKept, IInv, DecidedSettled
  <2>3. \A w \in Worker : worker'[w].pc = "mark" => worker'[w].cand \in settled'
    BY <1>1 DEF Quiet, WorkersLeave, Leaves, IInv, DecidedSettled
  <2> QED BY <2>1, <2>2, <2>3 DEF DecidedSettled
<1>11. Progress'
  BY <1>1 DEF Quiet, WorkersLeave, Leaves, IInv, Progress
<1>12. CompletedMeansSettled'
  BY <1>1 DEF Quiet, IInv, CompletedMeansSettled
<1>13. CopiesCurrent'
  <2>1. \A w \in Worker : worker'[w].pc \in {"apply", "write"} => worker'[w] = worker[w]
    BY DEF Quiet, WorkersLeave, Leaves
  <2> QED BY <1>1, <2>1, CopiesStay DEF Quiet, MemoriesKept, IInv
<1> QED BY <1>2, <1>3, <1>4, <1>5, <1>6, <1>7, <1>8, <1>9, <1>10, <1>11, <1>12, <1>13 DEF IInv
-----------------------------------------------------------------------------
EXTRACTION == [status: {"none", "processing", "completed", "empty", "partial", "failed"},
               stale: BOOLEAN, found: SUBSET Candidate]
SWEEP == [status: {"due", "running", "completed", "failed"}, owner: Worker \cup {None},
          reaches: BOOLEAN]

LEMMA SameMemories ==
  ASSUME IInv, UNCHANGED memory
  PROVE  MemoriesKept
BY DEF IInv, SeenIsActive, MemoriesKept

LEMMA SameDecisions ==
  ASSUME IInv, UNCHANGED <<pending, applied>>
  PROVE  DecisionsKept
BY DEF IInv, SoundDecisions, DecisionsKept, prior, Open

LEMMA OneLeaves ==
  ASSUME NEW w \in Worker, \A v \in Worker \ {w} : worker'[v] = worker[v],
         worker'[w].pc \notin {"next"} \cup Busy, worker'[w].cand = None
  PROVE  WorkersLeave
<1>1. Leaves(w)
  BY DEF Leaves, Busy
<1> QED BY <1>1 DEF WorkersLeave

(* A worker moves outside the candidates, the run of the sweep or the state *)
(* of the extraction change.                                                *)
LEMMA RowOnly ==
  ASSUME IInv, NEW w \in Worker, worker' \in [Worker -> WORKER],
         \A v \in Worker \ {w} : worker'[v] = worker[v],
         worker'[w].pc \notin {"next"} \cup Busy, worker'[w].cand = None,
         UNCHANGED <<candidate, memory, pending, applied, keylock, identity, editing, history>>,
         extraction' \in EXTRACTION, extraction' = extraction \/ CompletedMeansSettled',
         sweep' \in SWEEP, events' \in 0..MaxEvents
  PROVE  IInv'
<1>1. TypeOK'
  BY DEF IInv, TypeOK, EXTRACTION, SWEEP, history, record
<1>2. WorkersLeave
  BY OneLeaves
<1>3. LocksKept /\ CandidatesKept
  BY DEF LocksKept, CandidatesKept
<1>4. MemoriesKept /\ DecisionsKept
  BY SameMemories, SameDecisions
<1>5. Quiet
  BY <1>2, <1>3, <1>4, SameOutrun DEF Quiet, history, record
<1> QED BY <1>1, <1>5, QuietStep

LEMMA Counted ==
  ASSUME TypeOK, Event
  PROVE  events' \in 0..MaxEvents
<1>1. MaxEvents \in Nat /\ events \in 0..MaxEvents /\ events < MaxEvents /\ events' = events + 1
  BY WriteConstants DEF TypeOK, Event
<1> QED BY <1>1

LEMMA InTypes ==
  ASSUME IInv
  PROVE  /\ TypeOK
         /\ extraction \in EXTRACTION /\ sweep \in SWEEP /\ events \in 0..MaxEvents
         /\ worker \in [Worker -> WORKER]
         /\ \A w \in Worker : worker[w] \in WORKER
         /\ \A w \in Worker : worker[w].pc \notin Busy => worker[w].cand = None
         /\ \A w \in Worker : worker[w].pc \in Busy => worker[w].cand \in Candidate
<1>1. TypeOK /\ HasCandidate
  BY DEF IInv
<1>2. /\ extraction \in EXTRACTION /\ sweep \in SWEEP /\ events \in 0..MaxEvents
      /\ worker \in [Worker -> WORKER]
  BY <1>1 DEF TypeOK, EXTRACTION, SWEEP
<1>3. \A w \in Worker : worker[w] \in WORKER
  BY <1>2
<1>4. \A w \in Worker : worker[w].cand \in Candidate \cup {None}
  BY <1>3 DEF WORKER
<1> QED BY <1>1, <1>2, <1>3, <1>4 DEF HasCandidate

LEMMA ProcessStep ==
  ASSUME IInv, NEW w \in Worker, NEW force \in BOOLEAN, process_note_memory(w, force)
  PROVE  IInv'
<1> DEFINE r == [Resting EXCEPT !.pc = "check", !.force = force]
<1>1. /\ worker' = [worker EXCEPT ![w] = r] /\ Event
      /\ UNCHANGED <<extraction, candidate, memory, pending, applied, keylock, identity, sweep,
                     editing, history>>
  BY DEF process_note_memory, rows, locks
<1>2. r \in WORKER /\ r.pc = "check" /\ r.cand = None
  BY CheckRow
<1> HIDE DEF r
<1>3. /\ worker' \in [Worker -> WORKER] /\ worker'[w] = r
      /\ \A v \in Worker \ {w} : worker'[v] = worker[v]
  BY <1>1, <1>2, InTypes, RowChanged
<1>4. /\ worker'[w].pc \notin {"next"} \cup Busy /\ worker'[w].cand = None
  BY <1>2, <1>3 DEF Busy
<1>5. extraction' \in EXTRACTION /\ sweep' \in SWEEP /\ events' \in 0..MaxEvents
  BY <1>1, InTypes, Counted
<1> QED BY <1>1, <1>3, <1>4, <1>5, RowOnly

LEMMA StateStep ==
  ASSUME IInv, NEW w \in Worker, get_extraction_state(w)
  PROVE  IInv'
<1>1. /\ worker[w].pc = "check" /\ UNCHANGED events
      /\ UNCHANGED <<extraction, candidate, memory, pending, applied, keylock, identity, sweep,
                     editing, history>>
      /\ \/ Returned(w, FALSE)
         \/ worker' = [worker EXCEPT ![w].pc = "begin", ![w].force = FALSE]
  BY DEF get_extraction_state, rows, locks, At
<1>2. worker[w] \in WORKER /\ worker[w].cand = None /\ worker \in [Worker -> WORKER]
  BY <1>1, InTypes DEF Busy
<1>3. /\ worker' \in [Worker -> WORKER] /\ \A v \in Worker \ {w} : worker'[v] = worker[v]
      /\ worker'[w].pc \notin {"next"} \cup Busy /\ worker'[w].cand = None
  <2>1. CASE Returned(w, FALSE)
    BY <2>1, InTypes, ReturnedRow DEF Busy
  <2>2. CASE worker' = [worker EXCEPT ![w].pc = "begin", ![w].force = FALSE]
    <3> DEFINE r == [worker[w] EXCEPT !.pc = "begin", !.force = FALSE]
    <3>1. worker' = [worker EXCEPT ![w] = r]
      BY <1>2, <2>2
    <3>2. r \in WORKER /\ r.pc = "begin" /\ r.cand = None
      BY <1>2 DEF WORKER
    <3> HIDE DEF r
    <3> QED BY <1>2, <3>1, <3>2, RowChanged DEF Busy
  <2> QED BY <1>1, <2>1, <2>2
<1>4. extraction' \in EXTRACTION /\ sweep' \in SWEEP /\ events' \in 0..MaxEvents
  BY <1>1, InTypes
<1> QED BY <1>1, <1>3, <1>4, RowOnly

LEMMA MarkedState ==
  ASSUME NEW s \in {"processing", "completed", "empty", "partial", "failed"},
         NEW F \in SUBSET Candidate
  PROVE  /\ Marked(s, F) \in EXTRACTION
         /\ Marked(s, F).status = s /\ Marked(s, F).found = F
BY DEF Marked, EXTRACTION

LEMMA ProcessingStep ==
  ASSUME IInv, NEW w \in Worker, mark_extraction_processing(w)
  PROVE  IInv'
<1>1. /\ worker[w].pc = "begin" /\ UNCHANGED <<events, sweep>>
      /\ UNCHANGED <<candidate, memory, pending, applied, keylock, identity, editing, history>>
      /\ extraction' = Marked("processing", {}) /\ Goes(w, "extract")
  BY DEF mark_extraction_processing, locks, At
<1>2. /\ worker' \in [Worker -> WORKER] /\ \A v \in Worker \ {w} : worker'[v] = worker[v]
      /\ worker'[w].pc = "extract" /\ worker'[w].cand = worker[w].cand
  BY <1>1, InTypes, GoesRow
<1>3. worker'[w].pc \notin {"next"} \cup Busy /\ worker'[w].cand = None
  BY <1>1, <1>2, InTypes DEF Busy
<1>4. extraction' \in EXTRACTION /\ extraction'.status # "completed"
  BY <1>1, MarkedState
<1>5. CompletedMeansSettled'
  BY <1>4 DEF CompletedMeansSettled
<1>6. sweep' \in SWEEP /\ events' \in 0..MaxEvents
  BY <1>1, InTypes
<1> QED BY <1>1, <1>2, <1>3, <1>4, <1>5, <1>6, RowOnly

LEMMA RaisesStep ==
  ASSUME IInv, NEW w \in Worker, raises(w)
  PROVE  IInv'
<1>1. /\ worker[w].pc \in {"check", "begin", "extract"} /\ Event /\ Goes(w, "outer")
      /\ UNCHANGED <<extraction, candidate, memory, pending, applied, keylock, identity, sweep,
                     editing, history>>
  BY DEF raises, rows, locks
<1>2. /\ worker' \in [Worker -> WORKER] /\ \A v \in Worker \ {w} : worker'[v] = worker[v]
      /\ worker'[w].pc = "outer" /\ worker'[w].cand = worker[w].cand
  BY <1>1, InTypes, GoesRow
<1>3. worker'[w].pc \notin {"next"} \cup Busy /\ worker'[w].cand = None
  BY <1>1, <1>2, InTypes DEF Busy
<1>4. extraction' \in EXTRACTION /\ sweep' \in SWEEP /\ events' \in 0..MaxEvents
  BY <1>1, InTypes, Counted
<1> QED BY <1>1, <1>2, <1>3, <1>4, RowOnly

LEMMA OuterStep ==
  ASSUME IInv, NEW w \in Worker, outer_except(w)
  PROVE  IInv'
<1>1. /\ worker[w].pc = "outer" /\ (Goes(w, "outer_mark") \/ Returned(w, TRUE))
      /\ UNCHANGED <<extraction, candidate, memory, pending, applied, keylock, identity, sweep,
                     editing, events, history>>
  BY DEF outer_except, rows, locks, At
<1>2. /\ worker' \in [Worker -> WORKER] /\ \A v \in Worker \ {w} : worker'[v] = worker[v]
      /\ worker'[w].pc \in {"idle", "report", "outer_mark"}
      /\ worker'[w].cand \in {None, worker[w].cand}
  <2>1. CASE Goes(w, "outer_mark")
    BY <2>1, InTypes, GoesRow
  <2>2. CASE Returned(w, TRUE)
    BY <2>2, InTypes, ReturnedRow
  <2> QED BY <1>1, <2>1, <2>2
<1>3. worker'[w].pc \notin {"next"} \cup Busy /\ worker'[w].cand = None
  BY <1>1, <1>2, InTypes DEF Busy
<1>4. extraction' \in EXTRACTION /\ sweep' \in SWEEP /\ events' \in 0..MaxEvents
  BY <1>1, InTypes
<1> QED BY <1>1, <1>2, <1>3, <1>4, RowOnly

(* A worker is done with the note and says how it went.                     *)
LEMMA ReturnsMarked ==
  ASSUME IInv, NEW w \in Worker, NEW raised \in BOOLEAN, Returned(w, raised),
         UNCHANGED <<candidate, memory, pending, applied, locks, sweep, editing, events, history>>,
         extraction' \in EXTRACTION, extraction' = extraction \/ CompletedMeansSettled'
  PROVE  IInv'
<1>1. UNCHANGED <<candidate, memory, pending, applied, keylock, identity, editing, history>>
  BY DEF locks
<1>2. /\ worker' \in [Worker -> WORKER] /\ \A v \in Worker \ {w} : worker'[v] = worker[v]
      /\ worker'[w].pc \notin {"next"} \cup Busy /\ worker'[w].cand = None
  BY InTypes, ReturnedRow DEF Busy
<1>3. sweep' \in SWEEP /\ events' \in 0..MaxEvents
  BY InTypes
<1> QED BY <1>1, <1>2, <1>3, RowOnly

LEMMA FailedStep ==
  ASSUME IInv, NEW w \in Worker, mark_extraction_failed(w)
  PROVE  IInv'
<1>1. /\ extraction' = Marked("failed", {}) /\ Returned(w, TRUE)
      /\ UNCHANGED <<candidate, memory, pending, applied, locks, sweep, editing, events, history>>
  BY DEF mark_extraction_failed
<1>2. extraction' \in EXTRACTION /\ extraction'.status # "completed"
  BY <1>1, MarkedState
<1>3. CompletedMeansSettled'
  BY <1>2 DEF CompletedMeansSettled
<1> QED BY <1>1, <1>2, <1>3, ReturnsMarked

(* The verdict: a worker without an error settled all that it found.        *)
LEMMA FinishStep ==
  ASSUME IInv, NEW w \in Worker, finish(w)
  PROVE  IInv'
<1> DEFINE F == IF Verdict(w) = "completed" THEN worker[w].found ELSE {}
<1>1. /\ worker[w].pc = "next" /\ worker[w].todo = {}
      /\ extraction' = Marked(Verdict(w), F) /\ Returned(w, Verdict(w) = "failed")
      /\ UNCHANGED <<candidate, memory, pending, applied, locks, sweep, editing, events, history>>
  BY DEF finish, At
<1>2. worker[w].found \subseteq Candidate
  BY InTypes DEF WORKER
<1>3. Verdict(w) \in {"empty", "completed", "partial", "failed"} /\ (Verdict(w) = "failed") \in BOOLEAN
  BY DEF Verdict
<1>4. F \in SUBSET Candidate
  BY <1>2
<1>5. Verdict(w) = "completed" => F \subseteq settled
  <2> SUFFICES ASSUME Verdict(w) = "completed" PROVE worker[w].found \subseteq settled
    OBVIOUS
  <2>1. ~worker[w].errors
    BY DEF Verdict
  <2>2. worker[w].cand = None
    BY <1>1, InTypes DEF Busy
  <2>3. worker[w].found \ (worker[w].todo \cup {worker[w].cand}) \subseteq settled
    BY <1>1, <2>1 DEF IInv, Progress
  <2> QED BY <1>1, <1>2, <2>2, <2>3, WriteConstants
<1> HIDE DEF F
<1>6. extraction' \in EXTRACTION /\ extraction'.status = Verdict(w) /\ extraction'.found = F
  BY <1>1, <1>3, <1>4, MarkedState
<1>7. CompletedMeansSettled'
  BY <1>1, <1>5, <1>6 DEF CompletedMeansSettled, history, record
<1> QED BY <1>1, <1>3, <1>6, <1>7, ReturnsMarked

LEMMA ReserveStep ==
  ASSUME IInv, NEW w \in Worker, reserve_consolidation_run(w)
  PROVE  IInv'
<1> DEFINE r == [Resting EXCEPT !.pc = "sweep", !.sweeping = TRUE]
<1>1. /\ worker' = [worker EXCEPT ![w] = r] /\ (Event \/ UNCHANGED events)
      /\ sweep' = [sweep EXCEPT !.status = "running", !.owner = w]
      /\ UNCHANGED <<extraction, candidate, memory, pending, applied, keylock, identity,
                     editing, history>>
  BY DEF reserve_consolidation_run, rows, locks
<1>2. r \in WORKER /\ r.pc = "sweep" /\ r.cand = None
  BY SweepRow
<1> HIDE DEF r
<1>3. /\ worker' \in [Worker -> WORKER] /\ worker'[w] = r
      /\ \A v \in Worker \ {w} : worker'[v] = worker[v]
  BY <1>1, <1>2, InTypes, RowChanged
<1>4. worker'[w].pc \notin {"next"} \cup Busy /\ worker'[w].cand = None
  BY <1>2, <1>3 DEF Busy
<1>5. sweep' \in SWEEP
  BY <1>1, InTypes DEF SWEEP
<1>6. extraction' \in EXTRACTION /\ events' \in 0..MaxEvents
  BY <1>1, InTypes, Counted
<1> QED BY <1>1, <1>3, <1>4, <1>5, <1>6, RowOnly

LEMMA UnextractedStep ==
  ASSUME IInv, NEW w \in Worker, process_unextracted_notes(w)
  PROVE  IInv'
<1>1. /\ worker[w].pc = "sweep"
      /\ UNCHANGED <<candidate, memory, pending, applied, locks, sweep, editing, events, history>>
      /\ \/ Returned(w, FALSE) /\ UNCHANGED extraction
         \/ Goes(w, "check") /\ extraction' = Marked("failed", {})
         \/ Goes(w, "check") /\ UNCHANGED extraction
  <2> USE DEF process_unextracted_notes, At
  <2>0. CASE ~sweep.reaches
    BY <2>0
  <2>1. CASE sweep.reaches /\ extraction.status \in {"completed", "empty"}
    BY <2>1
  <2>2. CASE sweep.reaches /\ extraction.status = "processing" /\ ~is_processing_stale
    BY <2>2
  <2>3. CASE sweep.reaches /\ extraction.status = "processing" /\ is_processing_stale
    BY <2>3
  <2>4. CASE sweep.reaches /\ extraction.status \notin {"completed", "empty", "processing"}
    BY <2>4
  <2> QED BY <2>0, <2>1, <2>2, <2>3, <2>4
<1>2. UNCHANGED <<candidate, memory, pending, applied, keylock, identity, editing, history>>
  BY <1>1 DEF locks
<1>3. /\ extraction' \in EXTRACTION
      /\ extraction' = extraction \/ extraction'.status # "completed"
  <2>1. Marked("failed", {}) \in EXTRACTION /\ Marked("failed", {}).status = "failed"
    BY MarkedState
  <2>2. extraction \in EXTRACTION
    BY InTypes
  <2> QED BY <1>1, <2>1, <2>2
<1>4. extraction' = extraction \/ CompletedMeansSettled'
  BY <1>3 DEF CompletedMeansSettled
<1>5. CASE Returned(w, FALSE)
  BY <1>1, <1>3, <1>4, <1>5, ReturnsMarked
<1>6. CASE Goes(w, "check")
  <2>1. /\ worker' \in [Worker -> WORKER] /\ \A v \in Worker \ {w} : worker'[v] = worker[v]
        /\ worker'[w].pc = "check" /\ worker'[w].cand = worker[w].cand
    BY <1>6, InTypes, GoesRow
  <2>2. worker'[w].pc \notin {"next"} \cup Busy /\ worker'[w].cand = None
    BY <1>1, <2>1, InTypes DEF Busy
  <2>3. sweep' \in SWEEP /\ events' \in 0..MaxEvents
    BY <1>1, InTypes
  <2> QED BY <1>2, <1>3, <1>4, <2>1, <2>2, <2>3, RowOnly
<1> QED BY <1>1, <1>5, <1>6

LEMMA ConsolidationStep ==
  ASSUME IInv, NEW w \in Worker, mark_consolidation(w)
  PROVE  IInv'
<1>1. /\ worker' = [worker EXCEPT ![w] = Resting] /\ UNCHANGED events
      /\ UNCHANGED <<extraction, candidate, memory, pending, applied, keylock, identity,
                     editing, history>>
      /\ \/ sweep' = sweep
         \/ sweep' = [sweep EXCEPT !.status = "failed", !.owner = None]
         \/ sweep' = [sweep EXCEPT !.status = "completed", !.owner = None]
  BY DEF mark_consolidation, rows, locks
<1>2. /\ worker' \in [Worker -> WORKER] /\ worker'[w] = Resting
      /\ \A v \in Worker \ {w} : worker'[v] = worker[v]
  BY <1>1, InTypes, RestingRow, RowChanged
<1>3. worker'[w].pc \notin {"next"} \cup Busy /\ worker'[w].cand = None
  BY <1>2, RestingRow DEF Busy
<1>4. sweep' \in SWEEP
  BY <1>1, InTypes DEF SWEEP
<1>5. extraction' \in EXTRACTION /\ events' \in 0..MaxEvents
  BY <1>1, InTypes
<1> QED BY <1>1, <1>2, <1>3, <1>4, <1>5, RowOnly

LEMMA MergeStep ==
  ASSUME IInv, NEW w \in Worker, NEW D \in SUBSET Active, merge_duplicate_episodic(w, D)
  PROVE  IInv'
<1> DEFINE r == [Resting EXCEPT !.pc = "weekly", !.listed = D]
<1>1. /\ worker' = [worker EXCEPT ![w] = r] /\ Event
      /\ UNCHANGED <<extraction, candidate, memory, pending, applied, keylock, identity, sweep,
                     editing, history>>
  BY DEF merge_duplicate_episodic, rows, locks
<1>2. D \in SUBSET Memory
  BY DEF Active
<1>3. r \in WORKER /\ r.pc = "weekly" /\ r.cand = None
  BY <1>2, WeeklyRow
<1> HIDE DEF r
<1>4. /\ worker' \in [Worker -> WORKER] /\ worker'[w] = r
      /\ \A v \in Worker \ {w} : worker'[v] = worker[v]
  BY <1>1, <1>3, InTypes, RowChanged
<1>5. worker'[w].pc \notin {"next"} \cup Busy /\ worker'[w].cand = None
  BY <1>3, <1>4 DEF Busy
<1>6. extraction' \in EXTRACTION /\ sweep' \in SWEEP /\ events' \in 0..MaxEvents
  BY <1>1, InTypes, Counted
<1> QED BY <1>1, <1>4, <1>5, <1>6, RowOnly
-----------------------------------------------------------------------------
STATUS == Final \cup {"absent", "extracted", "processing", "failed"}

(* A worker goes on with its candidate, or gives it up.                     *)
LEMMA CandidateOnly ==
  ASSUME IInv, NEW w \in Worker, worker' \in [Worker -> WORKER],
         \A v \in Worker \ {w} : worker'[v] = worker[v], Leaves(w),
         UNCHANGED <<extraction, pending, applied, editing, history>>,
         candidate' \in [Candidate -> STATUS], CandidatesKept,
         memory' = memory \/ memory' = Unseen(memory, w),
         keylock' \in [Key -> Worker \cup {None, "dead"}], LocksKept,
         identity' \in [Key -> Worker \cup {None}],
         sweep' \in SWEEP, events' \in 0..MaxEvents
  PROVE  IInv'
<1>1. memory \in [Memory -> MEMORY]
  BY DEF IInv, TypeOK
<1>2. /\ memory' \in [Memory -> MEMORY]
      /\ \A m \in Memory : memory'[m].status = memory[m].status
                           /\ memory'[m].seen \subseteq memory[m].seen
  <2>1. CASE memory' = memory
    BY <1>1, <2>1
  <2>2. CASE memory' = Unseen(memory, w)
    BY <1>1, <2>2, UnseenCells
  <2> QED BY <2>1, <2>2
<1>3. MemoriesKept
  BY <1>2 DEF IInv, SeenIsActive, MemoriesKept
<1>4. TypeOK'
  BY <1>2 DEF IInv, TypeOK, SWEEP, STATUS, history, record
<1>5. WorkersLeave
  BY DEF WorkersLeave
<1>6. Quiet
  BY <1>3, <1>5, SameDecisions, SameOutrun DEF Quiet, history, record
<1> QED BY <1>4, <1>6, QuietStep

LEMMA GetStatusStep ==
  ASSUME IInv, NEW w \in Worker, NEW c \in Candidate, get_memory_candidate_status(w, c)
  PROVE  IInv'
<1>1. /\ worker[w].pc = "next"
      /\ UNCHANGED <<extraction, candidate, memory, pending, applied, keylock, identity, sweep,
                     editing, events, history>>
  BY DEF get_memory_candidate_status, rows, locks, At
<1>2. /\ worker' \in [Worker -> WORKER]
      /\ \A v \in Worker \ {w} : worker'[v] = worker[v]
      /\ worker'[w].cand = IF idempotent(c) THEN None ELSE c
      /\ worker'[w].pc = IF idempotent(c) THEN "next" ELSE "claim"
      /\ worker'[w].todo = worker[w].todo \ {c}
      /\ worker'[w].found = worker[w].found
      /\ worker'[w].errors = worker[w].errors
  BY InTypes, StatusRow
<1>3. worker[w].cand = None /\ worker[w].found \subseteq Candidate
  BY <1>1, InTypes DEF Busy, WORKER
<1>4. ~worker[w].errors => worker[w].found \ (worker[w].todo \cup {None}) \subseteq settled
  BY <1>1, <1>3 DEF IInv, Progress
<1>5. idempotent(c) => c \in settled
  BY DEF IInv, DecidedSettled, idempotent
<1>6. Leaves(w)
  <2>1. CASE idempotent(c)
    BY <1>2, <1>4, <1>5, <2>1 DEF Leaves, Busy
  <2>2. CASE ~idempotent(c)
    <3>1. /\ worker'[w].pc = "claim" /\ worker'[w].cand = c /\ c # None
          /\ candidate[c] \notin Final
      BY <1>2, <2>2, WriteConstants DEF idempotent
    <3>2. ~worker[w].errors =>
            worker[w].found \ ((worker[w].todo \ {c}) \cup {c}) \subseteq settled
      BY <1>3, <1>4, WriteConstants
    <3> QED BY <1>2, <3>1, <3>2 DEF Leaves, Busy
  <2> QED BY <2>1, <2>2
<1>7. LocksKept /\ CandidatesKept
  BY <1>1 DEF LocksKept, CandidatesKept
<1>8. /\ candidate' \in [Candidate -> STATUS]
      /\ keylock' \in [Key -> Worker \cup {None, "dead"}]
      /\ identity' \in [Key -> Worker \cup {None}]
  BY <1>1 DEF IInv, TypeOK, STATUS
<1>9. sweep' \in SWEEP /\ events' \in 0..MaxEvents
  BY <1>1, InTypes
<1> QED BY <1>1, <1>2, <1>6, <1>7, <1>8, <1>9, CandidateOnly

LEMMA CandidateMarked ==
  ASSUME IInv, NEW w \in Worker, worker[w].cand \in Candidate, NEW s \in STATUS,
         candidate' = [candidate EXCEPT ![worker[w].cand] = s],
         s \in Final => worker[w].cand \in settled, UNCHANGED history
  PROVE  candidate' \in [Candidate -> STATUS] /\ CandidatesKept
<1>1. candidate \in [Candidate -> STATUS]
  BY DEF IInv, TypeOK, STATUS
<1>2. candidate' \in [Candidate -> STATUS]
  BY <1>1
<1>3. \A c \in Candidate : candidate'[c] = IF c = worker[w].cand THEN s ELSE candidate[c]
  BY <1>1
<1> QED BY <1>2, <1>3 DEF CandidatesKept, history, record

LEMMA ClaimStep ==
  ASSUME IInv, NEW w \in Worker, mark_memory_candidate(w)
  PROVE  IInv'
<1>1. /\ worker[w].pc = "claim" /\ Goes(w, "adjudicate")
      /\ candidate' = [candidate EXCEPT ![worker[w].cand] = "processing"]
      /\ UNCHANGED <<extraction, memory, pending, applied, keylock, identity, sweep, editing,
                     events, history>>
  BY DEF mark_memory_candidate, locks, At
<1>2. worker[w].cand \in Candidate
  BY <1>1, InTypes DEF Busy
<1>3. /\ worker' \in [Worker -> WORKER]
      /\ \A v \in Worker \ {w} : worker'[v] = worker[v]
      /\ worker'[w].pc = "adjudicate" /\ worker'[w].cand = worker[w].cand
      /\ worker'[w].todo = worker[w].todo
      /\ worker'[w].found = worker[w].found
      /\ worker'[w].errors = worker[w].errors
  BY <1>1, InTypes, GoesRow
<1>4. ~worker[w].errors => worker[w].found \ (worker[w].todo \cup {worker[w].cand}) \subseteq settled
  BY <1>1 DEF IInv, Progress, Busy
<1>5. Leaves(w)
  BY <1>2, <1>3, <1>4, WriteConstants DEF Leaves, Busy
<1>6. "processing" \in STATUS /\ "processing" \notin Final
  BY DEF STATUS, Final
<1>7. candidate' \in [Candidate -> STATUS] /\ CandidatesKept
  BY <1>1, <1>2, <1>6, CandidateMarked
<1>8. LocksKept
  BY <1>1 DEF LocksKept
<1>9. /\ keylock' \in [Key -> Worker \cup {None, "dead"}]
      /\ identity' \in [Key -> Worker \cup {None}]
  BY <1>1 DEF IInv, TypeOK
<1>10. sweep' \in SWEEP /\ events' \in 0..MaxEvents
  BY <1>1, InTypes
<1> QED BY <1>1, <1>3, <1>5, <1>7, <1>8, <1>9, <1>10, CandidateOnly

(* The decision is recorded by then, so the status may say so.              *)
LEMMA MarkFinalStep ==
  ASSUME IInv, NEW w \in Worker, mark_final(w)
  PROVE  IInv'
<1> DEFINE r == [worker[w] EXCEPT !.pc = "next", !.results = TRUE, !.cand = None,
                                  !.decision = NoDecision]
<1>1. /\ worker[w].pc = "mark"
      /\ candidate' = [candidate EXCEPT ![worker[w].cand] = final_status(w)]
      /\ UNCHANGED <<extraction, memory, pending, applied, keylock, identity, sweep, editing,
                     events, history>>
  BY DEF mark_final, locks, At
<1>2. worker[w] \in WORKER /\ worker \in [Worker -> WORKER] /\ worker[w].cand \in Candidate
  BY <1>1, InTypes DEF Busy
<1>3. worker' = [worker EXCEPT ![w] = r]
  BY <1>2 DEF mark_final
<1>4. /\ r \in WORKER /\ r.pc = "next" /\ r.cand = None /\ r.todo = worker[w].todo
      /\ r.found = worker[w].found /\ r.errors = worker[w].errors
  BY <1>2, RestingRow DEF WORKER
<1> HIDE DEF r
<1>5. /\ worker' \in [Worker -> WORKER] /\ worker'[w] = r
      /\ \A v \in Worker \ {w} : worker'[v] = worker[v]
  BY <1>2, <1>3, <1>4, RowChanged
<1>6. ~worker[w].errors => worker[w].found \ (worker[w].todo \cup {worker[w].cand}) \subseteq settled
  BY <1>1 DEF IInv, Progress, Busy
<1>7. worker[w].cand \in settled
  BY <1>1 DEF IInv, DecidedSettled
<1>8. Leaves(w)
  BY <1>4, <1>5, <1>6, <1>7 DEF Leaves, Busy
<1>9. final_status(w) \in STATUS
  BY DEF final_status, STATUS, Final
<1>10. candidate' \in [Candidate -> STATUS] /\ CandidatesKept
  BY <1>1, <1>2, <1>7, <1>9, CandidateMarked
<1>11. LocksKept
  BY <1>1 DEF LocksKept
<1>12. /\ keylock' \in [Key -> Worker \cup {None, "dead"}]
       /\ identity' \in [Key -> Worker \cup {None}]
  BY <1>1 DEF IInv, TypeOK
<1>13. sweep' \in SWEEP /\ events' \in 0..MaxEvents
  BY <1>1, InTypes
<1> QED BY <1>1, <1>5, <1>8, <1>10, <1>11, <1>12, <1>13, CandidateOnly

LEMMA ExceptStep ==
  ASSUME IInv, NEW w \in Worker, worker[w].pc \in Busy, except(w), events' \in 0..MaxEvents
  PROVE  IInv'
<1> DEFINE r == [worker[w] EXCEPT !.pc = "next", !.errors = TRUE, !.cand = None,
                                  !.results = @ \/ At(w, "mark"), !.decision = NoDecision]
<1>1. /\ candidate' = [candidate EXCEPT ![worker[w].cand] = "failed"]
      /\ keylock' = [k \in Key |-> IF keylock[k] = w THEN None ELSE keylock[k]]
      /\ identity' = [k \in Key |-> IF identity[k] = w THEN None ELSE identity[k]]
      /\ memory' = Unseen(memory, w)
      /\ UNCHANGED <<extraction, pending, applied, sweep, editing, history>>
  BY DEF except, Released
<1>2. /\ worker[w] \in WORKER /\ worker \in [Worker -> WORKER] /\ worker[w].cand \in Candidate
      /\ At(w, "mark") \in BOOLEAN
  BY InTypes DEF At
<1>3. worker' = [worker EXCEPT ![w] = r]
  BY <1>2 DEF except
<1>4. r \in WORKER /\ r.pc = "next" /\ r.cand = None /\ r.errors = TRUE
  BY <1>2, RestingRow DEF WORKER
<1> HIDE DEF r
<1>5. /\ worker' \in [Worker -> WORKER] /\ worker'[w] = r
      /\ \A v \in Worker \ {w} : worker'[v] = worker[v]
  BY <1>2, <1>3, <1>4, RowChanged
<1>6. Leaves(w)
  BY <1>4, <1>5 DEF Leaves, Busy
<1>7. "failed" \in STATUS /\ "failed" \notin Final
  BY DEF STATUS, Final
<1>8. candidate' \in [Candidate -> STATUS] /\ CandidatesKept
  BY <1>1, <1>2, <1>7, CandidateMarked
<1>9. worker'[w] # worker[w]
  BY <1>2, <1>4, <1>5, WriteConstants
<1>10. LocksKept
  BY <1>1, <1>9 DEF LocksKept
<1>11. /\ keylock' \in [Key -> Worker \cup {None, "dead"}]
       /\ identity' \in [Key -> Worker \cup {None}]
  BY <1>1, InTypes, LocksFreed
<1>12. sweep' \in SWEEP
  BY <1>1, InTypes
<1> QED BY <1>1, <1>5, <1>6, <1>8, <1>10, <1>11, <1>12, CandidateOnly

LEMMA CrashStep ==
  ASSUME IInv, NEW w \in Worker, crash(w)
  PROVE  IInv'
<1>1. /\ Event /\ worker[w].pc # "idle" /\ worker' = [worker EXCEPT ![w] = Resting]
      /\ keylock' = [k \in Key |-> IF keylock[k] = w THEN "dead" ELSE keylock[k]]
      /\ identity' = [k \in Key |-> IF identity[k] = w THEN None ELSE identity[k]]
      /\ memory' = Unseen(memory, w)
      /\ sweep' = IF sweep.owner = w THEN [sweep EXCEPT !.owner = None] ELSE sweep
      /\ UNCHANGED <<extraction, candidate, pending, applied, editing, history>>
  BY DEF crash, At
<1>2. /\ worker' \in [Worker -> WORKER] /\ worker'[w] = Resting
      /\ \A v \in Worker \ {w} : worker'[v] = worker[v]
  BY <1>1, InTypes, RestingRow, RowChanged
<1>3. Leaves(w)
  BY <1>2, RestingRow DEF Leaves, Busy
<1>4. candidate' \in [Candidate -> STATUS]
  BY <1>1 DEF IInv, TypeOK, STATUS
<1>5. CandidatesKept
  BY <1>1 DEF CandidatesKept
<1>6. worker'[w] # worker[w]
  BY <1>1, <1>2, RestingRow
<1>7. LocksKept
  BY <1>1, <1>6 DEF LocksKept
<1>8. /\ keylock' \in [Key -> Worker \cup {None, "dead"}]
      /\ identity' \in [Key -> Worker \cup {None}]
  BY <1>1, InTypes, LocksFreed
<1>9. sweep' \in SWEEP
  <2>1. sweep \in SWEEP
    BY InTypes
  <2> QED BY <1>1, <2>1 DEF SWEEP
<1>10. events' \in 0..MaxEvents
  BY <1>1, InTypes, Counted
<1> QED BY <1>1, <1>2, <1>3, <1>4, <1>5, <1>7, <1>8, <1>9, <1>10, CandidateOnly
-----------------------------------------------------------------------------
(* Memories and decisions change under the workers.                         *)
LEMMA MemoryOnly ==
  ASSUME IInv, UNCHANGED <<extraction, candidate, keylock, identity, worker, sweep, record>>,
         memory' \in [Memory -> MEMORY], MemoriesKept, OutrunKept,
         pending' \in [Memory -> [cand: Candidate \cup {None}, decision: DECISION]],
         applied' \subseteq Candidate, DecisionsKept,
         editing' \in Memory \cup {None}, events' \in 0..MaxEvents
  PROVE  IInv'
<1>1. TypeOK'
  BY OutrunWorkers DEF IInv, TypeOK, record
<1>2. WorkersLeave /\ LocksKept /\ CandidatesKept
  BY DEF WorkersLeave, LocksKept, CandidatesKept
<1>3. Quiet
  BY <1>2 DEF Quiet, record
<1> QED BY <1>1, <1>3, QuietStep

LEMMA RowTypes ==
  ASSUME IInv
  PROVE  /\ memory \in [Memory -> MEMORY]
         /\ \A m \in Memory : memory[m] \in MEMORY
         /\ pending \in [Memory -> [cand: Candidate \cup {None}, decision: DECISION]]
         /\ applied \subseteq Candidate
         /\ editing \in Memory \cup {None}
         /\ keylock \in [Key -> Worker \cup {None, "dead"}]
         /\ identity \in [Key -> Worker \cup {None}]
         /\ effects \in [Candidate -> 0..2]
         /\ candidate \in [Candidate -> STATUS]
BY DEF IInv, TypeOK, STATUS

LEMMA VersionedKept ==
  ASSUME IInv, NEW M, M \cap Fresh = {}, NEW status \in {"active", "retired", "purged"},
         memory' = Versioned(M, status)
  PROVE  /\ memory' \in [Memory -> MEMORY] /\ MemoriesKept
         /\ \A m \in M \cap Memory : memory'[m].seen = {}
<1>1. /\ memory' \in [Memory -> MEMORY]
      /\ \A m \in Memory : IF m \in M THEN /\ memory'[m].status = status
                                           /\ memory'[m].seen = {}
                                      ELSE memory'[m] = memory[m]
  BY InTypes, VersionedCells
<1>2. \A m \in Memory : m \in M => memory[m].status # "absent"
  BY DEF Fresh
<1> QED BY <1>1, <1>2 DEF MemoriesKept, IInv, SeenIsActive

LEMMA ExpireStep ==
  ASSUME IInv, NEW w \in Worker, NEW M \in SUBSET Active, expire_due_memories(w, M)
  PROVE  IInv'
<1>1. /\ Event /\ memory' = Versioned(M, "retired") /\ Outruns(M)
      /\ UNCHANGED <<extraction, candidate, pending, applied, keylock, identity, worker, sweep,
                     editing, record>>
  BY DEF expire_due_memories, locks
<1>2. M \cap Fresh = {}
  BY DEF Active, Fresh
<1>3. memory' \in [Memory -> MEMORY] /\ MemoriesKept /\ OutrunKept
  BY <1>1, <1>2, VersionedKept DEF OutrunKept, Active
<1>4. DecisionsKept
  BY <1>1, SameDecisions
<1>5. /\ pending' \in [Memory -> [cand: Candidate \cup {None}, decision: DECISION]]
      /\ applied' \subseteq Candidate
      /\ editing' \in Memory \cup {None} /\ events' \in 0..MaxEvents
  BY <1>1, InTypes, RowTypes, Counted
<1> QED BY <1>1, <1>3, <1>4, <1>5, MemoryOnly

LEMMA SetStep ==
  ASSUME IInv, NEW m \in Memory, NEW status \in {"active", "retired", "purged"},
         set_memory(m, status)
  PROVE  IInv'
<1>1. /\ Event /\ memory' = Versioned({m}, status) /\ m \in Existing /\ Outruns({m})
      /\ UNCHANGED <<extraction, candidate, pending, applied, keylock, identity, worker, sweep,
                     editing, record>>
  BY DEF set_memory, locks
<1>2. {m} \cap Fresh = {}
  BY <1>1 DEF Existing, Fresh
<1>3. memory' \in [Memory -> MEMORY] /\ MemoriesKept /\ OutrunKept
  BY <1>1, <1>2, VersionedKept DEF OutrunKept, Active
<1>4. DecisionsKept
  BY <1>1, SameDecisions
<1>5. /\ pending' \in [Memory -> [cand: Candidate \cup {None}, decision: DECISION]]
      /\ applied' \subseteq Candidate
      /\ editing' \in Memory \cup {None} /\ events' \in 0..MaxEvents
  BY <1>1, InTypes, RowTypes, Counted
<1> QED BY <1>1, <1>3, <1>4, <1>5, MemoryOnly

LEMMA UpdateMemoryStep ==
  ASSUME IInv, NEW w \in Worker, NEW m \in Memory, update_memory(w, m)
  PROVE  IInv'
<1> DEFINE l == [worker[w] EXCEPT !.listed = @ \ {m}]
           r == IF worker[w].listed = {m} THEN Resting ELSE l
<1>1. /\ worker[w].pc = "weekly" /\ memory' = Versioned({m} \cap Existing, "retired")
      /\ worker' = [worker EXCEPT ![w] = r] /\ Outruns({m} \cap Existing)
      /\ UNCHANGED <<extraction, candidate, pending, applied, keylock, identity, sweep,
                     editing, events, record>>
  BY DEF update_memory, locks, At
<1>2. worker[w] \in WORKER /\ worker[w].cand = None
  BY <1>1, InTypes DEF Busy
<1>3. l \in WORKER /\ l.pc = "weekly" /\ l.cand = None
  BY <1>1, <1>2 DEF WORKER
<1>4. r \in WORKER /\ r.pc \in {"idle", "weekly"} /\ r.cand = None
  <2> HIDE DEF l
  <2> QED BY <1>3, RestingRow
<1> HIDE DEF r
<1>5. /\ worker' \in [Worker -> WORKER] /\ worker'[w] = r
      /\ \A v \in Worker \ {w} : worker'[v] = worker[v]
  BY <1>1, <1>4, InTypes, RowChanged
<1>6. WorkersLeave
  <2>1. worker'[w].pc \notin {"next"} \cup Busy /\ worker'[w].cand = None
    BY <1>4, <1>5 DEF Busy
  <2> QED BY <1>5, <2>1, OneLeaves
<1>7. ({m} \cap Existing) \cap Fresh = {}
  BY DEF Existing, Fresh
<1>8. memory' \in [Memory -> MEMORY] /\ MemoriesKept /\ OutrunKept
  BY <1>1, <1>7, VersionedKept DEF OutrunKept
<1>9. DecisionsKept
  BY <1>1, SameDecisions
<1>10. TypeOK'
  <2>1. outrun' \subseteq Worker
    BY <1>8, InTypes, OutrunWorkers
  <2> QED BY <1>1, <1>5, <1>8, <2>1 DEF IInv, TypeOK, record
<1>11. LocksKept /\ CandidatesKept
  BY <1>1 DEF LocksKept, CandidatesKept
<1>12. Quiet
  BY <1>1, <1>6, <1>8, <1>9, <1>11 DEF Quiet, record
<1> QED BY <1>10, <1>12, QuietStep

(* An approval closes the decision and puts its candidate on record.        *)
LEMMA ApproveKept ==
  ASSUME IInv, NEW m \in Memory, Approve(m)
  PROVE  /\ memory' \in [Memory -> MEMORY] /\ MemoriesKept
         /\ pending' \in [Memory -> [cand: Candidate \cup {None}, decision: DECISION]]
         /\ applied' \subseteq Candidate /\ DecisionsKept /\ OutrunKept
<1> DEFINE d == pending[m].decision
           t == d.target
<1>1. /\ Open(m) /\ t \in Memory /\ memory[t].status # "absent"
      /\ memory[m].status = "pending_review" /\ d.relation # "ambiguous_match"
  BY DEF Approve, Approvable, Existing
<1>2. d.relation \in {"merge", "supersede", "conflict"}
  BY <1>1 DEF IInv, SoundDecisions, Relation
<1>3. PICK s1, s2 : /\ s1 \in {memory[t].status, "retired"} /\ s2 \in {"active", "retired"}
                    /\ memory' = [memory EXCEPT ![t].status = s1, ![t].seen = {},
                                                ![m].status = s2, ![m].seen = {}]
  <2>1. CASE d.relation = "merge"
    <3>1. memory' = [memory EXCEPT ![t].status = memory[t].status, ![t].seen = {},
                                   ![m].status = "retired", ![m].seen = {}]
      BY <1>2, <2>1 DEF Approve
    <3> HIDE DEF t
    <3> QED BY <3>1
  <2>2. CASE d.relation = "supersede"
    <3>1. memory' = [memory EXCEPT ![t].status = "retired", ![t].seen = {},
                                   ![m].status = "active", ![m].seen = {}]
      BY <1>2, <2>2 DEF Approve
    <3> HIDE DEF t
    <3> QED BY <3>1
  <2>3. CASE d.relation = "conflict"
    <3>1. memory' = [memory EXCEPT ![t].status = "retired", ![t].seen = {},
                                   ![m].status = "retired", ![m].seen = {}]
      BY <1>2, <2>3 DEF Approve
    <3> HIDE DEF t
    <3> QED BY <3>1
  <2> QED BY <1>2, <2>1, <2>2, <2>3
<1>4. /\ applied' = applied \cup {pending[m].cand} /\ pending' = [pending EXCEPT ![m] = Closed]
      /\ Outruns({m, t})
  BY DEF Approve
<1>5. pending[m].cand \in Candidate
  BY <1>1, RowTypes DEF Open
<1>6. pending' \in [Memory -> [cand: Candidate \cup {None}, decision: DECISION]]
  BY <1>4, RowTypes, RestingRow
<1>7. applied' \subseteq Candidate
  BY <1>4, <1>5, RowTypes
<1>8. /\ pending'[m] = Closed /\ \A x \in Memory \ {m} : pending'[x] = pending[x]
  BY <1>4, RowTypes
<1>9. DecisionsKept
  <2>1. \A c \in Candidate : prior(c)' <=> prior(c)
    BY <1>4, <1>5, <1>8, RestingRow, WriteConstants DEF prior
  <2>2. \A x \in Memory : Open(x)' => Open(x) /\ pending'[x].decision.relation \in Relation
    BY <1>8, RestingRow DEF Open, IInv, SoundDecisions
  <2> QED BY <2>1, <2>2 DEF DecisionsKept
<1> HIDE DEF t
<1>10. \A x \in Memory :
         /\ memory'[x] \in MEMORY
         /\ x \in {t, m} => memory'[x].seen = {} /\ memory'[x].status # "absent"
         /\ x \notin {t, m} => memory'[x] = memory[x]
  <2>1. memory \in [Memory -> MEMORY] /\ memory[t] \in MEMORY /\ memory[m] \in MEMORY
    BY <1>1, RowTypes
  <2> DEFINE x1 == [memory[t] EXCEPT !.status = s1, !.seen = {}]
             M1 == [memory EXCEPT ![t] = x1]
             x2 == [M1[m] EXCEPT !.status = s2, !.seen = {}]
  <2>2. x1 \in MEMORY /\ x1.seen = {} /\ x1.status # "absent"
    BY <1>1, <1>3, <2>1 DEF MEMORY
  <2>3. memory' = [M1 EXCEPT ![m] = x2]
    BY <1>1, <1>3, <2>1
  <2> HIDE DEF x1
  <2>4. M1 \in [Memory -> MEMORY] /\ M1[m] \in MEMORY
    BY <1>1, <2>1, <2>2
  <2>5. M1[t] = x1 /\ \A x \in Memory \ {t} : M1[x] = memory[x]
    BY <1>1, <2>1
  <2> HIDE DEF M1
  <2>6. x2 \in MEMORY /\ x2.seen = {} /\ x2.status # "absent"
    BY <1>3, <2>4 DEF MEMORY
  <2> HIDE DEF x2
  <2> QED BY <1>1, <2>1, <2>2, <2>3, <2>4, <2>5, <2>6
<1>11. memory' \in [Memory -> MEMORY]
  <2>1. memory' = [x \in Memory |-> memory'[x]]
    BY <1>1, <1>3, RowTypes
  <2> QED BY <1>10, <2>1
<1>12. MemoriesKept
  BY <1>1, <1>10 DEF MemoriesKept, IInv, SeenIsActive
<1>13. OutrunKept
  BY <1>1, <1>4, <1>10 DEF OutrunKept
<1> QED BY <1>6, <1>7, <1>9, <1>11, <1>12, <1>13

LEMMA ApproveStep ==
  ASSUME IInv, NEW m \in Memory, approve_pending_memory(m)
  PROVE  IInv'
<1>1. /\ Event /\ Approve(m)
      /\ UNCHANGED <<extraction, candidate, keylock, identity, worker, sweep, editing, record>>
  BY DEF approve_pending_memory, locks
<1>2. editing' \in Memory \cup {None} /\ events' \in 0..MaxEvents
  BY <1>1, InTypes, RowTypes, Counted
<1> QED BY <1>1, <1>2, ApproveKept, MemoryOnly

LEMMA ApproveEditedStep ==
  ASSUME IInv, approve_edited
  PROVE  IInv'
<1>1. /\ editing \in Memory /\ editing' = None /\ UNCHANGED events
      /\ Approve(editing) \/ UNCHANGED <<memory, pending, applied, outrun>>
      /\ UNCHANGED <<extraction, candidate, keylock, identity, worker, sweep, record>>
  BY RowTypes DEF approve_edited, locks
<1>2. /\ memory' \in [Memory -> MEMORY] /\ MemoriesKept
      /\ pending' \in [Memory -> [cand: Candidate \cup {None}, decision: DECISION]]
      /\ applied' \subseteq Candidate /\ DecisionsKept /\ OutrunKept
  <2>1. CASE Approve(editing)
    BY <1>1, <2>1, ApproveKept
  <2>2. CASE UNCHANGED <<memory, pending, applied, outrun>>
    BY <2>2, RowTypes, SameMemories, SameDecisions, SameOutrun
  <2> QED BY <1>1, <2>1, <2>2
<1>3. editing' \in Memory \cup {None} /\ events' \in 0..MaxEvents
  BY <1>1, InTypes
<1> QED BY <1>1, <1>2, <1>3, MemoryOnly

LEMMA EditStep ==
  ASSUME IInv, NEW m \in Memory, NEW retarget \in BOOLEAN, edit_pending_memory(m, retarget)
  PROVE  IInv'
<1> DEFINE c == [memory[m] EXCEPT !.seen = {}]
           p == [pending[m] EXCEPT !.decision.relation = "merge"]
<1>1. /\ Event /\ editing' = m /\ memory' = [memory EXCEPT ![m].seen = {}]
      /\ memory[m].status = "pending_review"
      /\ pending' = pending \/ pending' = [pending EXCEPT ![m].decision.relation = "merge"]
      /\ Outruns({m})
      /\ UNCHANGED <<extraction, candidate, applied, keylock, identity, worker, sweep, record>>
  BY DEF edit_pending_memory, locks
<1>2. memory' = [memory EXCEPT ![m] = c] /\ c \in MEMORY /\ c.seen = {} /\ c.status = memory[m].status
  <2>1. memory \in [Memory -> MEMORY] /\ memory[m] \in MEMORY
    BY RowTypes
  <2>2. c \in MEMORY /\ c.seen = {} /\ c.status = memory[m].status
    BY <2>1 DEF MEMORY
  <2> QED BY <1>1, <2>1, <2>2
<1> HIDE DEF c
<1>3. memory' \in [Memory -> MEMORY] /\ MemoriesKept /\ OutrunKept
  <2>1. /\ memory' \in [Memory -> MEMORY] /\ memory'[m] = c
        /\ \A x \in Memory \ {m} : memory'[x] = memory[x]
    BY <1>2, RowTypes
  <2>2. MemoriesKept
    BY <1>1, <1>2, <2>1 DEF MemoriesKept, IInv, SeenIsActive
  <2>3. OutrunKept
    BY <1>1, <1>2, <2>1 DEF OutrunKept
  <2> QED BY <2>1, <2>2, <2>3
<1>4. /\ p \in [cand: Candidate \cup {None}, decision: DECISION]
      /\ p.cand = pending[m].cand /\ p.decision.relation = "merge"
  <2>1. pending[m] \in [cand: Candidate \cup {None}, decision: DECISION]
    BY RowTypes
  <2>2. pending[m].decision \in DECISION
    BY <2>1
  <2>3. /\ [pending[m].decision EXCEPT !.relation = "merge"] \in DECISION
        /\ [pending[m].decision EXCEPT !.relation = "merge"].relation = "merge"
    BY <2>2 DEF DECISION, Relation
  <2>4. p = [pending[m] EXCEPT !.decision = [pending[m].decision EXCEPT !.relation = "merge"]]
    BY <2>1
  <2> QED BY <2>1, <2>3, <2>4
<1>5. pending' = pending \/ pending' = [pending EXCEPT ![m] = p]
  BY <1>1, RowTypes
<1> HIDE DEF p
<1>6. /\ pending' \in [Memory -> [cand: Candidate \cup {None}, decision: DECISION]]
      /\ \A x \in Memory : /\ pending'[x].cand = pending[x].cand
                           /\ \/ pending'[x].decision.relation = pending[x].decision.relation
                              \/ pending'[x].decision.relation = "merge"
  BY <1>4, <1>5, RowTypes
<1>7. DecisionsKept
  BY <1>1, <1>6 DEF DecisionsKept, prior, Open, Relation, IInv, SoundDecisions
<1>8. applied' \subseteq Candidate /\ editing' \in Memory \cup {None} /\ events' \in 0..MaxEvents
  BY <1>1, InTypes, RowTypes, Counted
<1> QED BY <1>1, <1>3, <1>6, <1>7, <1>8, MemoryOnly

(* Time.                                                                    *)
LEMMA TimeStep ==
  ASSUME IInv,
         \/ \E k \in Key : lock_expires(k)
         \/ extraction_lease_over
         \/ next_day
         \/ index_changes
  PROVE  IInv'
<1>1. /\ UNCHANGED <<candidate, memory, pending, applied, identity, worker, editing, history>>
      /\ keylock' \in [Key -> Worker \cup {None, "dead"}] /\ LocksKept
      /\ sweep' \in SWEEP /\ events' \in 0..MaxEvents /\ extraction' \in EXTRACTION
      /\ extraction' = extraction
         \/ extraction'.status = "processing"
  <2>1. CASE \E k \in Key : lock_expires(k)
    <3>0. PICK k \in Key : lock_expires(k)
      BY <2>1
    <3>1. /\ keylock[k] = "dead" /\ keylock' = [keylock EXCEPT ![k] = None]
          /\ UNCHANGED <<extraction, candidate, memory, pending, applied, identity, worker, sweep,
                         editing, events, history>>
      BY <3>0 DEF lock_expires, rows
    <3>2. /\ keylock' \in [Key -> Worker \cup {None, "dead"}]
          /\ \A x \in Key : x # k => keylock'[x] = keylock[x]
      BY <3>1, RowTypes
    <3>3. LocksKept
      BY <3>1, <3>2, WriteConstants DEF LocksKept
    <3> QED BY <3>1, <3>2, <3>3, InTypes
  <2>2. CASE extraction_lease_over
    <3>1. /\ extraction.status = "processing" /\ (Event \/ UNCHANGED events)
          /\ extraction' = [extraction EXCEPT !.stale = TRUE]
          /\ UNCHANGED <<candidate, memory, pending, applied, keylock, identity, worker, sweep,
                         editing, history>>
      BY <2>2 DEF extraction_lease_over, locks
    <3>2. extraction \in EXTRACTION
      BY InTypes
    <3>3. extraction' \in EXTRACTION /\ extraction'.status = "processing"
      BY <3>1, <3>2 DEF EXTRACTION
    <3>4. LocksKept
      BY <3>1 DEF LocksKept
    <3>5. events' \in 0..MaxEvents
      BY <3>1, InTypes, Counted
    <3> QED BY <3>1, <3>3, <3>4, <3>5, InTypes, RowTypes
  <2>3. CASE next_day \/ index_changes
    <3>1. /\ \/ sweep' = [sweep EXCEPT !.status = "due", !.owner = None]
             \/ sweep' = [sweep EXCEPT !.reaches = ~@]
          /\ Event \/ UNCHANGED events
          /\ UNCHANGED <<extraction, candidate, memory, pending, applied, keylock, identity, worker,
                         editing, history>>
      BY <2>3 DEF next_day, index_changes, rows, locks
    <3>2. sweep' \in SWEEP
      BY <3>1, InTypes DEF SWEEP
    <3>3. LocksKept
      BY <3>1 DEF LocksKept
    <3>4. events' \in 0..MaxEvents
      BY <3>1, InTypes, Counted
    <3> QED BY <3>1, <3>2, <3>3, <3>4, InTypes, RowTypes
  <2> QED BY <2>1, <2>2, <2>3
<1>2. TypeOK'
  BY <1>1 DEF IInv, TypeOK, SWEEP, EXTRACTION, history, record
<1>3. extraction' = extraction \/ CompletedMeansSettled'
  BY <1>1 DEF CompletedMeansSettled
<1>4. WorkersLeave /\ CandidatesKept
  BY <1>1 DEF WorkersLeave, CandidatesKept
<1>5. MemoriesKept /\ DecisionsKept
  BY <1>1, SameMemories, SameDecisions
<1>6. Quiet
  BY <1>1, <1>3, <1>4, <1>5, SameOutrun DEF Quiet, history, record
<1> QED BY <1>2, <1>6, QuietStep
-----------------------------------------------------------------------------
(* A rejected candidate is discarded for good, or a worker is still on it.  *)
LEMMA RejectStep ==
  ASSUME IInv, NEW m \in Memory, reject_pending_memory(m)
  PROVE  IInv'
<1> DEFINE c == pending[m].cand
<1>1. /\ Event /\ memory[m].status = "pending_review" /\ memory' = Versioned({m}, "retired")
      /\ pending' = [pending EXCEPT ![m] = Closed]
      /\ candidate' = IF Open(m) THEN [candidate EXCEPT ![c] = "discarded"] ELSE candidate
      /\ overtaken' = IF \E w \in Worker : worker[w].cand = c THEN overtaken \cup ({c} \ {None})
                                                              ELSE overtaken
      /\ Outruns({m})
      /\ UNCHANGED <<extraction, applied, keylock, identity, worker, sweep, editing, effects,
                     settled, unlocked>>
  BY DEF reject_pending_memory, locks
<1>2. c \in Candidate \cup {None} /\ (Open(m) <=> c # None)
  BY RowTypes DEF Open
<1>3. /\ pending' \in [Memory -> [cand: Candidate \cup {None}, decision: DECISION]]
      /\ pending'[m] = Closed /\ \A x \in Memory \ {m} : pending'[x] = pending[x]
  BY <1>1, RowTypes, RestingRow
<1>4. /\ candidate' \in [Candidate -> STATUS]
      /\ \A x \in Candidate : candidate'[x] = IF x = c THEN "discarded" ELSE candidate[x]
  <2>1. "discarded" \in STATUS
    BY DEF STATUS, Final
  <2> QED BY <1>1, <1>2, <2>1, RowTypes, WriteConstants
<1>5. overtaken' \subseteq Candidate /\ overtaken \subseteq overtaken'
  BY <1>1, <1>2 DEF IInv, TypeOK
<1>6. {m} \cap Fresh = {}
  BY <1>1 DEF Fresh
<1>7. memory' \in [Memory -> MEMORY] /\ MemoriesKept /\ OutrunKept
  BY <1>1, <1>6, VersionedKept DEF OutrunKept
<1>8. TypeOK'
  <2>1. events' \in 0..MaxEvents /\ outrun' \subseteq Worker
    BY <1>1, <1>7, InTypes, Counted, OutrunWorkers
  <2> QED BY <1>1, <1>3, <1>4, <1>5, <1>7, <2>1 DEF IInv, TypeOK, STATUS
<1>9. DecisionsKept
  <2>1. \A x \in Candidate : prior(x)' => prior(x)
    BY <1>1, <1>3, RestingRow, WriteConstants DEF prior
  <2>2. ASSUME NEW x \in Candidate, prior(x), ~prior(x)'
        PROVE  \/ x \in overtaken'
               \/ candidate'[x] = "discarded" /\ \A w \in Worker : worker'[w].cand # x
    <3>1. x = c
      BY <1>1, <1>3, <2>2 DEF prior
    <3>2. x \in {c} \ {None}
      BY <3>1, WriteConstants
    <3> QED BY <1>1, <1>4, <3>1, <3>2
  <2>3. \A x \in Memory : Open(x)' => Open(x) /\ pending'[x].decision.relation \in Relation
    BY <1>3, RestingRow DEF Open, IInv, SoundDecisions
  <2> QED BY <2>1, <2>2, <2>3 DEF DecisionsKept
<1>10. CandidatesKept
  <2>1. c \in Candidate => c \in settled
    BY DEF IInv, DecidedSettled, prior
  <2> QED BY <1>1, <1>4, <2>1 DEF CandidatesKept
<1>11. WorkersLeave /\ LocksKept
  BY <1>1 DEF WorkersLeave, LocksKept
<1>12. Quiet
  BY <1>1, <1>5, <1>7, <1>9, <1>10, <1>11 DEF Quiet
<1> QED BY <1>8, <1>12, QuietStep

LEMMA LostStep ==
  ASSUME IInv, NEW w \in Worker, lock_lost(w)
  PROVE  IInv'
<1> DEFINE k == KeyOf[worker[w].cand]
<1>1. /\ Event /\ worker[w].pc \in {"apply", "write"} /\ keylock[k] = w
      /\ keylock' = [keylock EXCEPT ![k] = None]
      /\ unlocked' = unlocked \cup {worker[w].cand}
      /\ UNCHANGED <<extraction, candidate, memory, pending, applied, identity, worker, sweep,
                     editing, effects, settled, overtaken, outrun>>
  BY DEF lock_lost, rows
<1>2. worker[w].cand \in Candidate
  BY <1>1, InTypes DEF Busy
<1>3. k \in Key
  BY <1>2, WriteConstants
<1> HIDE DEF k
<1>4. /\ keylock' \in [Key -> Worker \cup {None, "dead"}]
      /\ \A x \in Key : x # k => keylock'[x] = keylock[x]
  BY <1>1, <1>3, RowTypes
<1>5. TypeOK'
  <2>1. events' \in 0..MaxEvents
    BY <1>1, InTypes, Counted
  <2> QED BY <1>1, <1>2, <1>4, <2>1 DEF IInv, TypeOK
<1>6. LocksKept
  BY <1>1, <1>4 DEF LocksKept
<1>7. WorkersLeave /\ CandidatesKept
  BY <1>1 DEF WorkersLeave, CandidatesKept
<1>8. MemoriesKept /\ DecisionsKept
  BY <1>1, SameMemories, SameDecisions
<1>9. Quiet
  BY <1>1, <1>6, <1>7, <1>8, SameOutrun DEF Quiet
<1> QED BY <1>5, <1>9, QuietStep

LEMMA ExtractStep ==
  ASSUME IInv, NEW w \in Worker, NEW E \in SUBSET Candidate, NEW V \in SUBSET E,
         extract_candidates(w, E, V)
  PROVE  IInv'
<1> DEFINE r == [worker[w] EXCEPT !.pc = "next", !.found = E \ V, !.todo = E \ V]
<1>1. /\ worker[w].pc = "extract"
      /\ candidate' = [c \in Candidate |-> IF c \in V THEN "discarded"
                                           ELSE IF c \in E /\ candidate[c] = "absent"
                                           THEN "extracted" ELSE candidate[c]]
      /\ settled' = settled \cup V
      /\ UNCHANGED <<extraction, memory, pending, applied, keylock, identity, sweep, editing,
                     events, effects, unlocked, overtaken, outrun>>
  BY DEF extract_candidates, locks, At
<1>2. worker[w] \in WORKER /\ worker \in [Worker -> WORKER] /\ worker[w].cand = None
  BY <1>1, InTypes DEF Busy
<1>3. worker' = [worker EXCEPT ![w] = r]
  BY <1>2 DEF extract_candidates
<1>4. r \in WORKER /\ r.pc = "next" /\ r.cand = None /\ r.found = r.todo
  BY <1>2 DEF WORKER
<1> HIDE DEF r
<1>5. /\ worker' \in [Worker -> WORKER] /\ worker'[w] = r
      /\ \A v \in Worker \ {w} : worker'[v] = worker[v]
  BY <1>2, <1>3, <1>4, RowChanged
<1>6. WorkersLeave
  <2>1. Leaves(w)
    BY <1>4, <1>5 DEF Leaves, Busy
  <2> QED BY <1>5, <2>1 DEF WorkersLeave
<1>7. candidate' \in [Candidate -> STATUS]
  BY <1>1, RowTypes DEF STATUS, Final
<1>8. CandidatesKept
  <2>1. \A c \in Candidate :
          candidate'[c] = IF c \in V THEN "discarded"
                          ELSE IF c \in E /\ candidate[c] = "absent"
                          THEN "extracted" ELSE candidate[c]
    BY <1>1
  <2> QED BY <1>1, <2>1 DEF CandidatesKept, Final
<1>9. settled' \subseteq Candidate
  BY <1>1 DEF IInv, TypeOK
<1>10. TypeOK'
  BY <1>1, <1>5, <1>7, <1>9 DEF IInv, TypeOK, STATUS
<1>11. LocksKept
  BY <1>1 DEF LocksKept
<1>12. MemoriesKept /\ DecisionsKept
  BY <1>1, SameMemories, SameDecisions
<1>13. Quiet
  BY <1>1, <1>6, <1>8, <1>11, <1>12, SameOutrun DEF Quiet
<1> QED BY <1>10, <1>13, QuietStep
-----------------------------------------------------------------------------
(* A worker goes on to its decision, or to writing it.                      *)
LEMMA GoesOn ==
  ASSUME IInv, NEW w \in Worker, worker[w].pc \in {"adjudicate", "apply"},
         \A v \in Worker \ {w} : worker'[v] = worker[v],
         worker'[w].pc \in {"apply", "write"}, worker'[w].cand = worker[w].cand,
         worker'[w].found = worker[w].found, worker'[w].todo = worker[w].todo,
         worker'[w].errors = worker[w].errors,
         UNCHANGED <<extraction, candidate, pending, applied, record>>,
         TypeOK', Sound(worker'[w].decision), SeenIsActive', CopiesCurrent', EnoughIds', LockHeld',
         FirstWrite'
  PROVE  IInv'
<1>1. UNCHANGED <<effects, settled, unlocked, overtaken>>
  BY DEF record
<1>2. \A v \in Worker : worker'[v].cand = worker[v].cand
  OBVIOUS
<1>3. HasCandidate'
  BY <1>2 DEF IInv, HasCandidate, Busy
<1>4. SoundDecisions'
  BY DEF IInv, SoundDecisions, Open
<1>5. ActedOnRecord'
  BY <1>1, <1>2 DEF IInv, ActedOnRecord, prior
<1>6. AppliedOnce' /\ CompletedMeansSettled'
  BY <1>1 DEF IInv, AppliedOnce, CompletedMeansSettled
<1>7. DecidedSettled'
  BY <1>1 DEF IInv, DecidedSettled, prior
<1>8. Progress'
  BY <1>1 DEF IInv, Progress, Busy
<1> QED BY <1>3, <1>4, <1>5, <1>6, <1>7, <1>8 DEF IInv

LEMMA SoundDecision ==
  ASSUME NEW d \in Decisions
  PROVE  d \in DECISION /\ Sound(d) /\ d.target \in Active \cup {None}
<1>1. Active \subseteq Memory /\ None \notin Active
  BY WriteConstants DEF Active
<1>2. d \in DECISION
  BY <1>1 DEF Decisions, DECISION, Relation
<1>3. Sound(d) /\ d.target \in Active \cup {None}
  BY <1>1 DEF Decisions, Sound, Relation
<1> QED BY <1>2, <1>3

LEMMA ConsolidateStep ==
  ASSUME IInv, NEW w \in Worker, NEW d \in Decisions, consolidate_candidate(w, d)
  PROVE  IInv'
<1> DEFINE k == KeyOf[worker[w].cand]
           r == [worker[w] EXCEPT !.decision = d, !.pc = "apply"]
<1>1. /\ worker[w].pc = "adjudicate" /\ keylock[k] = None
      /\ keylock' = [keylock EXCEPT ![k] = w]
      /\ Room(w) \/ d.action = "discard"
      /\ memory' = IF d.target = None THEN memory
                   ELSE [memory EXCEPT ![d.target].seen = @ \cup {w}]
      /\ outrun' = outrun \ {w}
      /\ UNCHANGED <<extraction, candidate, pending, applied, identity, sweep, editing, events,
                     record>>
  BY DEF consolidate_candidate, At
<1>2. worker[w] \in WORKER /\ worker \in [Worker -> WORKER] /\ worker[w].cand \in Candidate
  BY <1>1, InTypes DEF Busy
<1>3. d \in DECISION /\ Sound(d) /\ d.target \in Active \cup {None}
  BY SoundDecision
<1>4. worker' = [worker EXCEPT ![w] = r]
  BY <1>2 DEF consolidate_candidate
<1>5. /\ r \in WORKER /\ r.pc = "apply" /\ r.cand = worker[w].cand /\ r.decision = d
      /\ r.found = worker[w].found /\ r.todo = worker[w].todo /\ r.errors = worker[w].errors
  BY <1>2, <1>3 DEF WORKER
<1>6. k \in Key
  BY <1>2, WriteConstants
<1> HIDE DEF r, k
<1>7. /\ worker' \in [Worker -> WORKER] /\ worker'[w] = r
      /\ \A v \in Worker \ {w} : worker'[v] = worker[v]
  BY <1>2, <1>4, <1>5, RowChanged
<1>8. /\ memory' \in [Memory -> MEMORY]
      /\ \A m \in Memory : /\ memory'[m].status = memory[m].status
                           /\ memory'[m].seen # memory[m].seen => memory[m].status = "active"
                           /\ memory'[m].seen \subseteq memory[m].seen \cup {w}
  <2>1. CASE d.target = None
    BY <1>1, <2>1, RowTypes
  <2>2. CASE d.target # None
    <3> DEFINE t == d.target
               x == [memory[t] EXCEPT !.seen = @ \cup {w}]
    <3>1. t \in Memory /\ memory[t].status = "active" /\ memory[t] \in MEMORY
      BY <1>3, <2>2, RowTypes DEF Active
    <3>2. memory' = [memory EXCEPT ![t] = x]
      BY <1>1, <2>2, <3>1, RowTypes
    <3>3. x \in MEMORY /\ x.status = memory[t].status /\ x.seen = memory[t].seen \cup {w}
      BY <3>1 DEF MEMORY
    <3> HIDE DEF x, t
    <3> QED BY <3>1, <3>2, <3>3, RowTypes
  <2> QED BY <2>1, <2>2
<1>9. /\ keylock' \in [Key -> Worker \cup {None, "dead"}] /\ keylock'[k] = w
      /\ \A x \in Key : x # k => keylock'[x] = keylock[x]
  BY <1>1, <1>6, RowTypes
<1>10. TypeOK'
  BY <1>1, <1>7, <1>8, <1>9 DEF IInv, TypeOK, record
<1>11. SeenIsActive' /\ CopiesCurrent'
  <2>1. SeenIsActive'
    BY <1>8 DEF IInv, SeenIsActive
  <2>2. \A v \in outrun' : v \in outrun /\ v \in Worker \ {w}
    BY <1>1 DEF IInv, TypeOK
  <2>3. CopiesCurrent'
    BY <1>7, <1>8, <2>2 DEF IInv, CopiesCurrent
  <2> QED BY <2>1, <2>3
<1>12. EnoughIds'
  <2>1. Fresh' = Fresh
    BY <1>8 DEF Fresh
  <2>2. \A m \in Fresh' : ~Open(m)'
    BY <1>1, <2>1 DEF IInv, EnoughIds, Open
  <2>3. IsFiniteSet(Fresh) /\ IsFiniteSet(Needing)
    BY WriteConstants, FS_Subset DEF Fresh, Needing
  <2>4. Cardinality(Needing') <= Cardinality(Fresh)
    <3>1. CASE d.action = "discard"
      <4>1. Needing' \subseteq Needing
        BY <1>1, <1>5, <1>7, <3>1 DEF Needing
      <4>2. IsFiniteSet(Needing') /\ Cardinality(Needing') <= Cardinality(Needing)
        BY <2>3, <4>1, FS_Subset
      <4>3. Cardinality(Needing) <= Cardinality(Fresh)
        BY DEF IInv, EnoughIds
      <4>4. /\ Cardinality(Needing) \in Nat /\ Cardinality(Needing') \in Nat
            /\ Cardinality(Fresh) \in Nat
        BY <2>3, <4>2, FS_CardinalityType
      <4> QED BY <4>2, <4>3, <4>4
    <3>2. CASE Room(w)
      <4> DEFINE O == {v \in Worker \ {w} : worker[v].pc \in {"apply", "write"}}
      <4>1. IsFiniteSet(Worker)
        BY WriteConstants
      <4>2. O \subseteq Worker
        OBVIOUS
      <4>3. IsFiniteSet(O) /\ w \notin O
        BY <4>1, <4>2, FS_Subset
      <4>4. Cardinality(Fresh) > Cardinality(O)
        BY <3>2 DEF Room
      <4>5. Needing' \subseteq O \cup {w}
        BY <1>7 DEF Needing
      <4> HIDE DEF O
      <4>6. IsFiniteSet(O \cup {w}) /\ Cardinality(O \cup {w}) = Cardinality(O) + 1
        BY <4>3, FS_AddElement
      <4>7. IsFiniteSet(Needing') /\ Cardinality(Needing') <= Cardinality(O \cup {w})
        BY <4>5, <4>6, FS_Subset
      <4>8. /\ Cardinality(O) \in Nat /\ Cardinality(Needing') \in Nat
            /\ Cardinality(Fresh) \in Nat
        BY <2>3, <4>3, <4>7, FS_CardinalityType
      <4> QED BY <4>4, <4>6, <4>7, <4>8
    <3> QED BY <1>1, <3>1, <3>2
  <2> QED BY <2>1, <2>2, <2>4 DEF EnoughIds
<1>13. LockHeld'
  <2> SUFFICES ASSUME NEW v \in Worker, worker'[v].pc \in {"apply", "write"},
                      worker'[v].cand \notin unlocked'
               PROVE  keylock'[KeyOf[worker'[v].cand]] = v
    BY DEF LockHeld
  <2>1. CASE v = w
    BY <1>5, <1>7, <1>9, <2>1 DEF k
  <2>2. CASE v # w
    <3>1. worker'[v] = worker[v] /\ unlocked' = unlocked
      BY <1>1, <1>7, <2>2 DEF record
    <3>2. keylock[KeyOf[worker[v].cand]] = v
      BY <3>1 DEF IInv, LockHeld
    <3>3. worker[v].cand \in Candidate
      BY <3>1, InTypes DEF Busy
    <3>4. KeyOf[worker[v].cand] \in Key
      BY <3>3, WriteConstants
    <3>5. KeyOf[worker[v].cand] # k
      BY <1>1, <3>2, WriteConstants
    <3> QED BY <1>9, <3>1, <3>2, <3>4, <3>5
  <2> QED BY <2>1, <2>2
<1>14. FirstWrite'
  <2> SUFFICES ASSUME NEW v \in Worker, worker'[v].pc = "write",
                      worker'[v].cand \notin unlocked' \cup overtaken'
               PROVE  /\ ~prior(worker[v].cand)' /\ effects'[worker[v].cand] = 0
                      /\ worker'[v].cand = worker[v].cand
    BY DEF FirstWrite, prior
  <2>1. worker'[v] = worker[v] /\ UNCHANGED <<effects, unlocked, overtaken>>
    BY <1>1, <1>5, <1>7 DEF record
  <2>2. ~prior(worker[v].cand) /\ effects[worker[v].cand] = 0
    BY <2>1 DEF IInv, FirstWrite
  <2>3. prior(worker[v].cand)' <=> prior(worker[v].cand)
    BY <1>1, <2>1 DEF prior
  <2> QED BY <2>1, <2>2, <2>3
<1>15. worker'[w].decision = d /\ Sound(worker'[w].decision)
  BY <1>3, <1>5, <1>7
<1>16. /\ worker[w].pc \in {"adjudicate", "apply"} /\ worker'[w].pc \in {"apply", "write"}
       /\ worker'[w].cand = worker[w].cand /\ worker'[w].found = worker[w].found
       /\ worker'[w].todo = worker[w].todo /\ worker'[w].errors = worker[w].errors
  BY <1>1, <1>5, <1>7
<1> QED BY <1>1, <1>7, <1>10, <1>11, <1>12, <1>13, <1>14, <1>15, <1>16, GoesOn

(* A candidate with a decision is answered from it; whoever goes on to      *)
(* write is the first.                                                      *)
LEMMA ApplyStep ==
  ASSUME IInv, NEW w \in Worker, apply_memory_decision(w)
  PROVE  IInv'
<1> DEFINE c == worker[w].cand
           k == candidate_for_evolution(w)
<1>1. /\ worker[w].pc = "apply"
      /\ UNCHANGED <<extraction, candidate, pending, applied, sweep, editing, events, history>>
  BY DEF apply_memory_decision, At
<1>2. worker[w] \in WORKER /\ worker \in [Worker -> WORKER] /\ c \in Candidate
  BY <1>1, InTypes DEF Busy
<1>3. sweep' \in SWEEP /\ events' \in 0..MaxEvents
  BY <1>1, InTypes
<1>4. CASE prior(c)
  <2> DEFINE a == IF c \in applied THEN "add_source" ELSE "pending_review"
             p == [NoDecision EXCEPT !.action = a]
             r == [worker[w] EXCEPT !.pc = "mark", !.decision = p]
  <2>1. /\ keylock' = [x \in Key |-> IF keylock[x] = w THEN None ELSE keylock[x]]
        /\ memory' = Unseen(memory, w) /\ UNCHANGED identity
        /\ worker' = [worker EXCEPT ![w].pc = "mark", ![w].decision = p]
    BY <1>4 DEF apply_memory_decision, Released
  <2>2. p \in DECISION
    <3>1. a \in {"add_source", "pending_review"}
      OBVIOUS
    <3> HIDE DEF a
    <3> QED BY <3>1, RestingRow DEF DECISION
  <2> HIDE DEF p
  <2>3. worker' = [worker EXCEPT ![w] = r]
    BY <1>2, <2>1
  <2>4. /\ r \in WORKER /\ r.pc = "mark" /\ r.cand = c
        /\ r.found = worker[w].found /\ r.todo = worker[w].todo /\ r.errors = worker[w].errors
    BY <1>2, <2>2 DEF WORKER
  <2> HIDE DEF r
  <2>5. /\ worker' \in [Worker -> WORKER] /\ worker'[w] = r
        /\ \A v \in Worker \ {w} : worker'[v] = worker[v]
    BY <1>2, <2>3, <2>4, RowChanged
  <2>6. c \in settled
    BY <1>2, <1>4 DEF IInv, DecidedSettled
  <2>7. ~worker[w].errors => worker[w].found \ (worker[w].todo \cup {c}) \subseteq settled
    BY <1>1 DEF IInv, Progress, Busy
  <2>8. Leaves(w)
    BY <1>2, <2>4, <2>5, <2>6, <2>7, WriteConstants DEF Leaves, Busy
  <2>9. worker'[w] # worker[w]
    BY <1>1, <2>4, <2>5
  <2>10. LocksKept /\ CandidatesKept
    BY <1>1, <2>1, <2>9 DEF LocksKept, CandidatesKept
  <2>11. /\ candidate' \in [Candidate -> STATUS]
         /\ keylock' \in [Key -> Worker \cup {None, "dead"}]
         /\ identity' \in [Key -> Worker \cup {None}]
    BY <1>1, <2>1, RowTypes, InTypes, LocksFreed
  <2> QED BY <1>1, <1>3, <2>1, <2>5, <2>8, <2>10, <2>11, CandidateOnly
<1>5. CASE ~prior(c)
  <2>1. /\ Goes(w, "write") /\ identity' = [identity EXCEPT ![k] = w]
        /\ UNCHANGED <<keylock, memory>>
    BY <1>5 DEF apply_memory_decision
  <2>2. /\ worker' \in [Worker -> WORKER] /\ \A v \in Worker \ {w} : worker'[v] = worker[v]
        /\ worker'[w].pc = "write" /\ worker'[w].cand = worker[w].cand
        /\ worker'[w].found = worker[w].found /\ worker'[w].todo = worker[w].todo
        /\ worker'[w].errors = worker[w].errors /\ worker'[w].decision = worker[w].decision
    BY <2>1, InTypes, GoesRow
  <2>3. identity' \in [Key -> Worker \cup {None}]
    BY <2>1, RowTypes
  <2>4. TypeOK'
    BY <1>1, <2>1, <2>2, <2>3 DEF IInv, TypeOK, history, record
  <2>5. Sound(worker'[w].decision)
    BY <1>1, <2>2 DEF IInv, SoundDecisions
  <2>6. SeenIsActive' /\ CopiesCurrent' /\ UNCHANGED record
    <3>1. UNCHANGED <<record, outrun>>
      BY <1>1 DEF history
    <3>2. CopiesCurrent'
      BY <1>1, <2>1, <2>2, <3>1 DEF IInv, TypeOK, CopiesCurrent
    <3> QED BY <2>1, <3>1, <3>2 DEF IInv, SeenIsActive
  <2>7. EnoughIds'
    <3>1. Fresh' = Fresh
      BY <2>1 DEF Fresh
    <3>2. Needing' = Needing
      BY <1>1, <2>2 DEF Needing
    <3>3. \A m \in Fresh' : ~Open(m)'
      BY <1>1, <3>1 DEF IInv, EnoughIds, Open
    <3>4. Cardinality(Needing') <= Cardinality(Fresh')
      BY <3>1, <3>2 DEF IInv, EnoughIds
    <3> QED BY <3>3, <3>4 DEF EnoughIds
  <2>8. LockHeld'
    BY <1>1, <2>1, <2>2 DEF IInv, LockHeld, history, record
  <2>9. FirstWrite'
    <3> SUFFICES ASSUME NEW v \in Worker, worker'[v].pc = "write",
                        worker'[v].cand \notin unlocked' \cup overtaken'
                 PROVE  /\ ~prior(worker[v].cand)' /\ effects'[worker[v].cand] = 0
                        /\ worker'[v].cand = worker[v].cand
      BY DEF FirstWrite, prior
    <3>1. worker'[v].cand = worker[v].cand /\ UNCHANGED <<effects, unlocked, overtaken>>
      BY <1>1, <2>2 DEF history, record
    <3>2. ~prior(worker[v].cand) /\ effects[worker[v].cand] = 0
      <4>1. CASE v = w
        <5>1. ~(effects[c] >= 1)
          BY <1>2, <1>5, <3>1, <4>1 DEF IInv, ActedOnRecord
        <5>2. effects[c] \in 0..2
          BY <1>2, RowTypes
        <5> QED BY <1>5, <4>1, <5>1, <5>2
      <4>2. CASE v # w
        BY <2>2, <3>1, <4>2 DEF IInv, FirstWrite
      <4> QED BY <4>1, <4>2
    <3>3. prior(worker[v].cand)' <=> prior(worker[v].cand)
      BY <1>1, <3>1 DEF prior
    <3> QED BY <3>1, <3>2, <3>3
  <2>10. worker[w].pc \in {"adjudicate", "apply"} /\ worker'[w].pc \in {"apply", "write"}
    BY <1>1, <2>2
  <2> QED BY <1>1, <2>2, <2>4, <2>5, <2>6, <2>7, <2>8, <2>9, <2>10, GoesOn
<1> QED BY <1>4, <1>5

LEMMA RevisedDecision ==
  ASSUME IInv, NEW w \in Worker, NEW same_state \in BOOLEAN, worker[w].pc = "write"
  PROVE  LET d == Revised(w, same_state)
         IN  /\ d \in DECISION /\ Sound(d) /\ d.target = worker[w].decision.target
             /\ d.action # "discard" => w \in Needing
             /\ d.action \in {"update", "supersede"} => snapshot_current(w, d.target)
<1> DEFINE o == worker[w].decision
           a == [o EXCEPT !.action = "add_source", !.relation = "none"]
           p == [o EXCEPT !.action = "pending_review", !.relation = "conflict"]
           d == Revised(w, same_state)
<1>1. o \in DECISION /\ Sound(o)
  <2>1. worker[w] \in WORKER
    BY InTypes
  <2> QED BY <2>1 DEF IInv, SoundDecisions, WORKER
<1>2. snapshot_current(w, o.target) => d = o
  BY DEF Revised
<1>3. ~snapshot_current(w, o.target) => d \in {a, p} /\ o.target # None
  BY DEF Revised, snapshot_current
<1>4. /\ a \in DECISION /\ a.action = "add_source" /\ a.target = o.target
      /\ p \in DECISION /\ p.action = "pending_review" /\ p.relation = "conflict"
      /\ p.target = o.target
  BY <1>1 DEF DECISION, Relation
<1>5. o.action = "discard" => o.target = None
  BY <1>1 DEF Sound
<1>6. o.action # "discard" => w \in Needing
  BY DEF Needing
<1> HIDE DEF a, p, d
<1>7. CASE snapshot_current(w, o.target)
  BY <1>1, <1>2, <1>6, <1>7 DEF d
<1>8. CASE ~snapshot_current(w, o.target)
  <2>1. w \in Needing
    BY <1>3, <1>5, <1>6, <1>8
  <2>2. Sound(d)
    BY <1>3, <1>4, <1>8 DEF Sound, Relation
  <2>3. /\ d \in DECISION /\ d.target = o.target
        /\ d.action \in {"add_source", "pending_review"}
    BY <1>3, <1>4, <1>8
  <2> QED BY <2>1, <2>2, <2>3 DEF d
<1> QED BY <1>7, <1>8

LEMMA FreshId ==
  ASSUME IInv, NEW w \in Needing
  PROVE  (CHOOSE m \in Fresh : TRUE) \in Fresh
<1>1. IsFiniteSet(Needing) /\ IsFiniteSet(Fresh)
  BY WriteConstants, FS_Subset DEF Needing, Fresh
<1>2. Cardinality(Needing) <= Cardinality(Fresh)
  BY DEF IInv, EnoughIds
<1>3. Cardinality(Needing) # 0 /\ Cardinality(Needing) \in Nat /\ Cardinality(Fresh) \in Nat
  BY <1>1, FS_CardinalityType, FS_EmptySet
<1>4. Fresh # {}
  BY <1>2, <1>3, FS_EmptySet
<1> QED BY <1>4

(* What a write does to the memories: it uses a new id or none, and what it *)
(* changes nobody's copy is current of.                                     *)
Adds == {"insert", "pending_review", "supersede"}

LEMMA WrittenMemories ==
  ASSUME IInv, NEW w \in Worker, NEW same_state \in BOOLEAN, NEW D \in SUBSET Active,
         write(w, same_state, D), NEW d, d = Revised(w, same_state),
         NEW new, new = CHOOSE m \in Fresh : TRUE
  PROVE  /\ memory' \in [Memory -> MEMORY]
         /\ SeenIsActive' /\ OutrunKept
         /\ \A m \in Memory : memory'[m].seen \subseteq memory[m].seen
         /\ d.action \in Adds => new \in Fresh /\ Fresh' = Fresh \ {new}
         /\ d.action \notin Adds => Fresh' = Fresh
<1> DEFINE c == worker[w].cand
           row(status) == [status |-> status, key |-> KeyOf[c], seen |-> {}]
           archived == Versioned(D, "retired")
           t == d.target
           M == D \cup IF d.action \in {"update", "supersede"} THEN {t} ELSE {}
<1>1. /\ worker[w].pc = "write" /\ (t # None => t \in Existing) /\ D \subseteq Active \ {t}
      /\ D # {} => d.action \in {"add_source", "update"}
      /\ Outruns(M)
  BY DEF write, At
<1>2. d \in DECISION /\ Sound(d) /\ (d.action # "discard" => w \in Needing)
  BY <1>1, RevisedDecision
<1>3. d.action \in {"discard", "insert", "pending_review", "add_source", "update", "supersede"}
  BY <1>2 DEF DECISION, Sound
<1>4. d.action \in Adds => new \in Fresh
  BY <1>2, FreshId DEF Adds
<1>5. c \in Candidate /\ KeyOf[c] \in Key
  <2>1. c \in Candidate
    BY <1>1, InTypes DEF Busy
  <2> QED BY <2>1, WriteConstants
<1>6. \A s \in {"active", "pending_review"} :
        row(s) \in MEMORY /\ row(s).status = s /\ row(s).seen = {}
  BY <1>5 DEF MEMORY
<1>7. /\ archived \in [Memory -> MEMORY]
      /\ \A m \in Memory : IF m \in D THEN archived[m].status = "retired" /\ archived[m].seen = {}
                                      ELSE archived[m] = memory[m]
  BY InTypes, VersionedCells
<1>8. \A m \in Memory : m \in D => memory[m].status # "absent"
  BY DEF Active
<1>9. memory \in [Memory -> MEMORY] /\ SeenIsActive
  BY RowTypes DEF IInv
<1>10. d.action \in {"update", "supersede"} => t \in Memory /\ memory[t].status # "absent"
  BY <1>1, <1>2 DEF Sound, Existing
<1> DEFINE Good(R) ==
             /\ R \in [Memory -> MEMORY]
             /\ \A m \in Memory : R[m].seen # {} => R[m].status = "active"
             /\ \A m \in Memory : R[m].seen \subseteq memory[m].seen
             /\ \A m \in M : R[m].seen = {}
             /\ d.action \in Adds => R[new].status # "absent"
             /\ \A m \in Memory : (d.action \in Adds /\ m = new)
                                  \/ (R[m].status = "absent" <=> memory[m].status = "absent")
<1>11. \E R : memory' = Unseen(R, w) /\ Good(R)
  <2>1. CASE d.action = "discard"
    <3>1. memory' = Unseen(memory, w)
      BY <2>1 DEF write
    <3>2. Good(memory)
      BY <1>1, <1>9, <2>1 DEF SeenIsActive, Adds
    <3> QED BY <3>1, <3>2
  <2>2. CASE d.action \in {"insert", "pending_review"}
    <3> DEFINE s == IF d.action = "insert" THEN "active" ELSE "pending_review"
               x == row(s)
               R == [memory EXCEPT ![new] = x]
    <3>1. memory' = Unseen(R, w)
      <4>1. CASE d.action = "insert"
        BY <4>1 DEF write
      <4>2. CASE d.action = "pending_review"
        BY <4>2 DEF write
      <4> QED BY <2>2, <4>1, <4>2
    <3>2. new \in Memory /\ x \in MEMORY /\ x.status # "absent" /\ x.seen = {}
      <4>1. s \in {"active", "pending_review"}
        OBVIOUS
      <4>2. new \in Memory
        BY <1>4, <2>2 DEF Adds, Fresh
      <4> HIDE DEF s
      <4>3. x \in MEMORY /\ x.status = s /\ x.seen = {}
        BY <1>6, <4>1
      <4> QED BY <4>1, <4>2, <4>3
    <3>3. d.action \in Adds
      BY <2>2 DEF Adds
    <3> HIDE DEF x
    <3>4. /\ R \in [Memory -> MEMORY] /\ R[new] = x
          /\ \A m \in Memory \ {new} : R[m] = memory[m]
      BY <1>9, <3>2
    <3> HIDE DEF R
    <3>5. Good(R)
      BY <1>1, <1>9, <2>2, <3>2, <3>3, <3>4 DEF SeenIsActive
    <3> QED BY <3>1, <3>5
  <2>3. CASE d.action = "add_source"
    <3>1. memory' = Unseen(archived, w)
      BY <2>3 DEF write
    <3> HIDE DEF archived
    <3>2. Good(archived)
      BY <1>7, <1>8, <1>9, <2>3 DEF SeenIsActive, Adds, Active
    <3> QED BY <3>1, <3>2
  <2>4. CASE d.action = "update"
    <3> DEFINE R == [archived EXCEPT ![t].seen = {}]
               x == [archived[t] EXCEPT !.seen = {}]
    <3>1. memory' = Unseen(R, w)
      BY <2>4 DEF write
    <3> HIDE DEF archived
    <3>2. t \in Memory /\ archived[t] \in MEMORY /\ t \notin D
      BY <1>1, <1>7, <1>10, <2>4
    <3>3. R = [archived EXCEPT ![t] = x]
      BY <1>7, <3>2
    <3>4. x \in MEMORY /\ x.seen = {} /\ x.status = archived[t].status
      BY <3>2 DEF MEMORY
    <3> HIDE DEF x, R
    <3>5. /\ R \in [Memory -> MEMORY] /\ R[t] = x
          /\ \A m \in Memory \ {t} : R[m] = archived[m]
      BY <1>7, <3>2, <3>3, <3>4
    <3>6. Good(R)
      BY <1>7, <1>8, <1>9, <2>4, <3>2, <3>4, <3>5 DEF SeenIsActive, Adds, Active
    <3> QED BY <3>1, <3>6
  <2>5. CASE d.action = "supersede"
    <3> DEFINE R == [memory EXCEPT ![t].status = "retired", ![t].seen = {}, ![new] = row("active")]
               x == [memory[t] EXCEPT !.status = "retired", !.seen = {}]
               y == row("active")
    <3>1. memory' = Unseen(R, w)
      BY <2>5 DEF write
    <3>2. t \in Memory /\ memory[t] \in MEMORY /\ memory[t].status # "absent"
      BY <1>9, <1>10, <2>5
    <3>3. d.action \in Adds /\ new \in Memory /\ memory[new].status = "absent"
      BY <1>4, <2>5 DEF Adds, Fresh
    <3>4. y \in MEMORY /\ y.status = "active" /\ y.seen = {}
      BY <1>6
    <3>5. x \in MEMORY /\ x.status = "retired" /\ x.seen = {}
      BY <3>2 DEF MEMORY
    <3>6. R = [[memory EXCEPT ![t] = x] EXCEPT ![new] = y]
      BY <1>9, <3>2, <3>3
    <3> HIDE DEF x, y, R
    <3>7. /\ R \in [Memory -> MEMORY] /\ R[new] = y /\ R[t] = x
          /\ \A m \in Memory \ {t, new} : R[m] = memory[m]
      BY <1>9, <3>2, <3>3, <3>4, <3>5, <3>6
    <3>8. Good(R)
      BY <1>1, <1>9, <2>5, <3>2, <3>3, <3>4, <3>5, <3>7 DEF SeenIsActive
    <3> QED BY <3>1, <3>8
  <2> QED BY <1>3, <2>1, <2>2, <2>3, <2>4, <2>5
<1>12. PICK R : memory' = Unseen(R, w) /\ Good(R)
  BY <1>11
<1>13. /\ memory' \in [Memory -> MEMORY]
       /\ \A m \in Memory : memory'[m].status = R[m].status /\ memory'[m].seen \subseteq R[m].seen
  BY <1>12, UnseenCells
<1>14. SeenIsActive'
  BY <1>12, <1>13 DEF SeenIsActive
<1>15. ASSUME d.action \in Adds
       PROVE  new \in Fresh /\ Fresh' = Fresh \ {new}
  <2>1. new \in Fresh
    BY <1>4, <1>15
  <2>2. new \in Memory
    BY <2>1 DEF Fresh
  <2>3. memory'[new].status # "absent"
    BY <1>12, <1>13, <1>15, <2>2
  <2>4. \A m \in Memory \ {new} : memory'[m].status = "absent" <=> memory[m].status = "absent"
    BY <1>12, <1>13
  <2>5. Fresh' = {m \in Memory : memory'[m].status = "absent"}
    BY DEF Fresh
  <2>6. \A m \in Memory : m \in Fresh <=> memory[m].status = "absent"
    BY DEF Fresh
  <2>7. Fresh \subseteq Memory
    BY DEF Fresh
  <2> QED BY <2>1, <2>2, <2>3, <2>4, <2>5, <2>6, <2>7
<1>16. d.action \notin Adds => Fresh' = Fresh
  BY <1>12, <1>13 DEF Fresh
<1>17. M \subseteq Memory
  BY <1>10 DEF Active
<1>18. OutrunKept
  BY <1>1, <1>12, <1>13, <1>17 DEF OutrunKept
<1>19. \A m \in Memory : memory'[m].seen \subseteq memory[m].seen
  BY <1>12, <1>13
<1> QED BY <1>13, <1>14, <1>15, <1>16, <1>18, <1>19

LEMMA WriteStep ==
  ASSUME IInv, NEW w \in Worker, NEW same_state \in BOOLEAN, NEW D \in SUBSET Active,
         write(w, same_state, D)
  PROVE  IInv'
<1> DEFINE c == worker[w].cand
           d == Revised(w, same_state)
           new == CHOOSE m \in Fresh : TRUE
           p == [cand |-> c, decision |-> d]
           q == [NoDecision EXCEPT !.action = d.action]
           r == [worker[w] EXCEPT !.pc = "mark", !.decision = q]
           e == IF effects[c] = 2 THEN 2 ELSE effects[c] + 1
<1>1. /\ worker[w].pc = "write"
      /\ pending' = IF d.action = "pending_review" THEN [pending EXCEPT ![new] = p] ELSE pending
      /\ applied' = IF d.action = "pending_review" THEN applied ELSE applied \cup {c}
      /\ effects' = [effects EXCEPT ![c] = e]
      /\ settled' = settled \cup {c}
      /\ keylock' = [k \in Key |-> IF keylock[k] = w THEN None ELSE keylock[k]]
      /\ identity' = [k \in Key |-> IF identity[k] = w THEN None ELSE identity[k]]
      /\ worker' = [worker EXCEPT ![w].pc = "mark", ![w].decision = q]
      /\ UNCHANGED <<extraction, candidate, sweep, editing, events, unlocked, overtaken>>
  BY DEF write, Released, At
<1>2. worker[w] \in WORKER /\ worker \in [Worker -> WORKER] /\ c \in Candidate
  BY <1>1, InTypes DEF Busy
<1>3. d \in DECISION /\ Sound(d) /\ (d.action # "discard" => w \in Needing)
  BY <1>1, RevisedDecision
<1>4. /\ memory' \in [Memory -> MEMORY]
      /\ SeenIsActive' /\ OutrunKept
      /\ \A m \in Memory : memory'[m].seen \subseteq memory[m].seen
      /\ d.action \in Adds => new \in Fresh /\ Fresh' = Fresh \ {new}
      /\ d.action \notin Adds => Fresh' = Fresh
  BY WrittenMemories
<1> HIDE DEF d, new
<1>5. q \in DECISION
  <2>1. d.action \in {"none", "discard", "insert", "add_source", "update", "supersede",
                      "pending_review"}
    BY <1>3 DEF DECISION
  <2> QED BY <2>1, RestingRow DEF DECISION
<1> HIDE DEF q
<1>6. worker' = [worker EXCEPT ![w] = r]
  BY <1>1, <1>2
<1>7. /\ r \in WORKER /\ r.pc = "mark" /\ r.cand = c
      /\ r.found = worker[w].found /\ r.todo = worker[w].todo /\ r.errors = worker[w].errors
  BY <1>2, <1>5 DEF WORKER
<1> HIDE DEF r
<1>8. /\ worker' \in [Worker -> WORKER] /\ worker'[w] = r
      /\ \A v \in Worker \ {w} : worker'[v] = worker[v]
  BY <1>2, <1>6, <1>7, RowChanged
<1>9. \A v \in Worker : worker'[v].cand = worker[v].cand
  BY <1>7, <1>8
<1>10. p \in [cand: Candidate \cup {None}, decision: DECISION] /\ p.cand = c /\ p.decision = d
  BY <1>2, <1>3
<1> HIDE DEF p
<1>11. d.action = "pending_review" =>
         /\ new \in Memory /\ new \in Fresh /\ ~Open(new)
         /\ d.relation \in Relation /\ new \notin Fresh'
  BY <1>3, <1>4 DEF Adds, Sound, Fresh, IInv, EnoughIds
<1>12. /\ pending' \in [Memory -> [cand: Candidate \cup {None}, decision: DECISION]]
       /\ \A m \in Memory : pending'[m] = IF d.action = "pending_review" /\ m = new THEN p
                                          ELSE pending[m]
  BY <1>1, <1>10, <1>11, RowTypes
<1>13. /\ effects' \in [Candidate -> 0..2] /\ effects'[c] = e
       /\ \A x \in Candidate \ {c} : effects'[x] = effects[x]
  <2>1. effects \in [Candidate -> 0..2] /\ effects[c] \in 0..2
    BY <1>2, RowTypes
  <2>2. e \in 0..2
    BY <2>1
  <2> HIDE DEF e
  <2> QED BY <1>1, <1>2, <2>1, <2>2
<1>14. applied' \subseteq Candidate /\ settled' \subseteq Candidate
  BY <1>1, <1>2 DEF IInv, TypeOK
<1>15. /\ keylock' \in [Key -> Worker \cup {None, "dead"}]
       /\ identity' \in [Key -> Worker \cup {None}]
  BY <1>1, InTypes, LocksFreed
<1>16. TypeOK'
  <2>1. outrun' \subseteq Worker
    BY <1>4, InTypes, OutrunWorkers
  <2> QED BY <1>1, <1>4, <1>8, <1>12, <1>13, <1>14, <1>15, <2>1 DEF IInv, TypeOK
<1>17. \A x \in Candidate : prior(x)' <=> x = c \/ prior(x)
  <2>1. CASE d.action = "pending_review"
    <3>1. applied' = applied /\ new \in Memory /\ pending'[new].cand = c /\ pending[new].cand = None
      BY <1>1, <1>10, <1>11, <1>12, <2>1 DEF Open
    <3>2. \A m \in Memory : m # new => pending'[m] = pending[m]
      BY <1>12
    <3> QED BY <3>1, <3>2, WriteConstants DEF prior
  <2>2. CASE d.action # "pending_review"
    BY <1>1, <2>2 DEF prior
  <2> QED BY <2>1, <2>2
<1>18. HasCandidate'
  BY <1>1, <1>7, <1>8 DEF IInv, HasCandidate, Busy
<1>19. SoundDecisions'
  <2>1. \A v \in Worker : worker'[v].pc \in {"apply", "write"} => Sound(worker'[v].decision)
    BY <1>7, <1>8 DEF IInv, SoundDecisions
  <2>2. \A m \in Memory : Open(m)' => pending'[m].decision.relation \in Relation
    BY <1>10, <1>11, <1>12 DEF IInv, SoundDecisions, Open
  <2> QED BY <2>1, <2>2 DEF SoundDecisions
<1>20. EnoughIds'
  <2>1. \A m \in Fresh' : ~Open(m)'
    <3>1. Fresh' \subseteq Fresh
      BY <1>4
    <3>2. \A m \in Fresh : m \in Memory /\ ~Open(m)
      BY DEF IInv, EnoughIds, Fresh
    <3>3. \A m \in Fresh' : pending'[m] = pending[m]
      BY <1>11, <1>12, <3>1, <3>2
    <3> QED BY <3>1, <3>2, <3>3 DEF Open
  <2>2. Needing' \subseteq Needing \ {w}
    BY <1>7, <1>8 DEF Needing
  <2>3. IsFiniteSet(Needing) /\ IsFiniteSet(Fresh)
    BY WriteConstants, FS_Subset DEF Needing, Fresh
  <2>4. Cardinality(Needing) <= Cardinality(Fresh)
    BY DEF IInv, EnoughIds
  <2>5. Cardinality(Needing) \in Nat /\ Cardinality(Fresh) \in Nat
    BY <2>3, FS_CardinalityType
  <2>6. IsFiniteSet(Needing \ {w})
    BY <2>3, FS_Subset
  <2>7. IsFiniteSet(Needing') /\ Cardinality(Needing') <= Cardinality(Needing \ {w})
    BY <2>2, <2>6, FS_Subset
  <2>8. Cardinality(Needing') \in Nat /\ Cardinality(Needing \ {w}) \in Nat
    BY <2>6, <2>7, FS_CardinalityType
  <2>9. CASE d.action \in Adds
    <3>1. w \in Needing /\ new \in Fresh /\ Fresh' = Fresh \ {new}
      BY <1>3, <1>4, <2>9 DEF Adds
    <3>2. Cardinality(Needing \ {w}) = Cardinality(Needing) - 1
      BY <2>3, <3>1, FS_RemoveElement
    <3>3. Cardinality(Fresh \ {new}) = Cardinality(Fresh) - 1
      BY <2>3, <3>1, FS_RemoveElement
    <3>4. Cardinality(Needing') <= Cardinality(Fresh')
      BY <2>4, <2>5, <2>7, <2>8, <3>1, <3>2, <3>3
    <3> QED BY <2>1, <3>4 DEF EnoughIds
  <2>10. CASE d.action \notin Adds
    <3>1. Cardinality(Needing \ {w}) <= Cardinality(Needing)
      BY <2>3, FS_Subset
    <3>2. Fresh' = Fresh
      BY <1>4, <2>10
    <3>3. Cardinality(Needing') <= Cardinality(Fresh')
      BY <2>4, <2>5, <2>7, <2>8, <3>1, <3>2
    <3> QED BY <2>1, <3>3 DEF EnoughIds
  <2> QED BY <2>9, <2>10
<1>21. LockHeld'
  <2> SUFFICES ASSUME NEW v \in Worker, worker'[v].pc \in {"apply", "write"},
                      worker'[v].cand \notin unlocked'
               PROVE  keylock'[KeyOf[worker'[v].cand]] = v
    BY DEF LockHeld
  <2>1. v # w /\ worker'[v] = worker[v] /\ unlocked' = unlocked
    BY <1>1, <1>7, <1>8
  <2>2. keylock[KeyOf[worker[v].cand]] = v
    BY <2>1 DEF IInv, LockHeld
  <2>3. worker[v].cand \in Candidate
    BY <2>1, InTypes DEF Busy
  <2>4. KeyOf[worker[v].cand] \in Key
    BY <2>3, WriteConstants
  <2> QED BY <1>1, <2>1, <2>2, <2>4
<1>22. ActedOnRecord'
  <2> SUFFICES ASSUME NEW x \in Candidate, effects'[x] >= 1, x \notin overtaken', ~prior(x)'
               PROVE  candidate'[x] = "discarded" /\ \A v \in Worker : worker'[v].cand # x
    BY DEF ActedOnRecord
  <2>1. x # c /\ ~prior(x)
    BY <1>17
  <2>2. effects[x] >= 1 /\ x \notin overtaken
    BY <1>1, <1>13, <2>1
  <2> QED BY <1>1, <1>9, <2>1, <2>2 DEF IInv, ActedOnRecord
<1>23. FirstWrite'
  <2> SUFFICES ASSUME NEW v \in Worker, worker'[v].pc = "write",
                      worker'[v].cand \notin unlocked' \cup overtaken'
               PROVE  /\ ~prior(worker[v].cand)' /\ effects'[worker[v].cand] = 0
                      /\ worker'[v].cand = worker[v].cand
    BY DEF FirstWrite, prior
  <2>1. v # w /\ worker'[v] = worker[v] /\ UNCHANGED <<unlocked, overtaken>>
    BY <1>1, <1>7, <1>8
  <2>2. worker[v].pc = "write" /\ worker[v].cand \notin unlocked \cup overtaken
    BY <2>1
  <2>3. ~prior(worker[v].cand) /\ effects[worker[v].cand] = 0
    BY <2>2 DEF IInv, FirstWrite
  <2>4. worker[v].cand # c
    <3> SUFFICES ASSUME worker[v].cand = c PROVE FALSE
      OBVIOUS
    <3>1. keylock[KeyOf[c]] = v
      BY <2>2 DEF IInv, LockHeld
    <3>2. keylock[KeyOf[c]] = w
      BY <1>1, <2>2 DEF IInv, LockHeld
    <3> QED BY <2>1, <3>1, <3>2
  <2>5. worker[v].cand \in Candidate
    BY <2>2, InTypes DEF Busy
  <2>6. effects'[worker[v].cand] = 0
    BY <1>13, <2>3, <2>4, <2>5
  <2>7. prior(worker[v].cand)' <=> worker[v].cand = c \/ prior(worker[v].cand)
    <3>1. \A x \in Candidate : prior(x)' <=> x = c \/ prior(x)
      BY <1>17
    <3> QED BY <2>1, <2>5, <3>1 DEF prior
  <2> QED BY <2>1, <2>3, <2>4, <2>6, <2>7
<1>24. AppliedOnce'
  <2> SUFFICES ASSUME NEW x \in Candidate, effects'[x] > 1
               PROVE  x \in unlocked' \cup overtaken'
    BY DEF AppliedOnce
  <2>1. CASE x = c
    <3>1. effects[c] # 0
      BY <1>13, <2>1
    <3> QED BY <1>1, <2>1, <3>1 DEF IInv, FirstWrite
  <2>2. CASE x # c
    BY <1>1, <1>13, <2>2 DEF IInv, AppliedOnce
  <2> QED BY <2>1, <2>2
<1>25. DecidedSettled'
  <2>1. \A x \in Candidate : candidate'[x] \in Final => x \in settled'
    BY <1>1 DEF IInv, DecidedSettled
  <2>2. \A x \in Candidate : prior(x)' => x \in settled'
    BY <1>1, <1>17 DEF IInv, DecidedSettled
  <2>3. \A v \in Worker : worker'[v].pc = "mark" => worker'[v].cand \in settled'
    BY <1>1, <1>7, <1>8 DEF IInv, DecidedSettled
  <2> QED BY <2>1, <2>2, <2>3 DEF DecidedSettled
<1>26. Progress'
  BY <1>1, <1>7, <1>8 DEF IInv, Progress, Busy
<1>27. CompletedMeansSettled'
  BY <1>1 DEF IInv, CompletedMeansSettled
<1>28. CopiesCurrent'
  <2>1. \A v \in Worker : worker'[v].pc \in {"apply", "write"} => worker'[v] = worker[v]
    BY <1>7, <1>8
  <2> QED BY <1>4, <2>1, CopiesStay DEF IInv
<1> QED BY <1>4, <1>16, <1>18, <1>19, <1>20, <1>21, <1>22, <1>23, <1>24, <1>25, <1>26, <1>27, <1>28
        DEF IInv
-----------------------------------------------------------------------------
LEMMA InitInvariant == Init => IInv
<1> SUFFICES ASSUME Init PROVE IInv
  OBVIOUS
<1>1. /\ extraction = [status |-> "none", stale |-> FALSE, found |-> {}]
      /\ candidate = [c \in Candidate |-> "absent"]
      /\ memory = [m \in Memory |-> IF m \in Known
                                     THEN [status |-> "active", key |-> KnownKey[m], seen |-> {}]
                                     ELSE NoMemory]
      /\ pending = [m \in Memory |-> Closed] /\ applied = {}
      /\ keylock = [k \in Key |-> None] /\ identity = [k \in Key |-> None]
      /\ worker = [w \in Worker |-> Resting]
      /\ sweep \in [status: {"due"}, owner: {None}, reaches: BOOLEAN]
      /\ editing = None /\ events = 0 /\ outrun = {}
      /\ effects = [c \in Candidate |-> 0] /\ settled = {} /\ unlocked = {} /\ overtaken = {}
  BY DEF Init
<1>2. memory \in [Memory -> MEMORY] /\ \A m \in Memory : memory[m].seen = {}
  <2>1. ASSUME NEW m \in Memory
        PROVE  memory[m] \in MEMORY /\ memory[m].seen = {}
    <3>1. CASE m \in Known
      <4>1. memory[m] = [status |-> "active", key |-> KnownKey[m], seen |-> {}]
        BY <1>1, <3>1
      <4>2. KnownKey[m] \in Key
        BY <3>1, WriteConstants
      <4> QED BY <4>1, <4>2 DEF MEMORY
    <3>2. CASE m \notin Known
      <4>1. memory[m] = NoMemory
        BY <1>1, <3>2
      <4> QED BY <4>1 DEF MEMORY, NoMemory
    <3> QED BY <3>1, <3>2
  <2>2. memory = [m \in Memory |-> memory[m]]
    BY <1>1
  <2> QED BY <2>1, <2>2
<1>3. extraction \in EXTRACTION /\ sweep \in SWEEP
  BY <1>1 DEF EXTRACTION, SWEEP
<1>4. /\ worker \in [Worker -> WORKER] /\ \A w \in Worker : worker[w] = Resting
      /\ pending \in [Memory -> [cand: Candidate \cup {None}, decision: DECISION]]
      /\ \A m \in Memory : pending[m] = Closed
  BY <1>1, RestingRow
<1>5. candidate \in [Candidate -> STATUS] /\ \A c \in Candidate : candidate[c] = "absent"
  BY <1>1 DEF STATUS
<1>6. /\ keylock \in [Key -> Worker \cup {None, "dead"}] /\ identity \in [Key -> Worker \cup {None}]
      /\ effects \in [Candidate -> 0..2] /\ \A c \in Candidate : effects[c] = 0
  BY <1>1
<1>7. events \in 0..MaxEvents
  BY <1>1, WriteConstants
<1>8. TypeOK
  BY <1>1, <1>2, <1>3, <1>4, <1>5, <1>6, <1>7 DEF TypeOK, EXTRACTION, SWEEP, STATUS
<1>9. HasCandidate /\ LockHeld /\ FirstWrite /\ Progress
  BY <1>4, RestingRow DEF HasCandidate, LockHeld, FirstWrite, Progress, Busy
<1>10. SoundDecisions /\ SeenIsActive
  BY <1>2, <1>4, RestingRow DEF SoundDecisions, SeenIsActive, Open
<1>11. EnoughIds
  <2>1. \A m \in Fresh : ~Open(m)
    BY <1>4, RestingRow DEF Fresh, Open
  <2>2. Needing = {}
    BY <1>4, RestingRow DEF Needing
  <2>3. Cardinality(Needing) = 0
    BY <2>2, FS_EmptySet
  <2>4. IsFiniteSet(Fresh)
    BY WriteConstants, FS_Subset DEF Fresh
  <2>5. Cardinality(Fresh) \in Nat
    BY <2>4, FS_CardinalityType
  <2>6. Cardinality(Needing) <= Cardinality(Fresh)
    BY <2>3, <2>5
  <2> QED BY <2>1, <2>6 DEF EnoughIds
<1>12. ActedOnRecord /\ AppliedOnce
  BY <1>6 DEF ActedOnRecord, AppliedOnce
<1>13. \A c \in Candidate : ~prior(c)
  BY <1>1, <1>4, RestingRow, WriteConstants DEF prior
<1>14. DecidedSettled
  BY <1>4, <1>5, <1>13, RestingRow DEF DecidedSettled, Final
<1>15. CompletedMeansSettled /\ CopiesCurrent
  BY <1>1 DEF CompletedMeansSettled, CopiesCurrent
<1> QED BY <1>8, <1>9, <1>10, <1>11, <1>12, <1>14, <1>15 DEF IInv

LEMMA StutterInvariant ==
  ASSUME IInv, UNCHANGED vars
  PROVE  IInv'
<1>1. UNCHANGED <<extraction, candidate, memory, pending, applied, keylock, identity, worker,
                  sweep, editing, events, record, outrun>>
  BY DEF vars, rows, locks, history
<1>2. MemoriesKept /\ DecisionsKept /\ OutrunKept
  BY <1>1, SameMemories, SameDecisions, SameOutrun
<1>3. /\ pending' \in [Memory -> [cand: Candidate \cup {None}, decision: DECISION]]
      /\ memory' \in [Memory -> MEMORY]
      /\ applied' \subseteq Candidate /\ editing' \in Memory \cup {None} /\ events' \in 0..MaxEvents
  BY <1>1, InTypes, RowTypes
<1> QED BY <1>1, <1>2, <1>3, MemoryOnly

LEMMA WorkStep ==
  ASSUME IInv, NEW w \in Worker, Work(w)
  PROVE  IInv'
<1>1. CASE get_extraction_state(w)
  BY <1>1, StateStep
<1>2. CASE mark_extraction_processing(w)
  BY <1>2, ProcessingStep
<1>3. CASE \E E \in SUBSET Candidate : \E V \in SUBSET E : extract_candidates(w, E, V)
  BY <1>3, ExtractStep
<1>4. CASE outer_except(w)
  BY <1>4, OuterStep
<1>5. CASE mark_extraction_failed(w)
  BY <1>5, FailedStep
<1>6. CASE finish(w)
  BY <1>6, FinishStep
<1>7. CASE \E c \in Candidate : get_memory_candidate_status(w, c)
  BY <1>7, GetStatusStep
<1>8. CASE mark_memory_candidate(w)
  BY <1>8, ClaimStep
<1>9. CASE \E d \in Decisions : consolidate_candidate(w, d)
  BY <1>9, ConsolidateStep
<1>10. CASE apply_memory_decision(w)
  BY <1>10, ApplyStep
<1>11. CASE \E same_state \in BOOLEAN, D \in SUBSET Active : write(w, same_state, D)
  BY <1>11, WriteStep
<1>12. CASE mark_final(w)
  BY <1>12, MarkFinalStep
<1>13. CASE target_not_found(w)
  <2>1. worker[w].pc \in Busy /\ except(w) /\ events' \in 0..MaxEvents
    BY <1>13, InTypes DEF target_not_found, At, Busy
  <2> QED BY <2>1, ExceptStep
<1>14. CASE process_unextracted_notes(w)
  BY <1>14, UnextractedStep
<1>15. CASE mark_consolidation(w)
  BY <1>15, ConsolidationStep
<1>16. CASE \E m \in Memory : update_memory(w, m)
  BY <1>16, UpdateMemoryStep
<1> QED BY <1>1, <1>2, <1>3, <1>4, <1>5, <1>6, <1>7, <1>8, <1>9, <1>10, <1>11, <1>12, <1>13,
           <1>14, <1>15, <1>16 DEF Work

LEMMA EnvironmentStep ==
  ASSUME IInv, Environment
  PROVE  IInv'
<1>1. ASSUME NEW w \in Worker, NEW force \in BOOLEAN, process_note_memory(w, force)
      PROVE  IInv'
  BY <1>1, ProcessStep
<1>2. ASSUME NEW w \in Worker, NEW D \in SUBSET Active,
             merge_duplicate_episodic(w, D) \/ expire_due_memories(w, D)
      PROVE  IInv'
  BY <1>2, MergeStep, ExpireStep
<1>3. ASSUME NEW w \in Worker, raises(w) \/ crash(w) \/ lock_lost(w)
      PROVE  IInv'
  BY <1>3, RaisesStep, CrashStep, LostStep
<1>4. ASSUME NEW w \in Worker, candidate_error(w)
      PROVE  IInv'
  <2>1. worker[w].pc \in Busy /\ except(w) /\ Event
    BY <1>4 DEF candidate_error, Busy
  <2>2. events' \in 0..MaxEvents
    BY <2>1, InTypes, Counted
  <2> QED BY <2>1, <2>2, ExceptStep
<1>5. ASSUME NEW m \in Memory,
             \/ soft_delete_memory(m) \/ correct_memory(m) \/ purge_memory(m)
             \/ resolve_memory_conflict(m)
      PROVE  IInv'
  <2>1. PICK status \in {"active", "retired", "purged"} : set_memory(m, status)
    BY <1>5 DEF soft_delete_memory, correct_memory, purge_memory, resolve_memory_conflict
  <2> QED BY <2>1, SetStep
<1>6. ASSUME NEW m \in Memory, approve_pending_memory(m) \/ reject_pending_memory(m)
      PROVE  IInv'
  BY <1>6, ApproveStep, RejectStep
<1>7. ASSUME NEW m \in Memory, NEW retarget \in BOOLEAN, edit_pending_memory(m, retarget)
      PROVE  IInv'
  BY <1>7, EditStep
<1>8. CASE index_changes
  BY <1>8, TimeStep
<1> QED BY <1>1, <1>2, <1>3, <1>4, <1>5, <1>6, <1>7, <1>8 DEF Environment

LEMMA StepInvariant == IInv /\ [Next]_vars => IInv'
<1> SUFFICES ASSUME IInv, [Next]_vars PROVE IInv'
  OBVIOUS
<1>1. CASE UNCHANGED vars
  BY <1>1, StutterInvariant
<1>2. CASE \E w \in Worker : Work(w)
  BY <1>2, WorkStep
<1>3. CASE Sweep
  BY <1>3, ReserveStep DEF Sweep
<1>4. CASE Environment
  BY <1>4, EnvironmentStep
<1>5. CASE approve_edited
  BY <1>5, ApproveEditedStep
<1>6. CASE (\E k \in Key : lock_expires(k)) \/ extraction_lease_over \/ next_day
  BY <1>6, TimeStep
<1> QED BY <1>1, <1>2, <1>3, <1>4, <1>5, <1>6 DEF Next
-----------------------------------------------------------------------------
(* The rows, locks and workers of memory/service.py and of                  *)
(* repositories/postgres/memory.py stay within IInv, however many workers   *)
(* process the note, whatever the user does and whoever dies meanwhile.     *)
THEOREM MemoryInvariant == Spec => []IInv
BY InitInvariant, StepInvariant, PTL DEF Spec

(* Every row and every worker of _process_note_memory_impl keeps its type.  *)
THEOREM MemoryTypes == Spec => []TypeOK
<1>1. IInv => TypeOK
  BY DEF IInv
<1> QED BY <1>1, MemoryInvariant, PTL

(* apply_memory_decision records at most one decision for a candidate,      *)
(* unless the lock of its key did not hold or the user rejected it while a  *)
(* worker was on it.                                                        *)
THEOREM CandidatesActOnce == Spec => []AppliedOnce
<1>1. IInv => AppliedOnce
  BY DEF IInv
<1> QED BY <1>1, MemoryInvariant, PTL

(* A note that _mark_extraction_state calls completed has every candidate   *)
(* its worker took up decided or discarded.                                 *)
THEOREM CompletedNotesSettled == Spec => []CompletedMeansSettled
<1>1. IInv => CompletedMeansSettled
  BY DEF IInv
<1> QED BY <1>1, MemoryInvariant, PTL

(* A worker that is about to write leaves for the mark only by writing.     *)
LEMMA OnlyWriteMarks ==
  ASSUME IInv, [Next]_vars, NEW w \in Worker, worker[w].pc = "write", worker'[w].pc = "mark"
  PROVE  \E same_state \in BOOLEAN, D \in SUBSET Active : write(w, same_state, D)
<1> DEFINE Goal == \E same_state \in BOOLEAN, D \in SUBSET Active : write(w, same_state, D)
<1>1. worker \in [Worker -> WORKER] /\ worker'[w] # worker[w]
  BY InTypes
<1>2. ASSUME NEW v \in Worker, NEW pc, Goes(v, pc), worker[v].pc # "write" PROVE FALSE
  BY <1>1, <1>2 DEF Goes
<1>3. ASSUME NEW v \in Worker, NEW raised, Returned(v, raised), worker[v].pc # "write" PROVE FALSE
  BY <1>1, <1>3 DEF Returned
<1>4. ASSUME NEW v \in Worker, Work(v) PROVE Goal
  <2> USE DEF At
  <2>1. CASE get_extraction_state(v)
    BY <1>1, <1>3, <2>1 DEF get_extraction_state
  <2>2. CASE mark_extraction_processing(v)
    BY <1>2, <2>2 DEF mark_extraction_processing
  <2>3. CASE \E E \in SUBSET Candidate : \E V \in SUBSET E : extract_candidates(v, E, V)
    BY <1>1, <2>3 DEF extract_candidates
  <2>4. CASE outer_except(v)
    BY <1>2, <1>3, <2>4 DEF outer_except
  <2>5. CASE mark_extraction_failed(v)
    BY <1>3, <2>5 DEF mark_extraction_failed
  <2>6. CASE finish(v)
    BY <1>3, <2>6 DEF finish
  <2>7. CASE \E c \in Candidate : get_memory_candidate_status(v, c)
    BY <1>1, <2>7 DEF get_memory_candidate_status
  <2>8. CASE mark_memory_candidate(v)
    BY <1>2, <2>8 DEF mark_memory_candidate
  <2>9. CASE \E d \in Decisions : consolidate_candidate(v, d)
    BY <1>1, <2>9 DEF consolidate_candidate
  <2>10. CASE apply_memory_decision(v)
    BY <1>1, <1>2, <2>10 DEF apply_memory_decision
  <2>11. CASE \E same_state \in BOOLEAN, D \in SUBSET Active : write(v, same_state, D)
    <3>1. CASE v = w
      BY <2>11, <3>1
    <3>2. CASE v # w
      BY <1>1, <2>11, <3>2 DEF write
    <3> QED BY <3>1, <3>2
  <2>12. CASE mark_final(v)
    BY <1>1, <2>12 DEF mark_final
  <2>13. CASE target_not_found(v)
    BY <1>1, <2>13 DEF target_not_found, except
  <2>14. CASE process_unextracted_notes(v)
    <3>1. worker[v].pc = "sweep" /\ (Returned(v, FALSE) \/ Goes(v, "check"))
      <4>0. CASE ~sweep.reaches
        BY <2>14, <4>0 DEF process_unextracted_notes
      <4>1. CASE sweep.reaches /\ extraction.status \in {"completed", "empty"}
        BY <2>14, <4>1 DEF process_unextracted_notes
      <4>2. CASE sweep.reaches /\ extraction.status = "processing" /\ ~is_processing_stale
        BY <2>14, <4>2 DEF process_unextracted_notes
      <4>3. CASE sweep.reaches /\ extraction.status = "processing" /\ is_processing_stale
        BY <2>14, <4>3 DEF process_unextracted_notes
      <4>4. CASE sweep.reaches /\ extraction.status \notin {"completed", "empty", "processing"}
        BY <2>14, <4>4 DEF process_unextracted_notes
      <4> QED BY <4>0, <4>1, <4>2, <4>3, <4>4
    <3> QED BY <1>2, <1>3, <3>1
  <2>15. CASE mark_consolidation(v)
    BY <1>1, <2>15 DEF mark_consolidation
  <2>16. CASE \E m \in Memory : update_memory(v, m)
    BY <1>1, <2>16 DEF update_memory
  <2> QED BY <1>4, <2>1, <2>2, <2>3, <2>4, <2>5, <2>6, <2>7, <2>8, <2>9, <2>10, <2>11, <2>12,
             <2>13, <2>14, <2>15, <2>16 DEF Work
<1>5. CASE Environment
  <2> USE DEF At
  <2>1. ASSUME NEW v \in Worker, NEW force \in BOOLEAN, process_note_memory(v, force) PROVE FALSE
    BY <1>1, <2>1 DEF process_note_memory
  <2>2. ASSUME NEW v \in Worker, NEW D \in SUBSET Active,
               merge_duplicate_episodic(v, D) \/ expire_due_memories(v, D)
        PROVE  FALSE
    BY <1>1, <2>2 DEF merge_duplicate_episodic, expire_due_memories
  <2>3. ASSUME NEW v \in Worker, raises(v) PROVE FALSE
    BY <1>2, <2>3 DEF raises
  <2>4. ASSUME NEW v \in Worker, candidate_error(v) PROVE FALSE
    BY <1>1, <2>4 DEF candidate_error, except
  <2>5. ASSUME NEW v \in Worker, crash(v) \/ lock_lost(v) PROVE FALSE
    BY <1>1, <2>5, RestingRow DEF crash, lock_lost
  <2>6. ASSUME NEW m \in Memory,
               \/ soft_delete_memory(m) \/ correct_memory(m) \/ purge_memory(m)
               \/ resolve_memory_conflict(m)
        PROVE  FALSE
    BY <1>1, <2>6 DEF soft_delete_memory, correct_memory, purge_memory, resolve_memory_conflict,
                      set_memory
  <2>7. ASSUME NEW m \in Memory, approve_pending_memory(m) \/ reject_pending_memory(m) PROVE FALSE
    BY <1>1, <2>7 DEF approve_pending_memory, reject_pending_memory
  <2>8. ASSUME NEW m \in Memory, NEW retarget \in BOOLEAN, edit_pending_memory(m, retarget)
        PROVE  FALSE
    BY <1>1, <2>8 DEF edit_pending_memory
  <2>9. ~index_changes
    BY <1>1 DEF index_changes
  <2> QED BY <1>5, <2>1, <2>2, <2>3, <2>4, <2>5, <2>6, <2>7, <2>8, <2>9 DEF Environment
<1>6. CASE Sweep
  BY <1>1, <1>6 DEF Sweep, reserve_consolidation_run, At
<1>7. CASE approve_edited \/ extraction_lease_over \/ next_day \/ UNCHANGED vars
  BY <1>1, <1>7 DEF approve_edited, extraction_lease_over, next_day, vars
<1>8. CASE \E k \in Key : lock_expires(k)
  BY <1>1, <1>8 DEF lock_expires
<1> QED BY <1>4, <1>5, <1>6, <1>7, <1>8 DEF Next

LEMMA LiveTarget ==
  ASSUME IInv, [Next]_vars, NEW w \in Worker, worker[w].pc = "write", worker'[w].pc = "mark",
         worker'[w].decision.action \in {"update", "supersede"}
  PROVE  worker[w].decision.target \in Active /\ w \notin outrun
<1>1. PICK same_state \in BOOLEAN, D \in SUBSET Active : write(w, same_state, D)
  BY OnlyWriteMarks
<1> DEFINE d == Revised(w, same_state)
<1>2. /\ d \in DECISION /\ Sound(d) /\ d.target = worker[w].decision.target
      /\ d.action \in {"update", "supersede"} => snapshot_current(w, d.target)
  BY RevisedDecision
<1>3. worker'[w].decision.action = d.action
  <2> DEFINE q == [NoDecision EXCEPT !.action = d.action]
  <2>1. q.action = d.action
    BY DEF NoDecision
  <2>2. worker' = [worker EXCEPT ![w].pc = "mark", ![w].decision = q]
    BY <1>1 DEF write
  <2> HIDE DEF q
  <2>3. worker \in [Worker -> WORKER] /\ worker[w] \in WORKER
    BY InTypes
  <2>4. worker'[w] = [worker[w] EXCEPT !.pc = "mark", !.decision = q]
    BY <2>2, <2>3
  <2>5. worker'[w].decision = q
    BY <2>3, <2>4 DEF WORKER
  <2> QED BY <2>1, <2>5
<1> HIDE DEF d
<1>4. d.target # None /\ snapshot_current(w, d.target)
  BY <1>2, <1>3 DEF Sound
<1>5. d.target \in Memory /\ w \in memory[d.target].seen
  BY <1>2, <1>4 DEF DECISION, snapshot_current
<1>6. memory[d.target].status = "active"
  BY <1>5 DEF IInv, SeenIsActive
<1>7. w \notin outrun
  BY <1>2, <1>5 DEF IInv, CopiesCurrent
<1> QED BY <1>2, <1>5, <1>6, <1>7 DEF Active

(* An update or a supersession that apply_memory_decision carries out finds *)
(* its target active, and as it was when the decision was made: neither the *)
(* user nor another worker nor a sweep changed it in between.               *)
THEOREM WritesLiveTargets == Spec => MutatesLiveTargets
<1> DEFINE Live == \A w \in Worker :
             At(w, "write") /\ worker'[w].pc = "mark"
             /\ worker'[w].decision.action \in {"update", "supersede"} =>
               worker[w].decision.target \in Active /\ w \notin outrun
<1>1. IInv /\ [Next]_vars => Live
  BY LiveTarget DEF At
<1>2. IInv /\ [Next]_vars => [Live]_vars
  BY <1>1
<1> QED BY <1>2, MemoryInvariant, PTL DEF Spec, MutatesLiveTargets
=============================================================================
