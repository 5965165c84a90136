----------------------------- MODULE FactMemory -----------------------------
(***************************************************************************)
(* The fact memory of one space (memory/fact_memory.py): facts quoted from *)
(* notes, the cards a consolidation run derives from them, the questions   *)
(* it asks, and what the user does to them: edit, confirm or reject a      *)
(* card, answer a question, forget.  Every `with store.transaction(space)` *)
(* holds the advisory lock of the space, so a transaction is one step; the *)
(* one of apply_plan, whose length the language model chooses, is a        *)
(* sequence of steps on the copy `tx` with nothing in between.             *)
(*                                                                         *)
(* A fact is a source, a revision of its text and a statement: what the    *)
(* text is quoted to say, the evidence span with its type and content.     *)
(* A tombstone is a source and a forgotten statement.  The source of an    *)
(* answer is its question (its note id is "review:" and the id of the      *)
(* question), and its span is the whole answer.                            *)
(* A card's version is only ever compared with the version some snapshot   *)
(* holds, and it grows with every _save_card: `seen` is the set of the     *)
(* runs whose snapshot holds the current version.                          *)
(***************************************************************************)
EXTENDS Naturals, FiniteSets

CONSTANTS
  Note,          \* note ids
  Question,      \* question ids
  Card,          \* card ids, a bound on how many cards are ever made
  Run,           \* calls of consolidate
  Worker,        \* threads that bring notes and answers in
  FACT_MEMORY_BATCH_SIZE,
  Statement,     \* what is quoted
  Overlap,       \* the pairs of statements one of whose spans contains the other
  Fact,          \* bound: the facts that extraction may find
  Ingested,      \* the facts of the space at the start
  Organised,     \* those that have a card of their own already, by card
  MaxEvents,     \* bound: notes and runs begun, plan actions, commands
  NoRun,         \* the run of a lease nobody took yet
  NoTx           \* no apply_plan is under way

ASSUME FactAssumption ==
  /\ NoRun \notin Run
  /\ Note \cap Question = {}
  /\ FACT_MEMORY_BATCH_SIZE \in Nat \ {0}
  /\ Fact \subseteq (Note \cup Question) \X Nat \X Statement
  /\ \A s \in Statement : <<s, s>> \in Overlap
  /\ Ingested \subseteq Fact
  /\ \A f, g \in Ingested : f[1] = g[1] => f[2] = g[2]
  /\ DOMAIN Organised \subseteq Card /\ Organised \in [DOMAIN Organised -> Ingested]
  /\ MaxEvents \in Nat

VARIABLES
  fact,          \* rows of fm_fact
  tombstone,     \* rows of fm_tombstone: what was forgotten, by source
  card,          \* rows of fm_card
  question,      \* rows of fm_question
  lease,         \* the row "consolidation" of fm_lease
  run,           \* run[r]: the call of consolidate r, with its snapshot
  worker,        \* worker[w]: the note or the answer that w brings in
  tx,            \* the uncommitted work of apply_plan
  events,        \* notes, runs, plan actions and commands so far
  overwritten,   \* history: facts whose row an outdated copy replaced
  edited_from    \* history: edited_from[c]: sources of c when the user edited it

history == <<overwritten, edited_from>>
tables == <<fact, tombstone, card, question>>
vars == <<tables, lease, run, worker, tx, events, history>>

Source == Note \cup Question
Text == {<<f[1], f[2]>> : f \in Fact}
FactsOf(t) == {f \in Fact : <<f[1], f[2]>> = t}

FACT == [status: {"absent", "active", "source_changed", "forgotten"}, processed: BOOLEAN]
CARD == [status: {"absent", "active", "invalidated", "superseded", "retracted",
                  "rejected", "forgotten"},
         sources: SUBSET Fact, assertion: {"stated", "inferred"},
         review: {"not_required", "unreviewed", "confirmed", "edited", "rejected"},
         seen: SUBSET Run]
QUESTION == [status: {"absent", "open", "answered", "resolved", "cancelled"},
             sources: SUBSET Fact]
TX == [run: Run, card: [Card -> CARD], question: [Question -> QUESTION],
       waiting: SUBSET Fact, touched: SUBSET Card]

NoFact == [status |-> "absent", processed |-> FALSE]
NoCard == [status |-> "absent", sources |-> {}, assertion |-> "stated",
           review |-> "not_required", seen |-> {}]
Idle == [pc |-> "idle", facts |-> {}, batch |-> {}]
Resting == [pc |-> "idle", text |-> <<>>, todo |-> {}, of |-> <<>>, copy |-> NoFact]

TypeOK ==
  /\ fact \in [Fact -> FACT]
  /\ tombstone \subseteq Source \X Statement
  /\ card \in [Card -> CARD]
  /\ question \in [Question -> QUESTION]
  /\ lease \in [run: Run \cup {NoRun}, live: BOOLEAN]
  /\ run \in [Run -> [pc: {"idle", "leased", "planned", "apply", "applied", "failed"},
                      facts: SUBSET Fact, batch: SUBSET Fact]]
  /\ worker \in [Worker -> [pc: {"idle", "sync", "ingest", "link", "answer"},
                            text: Text \cup {<<>>}, todo: SUBSET Fact,
                            of: Fact \cup {<<>>}, copy: FACT]]
  /\ tx = NoTx \/ tx \in TX
  /\ events \in 0..MaxEvents
  /\ overwritten \subseteq Fact
  /\ edited_from \in [Card -> SUBSET Fact]

Init ==
  /\ fact = [f \in Fact |-> IF f \in Ingested
                             THEN [status |-> "active",
                                   processed |-> \E c \in DOMAIN Organised : Organised[c] = f]
                             ELSE NoFact]
  /\ tombstone = {}
  /\ card = [c \in Card |-> IF c \in DOMAIN Organised
                             THEN [NoCard EXCEPT !.status = "active", !.sources = {Organised[c]}]
                             ELSE NoCard]
  /\ question = [q \in Question |-> [status |-> "absent", sources |-> {}]]
  /\ lease = [run |-> NoRun, live |-> FALSE]
  /\ run = [r \in Run |-> Idle]
  /\ worker = [w \in Worker |-> Resting]
  /\ tx = NoTx
  /\ events = 0
  /\ overwritten = {}
  /\ edited_from = [c \in Card |-> {}]

Active == {f \in Fact : fact[f].status = "active"}
ActiveCards == {c \in Card : card[c].status = "active"}
UserLocked(c) == card[c].review \in {"confirmed", "edited", "rejected"}
Using(F) == {c \in ActiveCards : card[c].sources \cap F # {}}
SourcesOf(C) == UNION {card[c].sources : c \in C}


(* The snapshot of r is not used any more.                                  *)
Unseen(cards, r) == [c \in Card |-> [cards[c] EXCEPT !.seen = @ \ {r}]]
Ending(pc) == [pc |-> pc, facts |-> {}, batch |-> {}]

Unlocked == tx = NoTx
Event == events < MaxEvents /\ events' = events + 1

(* _save_card with a new status: the version grows, no snapshot holds it.   *)
SavedAs(C, status) ==
  [c \in Card |-> IF c \in C THEN [card[c] EXCEPT !.status = status, !.seen = {}] ELSE card[c]]
Reopened(F) ==
  [f \in Fact |-> IF f \in F \cap Active THEN [fact[f] EXCEPT !.processed = FALSE] ELSE fact[f]]
(* The facts F leave the active state; what else their cards rested on is   *)
(* to be organised again.                                                   *)
Withdrawn(F, status) ==
  LET rest == Reopened(SourcesOf(Using(F)))
  IN [f \in Fact |-> IF f \in F THEN [fact[f] EXCEPT !.status = status] ELSE rest[f]]
Cancelled(Q) == [q \in Question |-> IF q \in Q THEN [question[q] EXCEPT !.status = "cancelled"]
                                    ELSE question[q]]
AskedOn(F) == {q \in Question : question[q].sources \cap F # {}}
-----------------------------------------------------------------------------
(* Notes and answers.                                                       *)

(* A worker starts on a note with the text it read, in whatever order the   *)
(* texts of the note were written.                                          *)
process_note_memory(w, t) ==
  /\ Unlocked
  /\ Event
  /\ t[1] \in Note
  /\ worker[w].pc = "idle"
  /\ worker' = [worker EXCEPT ![w] = [Resting EXCEPT !.pc = "sync", !.text = t]]
  /\ UNCHANGED <<tables, lease, run, tx, history>>

(* Cards and questions outlive the facts they were made from.               *)
invalidate_facts_only(changed) ==
  /\ fact' = Withdrawn(changed, "source_changed")
  /\ UNCHANGED <<card, question>>

Outdated(t) == {old \in Active : old[1] = t[1] /\ old[2] # t[2]}

invalidate_sources(changed) ==
  /\ fact' = Withdrawn(changed, "source_changed")
  /\ card' = SavedAs(Using(changed), "invalidated")
  /\ question' = Cancelled({q \in AskedOn(changed) : question[q].status = "open"})

(* What is left to bring in of a note; with nothing left the worker rests.  *)
GoingOn(todo) ==
  IF todo = {} THEN Resting ELSE [Resting EXCEPT !.pc = "ingest", !.todo = todo]

(* Then the text is given to extraction, which finds some of its facts.     *)
sync_source(w) ==
  /\ Unlocked
  /\ worker[w].pc = "sync"
  /\ invalidate_sources(Outdated(worker[w].text))
  /\ \E found \in SUBSET FactsOf(worker[w].text) :
       worker' = [worker EXCEPT ![w] = GoingOn(found)]
  /\ UNCHANGED <<tombstone, lease, run, tx, events, history>>

(* Evidence of the same source that contains forgotten evidence, or is      *)
(* contained in it.  A reworded span, or one that only partly overlaps what *)
(* was forgotten, is not covered.                                           *)
Covered(f) == \E t \in tombstone : t[1] = f[1] /\ <<t[2], f[3]>> \in Overlap

(* Extraction that does not know what was forgotten.                        *)
ingested_despite_tombstone(f) == [status |-> "active", processed |-> FALSE]

ingested(f) ==
  [status |-> IF Covered(f) THEN "forgotten" ELSE "active", processed |-> FALSE]

(* ingest_fact, for a candidate and for an answer: a row that exists and    *)
(* whose source is unchanged is returned as it is.                          *)
ingest_fact(w, f) ==
  LET new == fact[f].status \in {"absent", "source_changed"}
      row == IF new THEN ingested(f) ELSE fact[f]
      changed == Outdated(f)
  IN /\ Unlocked
     /\ worker[w].pc \in {"ingest", "answer"}
     /\ f \in worker[w].todo
     /\ IF new THEN /\ fact' = [Withdrawn(changed, "source_changed") EXCEPT ![f] = row]
                    /\ card' = SavedAs(Using(changed), "invalidated")
                    /\ question' = Cancelled({q \in AskedOn(changed) : question[q].status = "open"})
               ELSE UNCHANGED <<fact, card, question>>
     /\ \/ /\ worker[w].pc = "ingest"
           /\ worker' = [worker EXCEPT ![w].pc = "link", ![w].of = f, ![w].copy = row]
        \/ worker' = [worker EXCEPT ![w] = GoingOn(worker[w].todo \ {f})]
     /\ UNCHANGED <<tombstone, lease, run, tx, events, history>>

(* The end of ingest_candidate for a candidate with references: the row it  *)
(* got back is written again, in a transaction of its own and as it was.    *)
ingest_candidate(w) ==
  LET f == worker[w].of
  IN /\ Unlocked
     /\ worker[w].pc = "link"
     /\ fact' = [fact EXCEPT ![f] = worker[w].copy]
     /\ overwritten' = IF fact[f] # worker[w].copy THEN overwritten \cup {f} ELSE overwritten
     /\ worker' = [worker EXCEPT ![w] = GoingOn(worker[w].todo \ {f})]
     /\ UNCHANGED <<tombstone, card, question, lease, run, tx, events, edited_from>>
-----------------------------------------------------------------------------
(* Consolidation: lease, snapshot, plan.                                    *)

(* A call that finds a live lease returns "busy" and changes nothing.       *)
consolidate(r) ==
  /\ Unlocked
  /\ Event
  /\ run[r].pc = "idle"
  /\ ~lease.live
  /\ lease' = [run |-> r, live |-> TRUE]
  /\ run' = [run EXCEPT ![r].pc = "leased"]
  /\ UNCHANGED <<tables, worker, tx, history>>

(* The batch: the facts that wait, cut to FACT_MEMORY_BATCH_SIZE of one     *)
(* memory type.  With nothing new there is no plan.                         *)
snapshot(r) ==
  LET new == {f \in Active : ~fact[f].processed}
  IN /\ Unlocked
     /\ run[r].pc = "leased"
     /\ \E batch \in SUBSET new :
          /\ Cardinality(batch) <= FACT_MEMORY_BATCH_SIZE
          /\ batch = {} => new = {}
          /\ run' = [run EXCEPT ![r] = IF batch = {} THEN Ending("applied")
                                       ELSE [pc |-> "planned", facts |-> Active, batch |-> batch]]
     /\ card' = IF new = {} THEN card ELSE [c \in Card |-> IF c \in ActiveCards
                                THEN [card[c] EXCEPT !.seen = @ \cup {r}] ELSE card[c]]
     /\ UNCHANGED <<fact, tombstone, question, lease, worker, tx, events, history>>

(* A run that does not look whether the lease still is its own.             *)
unfenced(r) == TRUE

own_lease(r) == lease.run = r /\ lease.live

(* apply_plan begins its transaction, or finds that the lease is gone.      *)
apply_plan(r) ==
  /\ Unlocked
  /\ run[r].pc = "planned"
  /\ \/ /\ own_lease(r)
        /\ tx' = [run |-> r, card |-> card, question |-> question,
                  waiting |-> run[r].batch, touched |-> {}]
        /\ run' = [run EXCEPT ![r].pc = "apply"]
        /\ UNCHANGED card
     \/ /\ ~own_lease(r)
        /\ run' = [run EXCEPT ![r] = Ending("failed")]
        /\ card' = Unseen(card, r)
        /\ UNCHANGED tx
  /\ UNCHANGED <<fact, tombstone, question, lease, worker, events, history>>

(* The actions of the plan, each on evidence S of the snapshot that is      *)
(* still active.                                                            *)
Acting(r, S) ==
  /\ tx # NoTx /\ tx.run = r
  /\ S # {} /\ S \subseteq run[r].facts \cap Active

(* The active cards the user edited, read once at the start.                *)
protected(S) == {c \in Using(S) : card[c].review = "edited"}

target_current(r, c) ==
  /\ c \notin tx.touched
  /\ tx.card[c].status = "active"
  /\ r \in tx.card[c].seen
Rewritable(r, c) == target_current(r, c) /\ ~UserLocked(c)

rejected_by_user(assertion, evidence) ==
  /\ assertion = "inferred"
  /\ \E c \in Card : tx.card[c].status = "rejected" /\ evidence \subseteq tx.card[c].sources

Fresh(assertion, evidence) ==
  [status |-> "active", sources |-> evidence, assertion |-> assertion, seen |-> {},
   review |-> IF assertion = "inferred" THEN "unreviewed" ELSE "not_required"]
Retired(c, status) == [tx.card[c] EXCEPT !.status = status, !.seen = {}]

Acted(S, T, cards, questions) ==
  /\ tx' = [tx EXCEPT !.card = cards, !.question = questions,
                      !.waiting = @ \ S, !.touched = @ \cup T]
  /\ Event
  /\ UNCHANGED <<tables, lease, run, worker, history>>

apply_create(r, S, assertion, c) ==
  /\ Acting(r, S)
  /\ protected(S) = {}
  /\ tx.card[c].status = "absent"
  /\ ~rejected_by_user(assertion, S)
  /\ Acted(S, {}, [tx.card EXCEPT ![c] = Fresh(assertion, S)], tx.question)

apply_add_evidence(r, S, T) ==
  /\ Acting(r, S)
  /\ T # {} /\ \A c \in T : target_current(r, c)
  /\ protected(S) = {} \/ T \subseteq protected(S)
  /\ Acted(S, T, [c \in Card |-> IF c \in T
                                 THEN [tx.card[c] EXCEPT !.sources = @ \cup S, !.seen = {}]
                                 ELSE tx.card[c]], tx.question)

(* revise (one target) and merge (several): the first target takes the      *)
(* evidence of all, the others are superseded.                              *)
apply_merge(r, S, T, base) ==
  LET evidence == S \cup UNION {tx.card[c].sources : c \in T}
  IN /\ Acting(r, S)
     /\ protected(S) = {}
     /\ base \in T
     /\ \A c \in T : Rewritable(r, c) /\ tx.card[c].assertion = tx.card[base].assertion
     /\ ~rejected_by_user(tx.card[base].assertion, evidence)
     /\ Acted(S, T, [c \in Card |-> IF c = base THEN Fresh(tx.card[c].assertion, evidence)
                                    ELSE IF c \in T THEN Retired(c, "superseded")
                                    ELSE tx.card[c]], tx.question)

(* Two outputs, each with evidence of its own.                              *)
apply_split(r, S, T, out) ==
  /\ Acting(r, S)
  /\ protected(S) = {}
  /\ T # {} /\ \A c \in T : Rewritable(r, c)
  /\ Cardinality(DOMAIN out) > 1
  /\ \A c \in DOMAIN out :
       /\ tx.card[c].status = "absent"
       /\ out[c].sources # {} /\ out[c].sources \subseteq S
       /\ ~rejected_by_user(out[c].assertion, out[c].sources)
  /\ Acted(S, T, [c \in Card |-> IF c \in DOMAIN out THEN Fresh(out[c].assertion, out[c].sources)
                                 ELSE IF c \in T THEN Retired(c, "superseded")
                                 ELSE tx.card[c]], tx.question)

apply_retract(r, S, T) ==
  /\ Acting(r, S)
  /\ T # {} /\ \A c \in T : Rewritable(r, c)
  /\ Acted(S, T, [c \in Card |-> IF c \in T THEN Retired(c, "retracted") ELSE tx.card[c]],
           tx.question)

(* A relation between facts and cards: it changes neither.                  *)
apply_link(r, S, T) ==
  /\ Acting(r, S)
  /\ Cardinality(S) + Cardinality(T) > 1
  /\ \A c \in T : tx.card[c].status = "active" /\ (c \in tx.touched \/ r \in tx.card[c].seen)
  /\ Acted(S, {}, tx.card, tx.question)

(* The id of a question is a key of its sources.                            *)
apply_defer(r, S, q) ==
  /\ Acting(r, S)
  /\ \/ tx.question[q].sources = S
     \/ tx.question[q].status = "absent" /\ \A p \in Question : tx.question[p].sources # S
  /\ Acted(S, {}, tx.card, [tx.question EXCEPT ![q] = [status |-> "open", sources |-> S]])

(* Questions inside the evidence are resolved, whatever their state.        *)
apply_resolve_reference(r, S, Q) ==
  /\ Acting(r, S)
  /\ \A q \in Q : tx.question[q].status # "absent" /\ tx.question[q].sources \subseteq S
  /\ Acted(S, {}, tx.card, [q \in Question |->
       IF q \in Q THEN [tx.question[q] EXCEPT !.status = "resolved"] ELSE tx.question[q]])

apply_commit(r) ==
  /\ tx # NoTx /\ tx.run = r
  /\ tx.waiting = {}
  /\ fact' = [f \in Fact |-> IF f \in run[r].batch THEN [fact[f] EXCEPT !.processed = TRUE]
                             ELSE fact[f]]
  /\ card' = Unseen(tx.card, r)
  /\ question' = tx.question
  /\ tx' = NoTx
  /\ run' = [run EXCEPT ![r] = Ending("applied")]
  /\ UNCHANGED <<tombstone, lease, worker, events, history>>

(* An action is refused, or the plan is only validated (validate_plan, on   *)
(* behalf of the planner): everything is undone.                            *)
validate_plan(r) ==
  /\ tx # NoTx /\ tx.run = r
  /\ tx' = NoTx
  /\ \/ /\ run' = [run EXCEPT ![r].pc = "planned"]
        /\ UNCHANGED card
     \/ /\ run' = [run EXCEPT ![r] = Ending("failed")]
        /\ card' = Unseen(card, r)
  /\ UNCHANGED <<fact, tombstone, question, lease, worker, events, history>>

(* finally: a lease that still is this run's ends now.                      *)
release_lease(r) ==
  /\ Unlocked
  /\ run[r].pc \in {"applied", "failed"}
  /\ lease' = IF lease.run = r THEN [lease EXCEPT !.live = FALSE] ELSE lease
  /\ run' = [run EXCEPT ![r] = Idle]
  /\ UNCHANGED <<tables, worker, tx, events, history>>

(* A process that dies takes no further step, and its lease runs out.       *)
lease_expires ==
  /\ Unlocked
  /\ lease.live
  /\ lease' = [lease EXCEPT !.live = FALSE]
  /\ UNCHANGED <<tables, run, worker, tx, events, history>>
-----------------------------------------------------------------------------
(* The user.  A page that shows an old version is refused and reloaded, so  *)
(* every decision is on the current version.                                *)

(* Confirming a correction makes it an ordinary confirmed card.             *)
confirm_forgets_edit(c) == "confirmed"

(* The decision is stored where its status belongs.                         *)
confirm_unmapped(c) == "confirm"

confirmed(c) == IF card[c].review = "edited" THEN "edited" ELSE "confirmed"

review_memory(c, decision) ==
  LET derived == {d \in Using(card[c].sources) \ {c} : ~UserLocked(d)}
      values == [card[c] EXCEPT !.seen = {},
                   !.status = IF decision = "reject" THEN "rejected" ELSE @,
                   !.review = IF decision = "confirm" THEN confirmed(c)
                              ELSE IF decision = "edit" THEN "edited" ELSE "rejected"]
  IN /\ Unlocked
     /\ Event
     /\ card[c].status = "active"
     /\ IF decision = "edit"
        THEN /\ card' = [SavedAs(derived, "superseded") EXCEPT ![c] = values]
             /\ fact' = Reopened(SourcesOf(derived) \ card[c].sources)
             /\ edited_from' = [edited_from EXCEPT ![c] = card[c].sources]
        ELSE /\ card' = [card EXCEPT ![c] = values]
             /\ UNCHANGED <<fact, edited_from>>
     /\ UNCHANGED <<tombstone, question, lease, run, worker, tx, overwritten>>

(* The answer becomes a fact in a later transaction, if any source of the   *)
(* question is still active.                                                *)
answer_question(w, q, f) ==
  LET related == question[q].sources \cap Active
  IN /\ Unlocked
     /\ Event
     /\ worker[w].pc = "idle"
     /\ question[q].status = "open"
     /\ f[1] = q
     /\ question' = [question EXCEPT ![q].status = "answered"]
     /\ fact' = Reopened(related)
     /\ worker' = IF related = {} THEN worker
                  ELSE [worker EXCEPT ![w] = [Resting EXCEPT !.pc = "answer", !.todo = {f}]]
     /\ UNCHANGED <<tombstone, card, lease, run, tx, history>>

(* Evidence and source of what is forgotten; what else the note says stays, *)
(* its evidence overlapping or not.                                         *)
tombstones(F) == tombstone \cup {<<f[1], f[3]>> : f \in F}

(* The user approves cards C and facts F of the preview; forgetting a card  *)
(* forgets what it rests on.                                                *)
approve_forget(C, F) ==
  LET gone == F \cup SourcesOf(C)
  IN /\ Unlocked
     /\ Event
     /\ C \cup F # {}
     /\ C \subseteq ActiveCards /\ F \subseteq Active
     /\ fact' = Withdrawn(gone, "forgotten")
     /\ tombstone' = tombstones(gone)
     /\ card' = [c \in Card |-> IF c \in C THEN SavedAs(C, "forgotten")[c]
                                ELSE SavedAs(Using(gone), "invalidated")[c]]
     /\ question' = Cancelled(AskedOn(gone))
     /\ UNCHANGED <<lease, run, worker, tx, history>>
-----------------------------------------------------------------------------
(* The next n card ids; fewer when the ids run out.                         *)
NewCards(n) ==
  LET unused == {c \in Card : tx.card[c].status = "absent"}
      First(C) == IF C = {} THEN {} ELSE {CHOOSE c \in C : TRUE}
  IN IF n = 1 THEN First(unused) ELSE First(unused) \cup First(unused \ First(unused))
Outputs(S) == [sources: SUBSET S \ {{}}, assertion: {"stated", "inferred"}]

Plan(r) ==
  /\ tx # NoTx /\ tx.run = r
  /\ \E S \in SUBSET run[r].facts :
       \/ \E a \in {"stated", "inferred"}, c \in NewCards(1) : apply_create(r, S, a, c)
       \/ \E T \in SUBSET ActiveCards :
            \/ apply_add_evidence(r, S, T)
            \/ \E base \in T : apply_merge(r, S, T, base)
            \/ \E out \in [NewCards(2) -> Outputs(S)] : apply_split(r, S, T, out)
            \/ apply_retract(r, S, T)
            \/ apply_link(r, S, T)
       \/ \E q \in Question : apply_defer(r, S, q)
       \/ \E Q \in SUBSET Question : apply_resolve_reference(r, S, Q)

Next ==
  \/ \E w \in Worker :
       \/ \E t \in Text : process_note_memory(w, t)
       \/ sync_source(w)
       \/ \E f \in worker[w].todo : ingest_fact(w, f)
       \/ ingest_candidate(w)
       \/ \E q \in Question, f \in Fact : answer_question(w, q, f)
  \/ \E r \in Run :
       \/ consolidate(r) \/ snapshot(r) \/ apply_plan(r) \/ Plan(r) \/ apply_commit(r)
       \/ validate_plan(r) \/ release_lease(r)
  \/ lease_expires
  \/ \E c \in Card, decision \in {"confirm", "edit", "reject"} : review_memory(c, decision)
  \/ \E C \in SUBSET ActiveCards, F \in SUBSET Active : approve_forget(C, F)

Spec == Init /\ [][Next]_vars
-----------------------------------------------------------------------------
(* Whatever is derived rests on evidence that still stands: the sources of  *)
(* an active card and of an open question are active, however notes change, *)
(* runs overlap and the user forgets meanwhile ("来源变更/被遗忘后，依赖卡失  *)
(* 效", docs/fact-memory-consolidation.md:37).  The exception is a fact     *)
(* whose row ingest_candidate replaced by an outdated copy.                 *)
DerivedRestsOnActiveFacts ==
  /\ \A c \in ActiveCards : card[c].sources \subseteq Active \cup overwritten
  /\ \A q \in Question : question[q].status = "open" =>
                           question[q].sources \subseteq Active \cup overwritten

(* A statement the user forgot is not active, even if a later revision of   *)
(* its source has the same span.  The exception is a source one of whose    *)
(* rows an outdated copy of ingest_candidate replaced.                      *)
ForgottenGone ==
  \A f \in Active : <<f[1], f[3]>> \in tombstone => \E g \in overwritten : g[1] = f[1]

(* Forgotten evidence does not come back, however late the worker: the      *)
(* forgotten statement stays out of the active facts, and no fact whose     *)
(* evidence contains forgotten evidence of the note, or is contained in it, *)
(* becomes active (the tombstone test of ingest_fact), unless an outdated   *)
(* copy of ingest_candidate brings it back.  A reworded or only partly      *)
(* overlapping span of any revision is not kept out, nor does a fact that   *)
(* was active beside the forgotten one go with it.                          *)
ForgottenStaysForgotten ==
  /\ []ForgottenGone
  /\ [][\A f \in Active' \ Active : Covered(f)' => f \in overwritten']_vars

(* A user's correction keeps its evidence: while a card the user edited is  *)
(* active, no card that is not under the user's lock rests on a source it   *)
(* had when it was edited, whatever runs and confirmations follow.          *)
EditedEvidenceExclusive ==
  \A e, c \in ActiveCards :
    c # e /\ ~UserLocked(c) => edited_from[e] \cap card[c].sources = {}

(* Two consolidation runs never both consume a fact: when apply_plan        *)
(* commits, the facts of its batch still wait, although the lease may have  *)
(* run out and another run may have taken it over and finished meanwhile.   *)
OneConsumer ==
  [][\A r \in Run : run[r].pc = "apply" /\ run'[r].pc = "applied" =>
       \A f \in run[r].batch : ~fact[f].processed \/ f \in overwritten]_vars
=============================================================================
