-------------------------- MODULE FactMemoryProofs --------------------------
(***************************************************************************)
(* Proofs about FactMemory for any notes, runs, workers, batch size and    *)
(* number of events: what is derived from facts rests on facts that stand, *)
(* what was forgotten stays forgotten, a correction keeps its evidence,    *)
(* and no fact is consumed twice.                                          *)
(***************************************************************************)
EXTENDS FactMemory, TLAPS

Locked == {"confirmed", "edited", "rejected"}
Editable == {"not_required", "unreviewed"}

(* A worker that is to write a fact back has one.                           *)
CopiesHaveFact == \A w \in Worker : worker[w].pc = "link" => worker[w].of \in Fact

(* The uncommitted work of apply_plan is that of the run with the lease.    *)
PlannerLeads == tx # NoTx => lease.run = tx.run

(* A run that has not lost the lease since its snapshot still has its batch *)
(* to itself.                                                               *)
BatchWaits ==
  \A r \in Run :
    /\ run[r].pc = "idle" => run[r].batch = {}
    /\ lease.run = r => \A f \in run[r].batch : ~fact[f].processed \/ f \in overwritten

(* A source has one active revision, unless an outdated copy came back.     *)
OneRevision ==
  \A f, g \in Active : f[1] = g[1] => f[2] = g[2] \/ \E h \in overwritten : h[1] = f[1]

CardsRest(cards) ==
  \A c \in Card : cards[c].status = "active" => cards[c].sources \subseteq Active \cup overwritten
QuestionsRest(questions) ==
  \A q \in Question : questions[q].status = "open" =>
    questions[q].sources \subseteq Active \cup overwritten

(* Cards and questions rest on active facts, committed or not.              *)
Rests ==
  /\ CardsRest(card) /\ QuestionsRest(question)
  /\ tx # NoTx => CardsRest(tx.card) /\ QuestionsRest(tx.question)

(* An edited card keeps its mark and the sources it had.                    *)
EditsKept(cards) ==
  \A e \in Card : edited_from[e] # {} =>
    /\ cards[e].status # "absent"
    /\ cards[e].status = "active" =>
         cards[e].review = "edited" /\ edited_from[e] \subseteq cards[e].sources
EvidenceKept(cards) ==
  \A e, c \in Card :
    cards[e].status = "active" /\ cards[c].status = "active" /\ c # e /\ cards[c].review \notin Locked
      => edited_from[e] \cap cards[c].sources = {}
(* apply_plan changes no lock, and revives no card.                         *)
LocksKept ==
  \A c \in Card :
    /\ card[c].review \in Locked <=> tx.card[c].review \in Locked
    /\ tx.card[c].status = "absent" => card[c].status = "absent"
    /\ tx.card[c].status = "active" => card[c].status \in {"absent", "active"}
Edits ==
  /\ \A c \in Card : card[c].status = "absent" => card[c].review \notin Locked
  /\ EditsKept(card) /\ EvidenceKept(card)
  /\ tx # NoTx => EditsKept(tx.card) /\ EvidenceKept(tx.card) /\ LocksKept

IInv ==
  /\ TypeOK /\ CopiesHaveFact
  /\ PlannerLeads /\ BatchWaits
  /\ OneRevision /\ ForgottenGone
  /\ Rests /\ Edits
-----------------------------------------------------------------------------
(* What the helpers of the model return.                                    *)

CardStatus == {"absent", "active", "invalidated", "superseded", "retracted",
               "rejected", "forgotten"}
FactStatus == {"absent", "active", "source_changed", "forgotten"}

LEMMA ReopenedRows ==
  ASSUME TypeOK, NEW F
  PROVE  /\ Reopened(F) \in [Fact -> FACT]
         /\ \A f \in Fact : /\ Reopened(F)[f].status = fact[f].status
                            /\ Reopened(F)[f].processed => fact[f].processed
<1>1. ASSUME NEW f \in Fact
      PROVE  /\ Reopened(F)[f] \in FACT
             /\ Reopened(F)[f].status = fact[f].status
             /\ Reopened(F)[f].processed => fact[f].processed
  <2>0. fact[f] \in FACT
    BY DEF TypeOK
  <2>1. CASE f \in F \cap Active
    <3>1. Reopened(F)[f] = [fact[f] EXCEPT !.processed = FALSE]
      BY <2>1 DEF Reopened
    <3> QED BY <2>0, <3>1 DEF FACT
  <2>2. CASE f \notin F \cap Active
    <3>1. Reopened(F)[f] = fact[f]
      BY <2>2 DEF Reopened
    <3> QED BY <2>0, <3>1
  <2> QED BY <2>1, <2>2
<1>2. Reopened(F) = [f \in Fact |-> Reopened(F)[f]]
  BY DEF Reopened
<1> QED BY <1>1, <1>2

LEMMA WithdrawnRows ==
  ASSUME TypeOK, NEW F, NEW s \in FactStatus
  PROVE  /\ Withdrawn(F, s) \in [Fact -> FACT]
         /\ \A f \in Fact : /\ Withdrawn(F, s)[f].status = IF f \in F THEN s ELSE fact[f].status
                            /\ Withdrawn(F, s)[f].processed => fact[f].processed
<1> DEFINE R == Reopened(SourcesOf(Using(F)))
<1>0. /\ R \in [Fact -> FACT]
      /\ \A f \in Fact : R[f].status = fact[f].status /\ (R[f].processed => fact[f].processed)
  BY ReopenedRows
<1>1. ASSUME NEW f \in Fact
      PROVE  /\ Withdrawn(F, s)[f] \in FACT
             /\ Withdrawn(F, s)[f].status = IF f \in F THEN s ELSE fact[f].status
             /\ Withdrawn(F, s)[f].processed => fact[f].processed
  <2>0. fact[f] \in FACT
    BY DEF TypeOK
  <2>1. CASE f \in F
    <3>1. Withdrawn(F, s)[f] = [fact[f] EXCEPT !.status = s]
      BY <2>1 DEF Withdrawn
    <3> QED BY <2>0, <2>1, <3>1 DEF FACT, FactStatus
  <2>2. CASE f \notin F
    <3>1. Withdrawn(F, s)[f] = R[f]
      BY <2>2 DEF Withdrawn
    <3> HIDE DEF R
    <3> QED BY <1>0, <2>2, <3>1
  <2> QED BY <2>1, <2>2
<1>2. Withdrawn(F, s) = [f \in Fact |-> Withdrawn(F, s)[f]]
  BY DEF Withdrawn
<1> QED BY <1>1, <1>2

LEMMA SavedRows ==
  ASSUME TypeOK, NEW C, NEW s \in CardStatus
  PROVE  /\ SavedAs(C, s) \in [Card -> CARD]
         /\ \A c \in Card : /\ SavedAs(C, s)[c].status = IF c \in C THEN s ELSE card[c].status
                            /\ SavedAs(C, s)[c].sources = card[c].sources
                            /\ SavedAs(C, s)[c].review = card[c].review
<1>1. ASSUME NEW c \in Card
      PROVE  /\ SavedAs(C, s)[c] \in CARD
             /\ SavedAs(C, s)[c].status = IF c \in C THEN s ELSE card[c].status
             /\ SavedAs(C, s)[c].sources = card[c].sources
             /\ SavedAs(C, s)[c].review = card[c].review
  <2>0. card[c] \in CARD
    BY DEF TypeOK
  <2>1. CASE c \in C
    <3>1. SavedAs(C, s)[c] = [card[c] EXCEPT !.status = s, !.seen = {}]
      BY <2>1 DEF SavedAs
    <3> QED BY <2>0, <2>1, <3>1 DEF CARD, CardStatus
  <2>2. CASE c \notin C
    BY <2>0, <2>2 DEF SavedAs
  <2> QED BY <2>1, <2>2
<1>2. SavedAs(C, s) = [c \in Card |-> SavedAs(C, s)[c]]
  BY DEF SavedAs
<1> QED BY <1>1, <1>2

LEMMA UnseenRows ==
  ASSUME NEW cards \in [Card -> CARD], NEW r
  PROVE  /\ Unseen(cards, r) \in [Card -> CARD]
         /\ \A c \in Card : /\ Unseen(cards, r)[c].status = cards[c].status
                            /\ Unseen(cards, r)[c].sources = cards[c].sources
                            /\ Unseen(cards, r)[c].review = cards[c].review
<1>1. ASSUME NEW c \in Card
      PROVE  /\ Unseen(cards, r)[c] \in CARD
             /\ Unseen(cards, r)[c].status = cards[c].status
             /\ Unseen(cards, r)[c].sources = cards[c].sources
             /\ Unseen(cards, r)[c].review = cards[c].review
  <2>1. Unseen(cards, r)[c] = [cards[c] EXCEPT !.seen = cards[c].seen \ {r}]
    BY DEF Unseen
  <2>2. cards[c] \in CARD
    OBVIOUS
  <2> QED BY <2>1, <2>2 DEF CARD
<1>2. Unseen(cards, r) = [c \in Card |-> Unseen(cards, r)[c]]
  BY DEF Unseen
<1> QED BY <1>1, <1>2

LEMMA CancelledRows ==
  ASSUME TypeOK, NEW Q
  PROVE  /\ Cancelled(Q) \in [Question -> QUESTION]
         /\ \A q \in Question :
              /\ Cancelled(Q)[q].status = IF q \in Q THEN "cancelled" ELSE question[q].status
              /\ Cancelled(Q)[q].sources = question[q].sources
<1>1. ASSUME NEW q \in Question
      PROVE  /\ Cancelled(Q)[q] \in QUESTION
             /\ Cancelled(Q)[q].status = IF q \in Q THEN "cancelled" ELSE question[q].status
             /\ Cancelled(Q)[q].sources = question[q].sources
  <2>0. question[q] \in QUESTION
    BY DEF TypeOK
  <2>1. CASE q \in Q
    <3>1. Cancelled(Q)[q] = [question[q] EXCEPT !.status = "cancelled"]
      BY <2>1 DEF Cancelled
    <3> QED BY <2>0, <2>1, <3>1 DEF QUESTION
  <2>2. CASE q \notin Q
    BY <2>0, <2>2 DEF Cancelled
  <2> QED BY <2>1, <2>2
<1>2. Cancelled(Q) = [q \in Question |-> Cancelled(Q)[q]]
  BY DEF Cancelled
<1> QED BY <1>1, <1>2
-----------------------------------------------------------------------------
(* One action of a plan.                                                    *)

(* What an action on the evidence S may make of the card c.                 *)
CardEffect(S, c, row) ==
  \/ row = tx.card[c]
  \/ /\ tx.card[c].status = "active"
     /\ row.status \notin {"active", "absent"} /\ row.review = tx.card[c].review
  \/ /\ tx.card[c].status = "active"
     /\ row.status = "active" /\ row.review = tx.card[c].review
     /\ row.sources = tx.card[c].sources \cup S
     /\ protected(S) = {} \/ c \in protected(S)
  \/ /\ tx.card[c].status = "absent" \/ (tx.card[c].status = "active" /\ ~UserLocked(c))
     /\ row.status = "active" /\ row.review \in Editable
     /\ protected(S) = {}
     /\ \A f \in row.sources : \/ f \in S
                               \/ \E d \in Card : /\ tx.card[d].status = "active" /\ ~UserLocked(d)
                                                  /\ f \in tx.card[d].sources
(* And of the question q.                                                   *)
QuestionEffect(S, q, row) ==
  \/ row = tx.question[q]
  \/ row.status = "resolved"
  \/ row = [status |-> "open", sources |-> S]

PlanEffect(r, S) ==
  /\ tx # NoTx /\ tx.run = r /\ S \subseteq Active
  /\ tx' \in TX /\ tx'.run = r
  /\ \A c \in Card : CardEffect(S, c, tx'.card[c])
  /\ \A q \in Question : QuestionEffect(S, q, tx'.question[q])
  /\ UNCHANGED <<tables, lease, run, worker, history>>
  /\ events' \in 0..MaxEvents

LEMMA ActedEffect ==
  ASSUME TypeOK, NEW r, NEW S, Acting(r, S), NEW T \in SUBSET Card,
         NEW cards \in [Card -> CARD], NEW questions \in [Question -> QUESTION],
         Acted(S, T, cards, questions),
         \A c \in Card : CardEffect(S, c, cards[c]),
         \A q \in Question : QuestionEffect(S, q, questions[q])
  PROVE  PlanEffect(r, S)
<1>1. tx # NoTx /\ tx.run = r /\ S \subseteq Active
  BY DEF Acting
<1>2. tx \in TX
  BY <1>1 DEF TypeOK
<1>3. tx' = [tx EXCEPT !.card = cards, !.question = questions,
                       !.waiting = tx.waiting \ S, !.touched = tx.touched \cup T]
  BY DEF Acted
<1>4. tx' \in TX /\ tx'.run = tx.run /\ tx'.card = cards /\ tx'.question = questions
  BY <1>2, <1>3 DEF TX
<1>5. events' \in 0..MaxEvents
  BY FactAssumption DEF Acted, Event, TypeOK
<1>6. UNCHANGED <<tables, lease, run, worker, history>>
  BY DEF Acted
<1> QED BY <1>1, <1>4, <1>5, <1>6 DEF PlanEffect

LEMMA FreshRow ==
  ASSUME NEW a \in {"stated", "inferred"}, NEW S \in SUBSET Fact
  PROVE  /\ Fresh(a, S) \in CARD
         /\ Fresh(a, S).status = "active" /\ Fresh(a, S).sources = S
         /\ Fresh(a, S).review \in Editable
BY DEF Fresh, CARD, Editable

LEMMA PlanStep ==
  ASSUME TypeOK, NEW r \in Run, Plan(r)
  PROVE  \E S : PlanEffect(r, S)
<1>1. tx # NoTx /\ tx.run = r
  BY DEF Plan
<1>2. tx \in TX
  BY <1>1 DEF TypeOK
<1>3. /\ tx.card \in [Card -> CARD] /\ tx.question \in [Question -> QUESTION]
      /\ tx.run \in Run
  BY <1>2 DEF TX
<1>4. run[r].facts \subseteq Fact
  BY DEF TypeOK
<1>5. PICK S \in SUBSET run[r].facts :
       \/ \E a \in {"stated", "inferred"}, c \in NewCards(1) : apply_create(r, S, a, c)
       \/ \E T \in SUBSET ActiveCards :
            \/ apply_add_evidence(r, S, T)
            \/ \E base \in T : apply_merge(r, S, T, base)
            \/ \E out \in [NewCards(2) -> Outputs(S)] : apply_split(r, S, T, out)
            \/ apply_retract(r, S, T)
            \/ apply_link(r, S, T)
       \/ \E q \in Question : apply_defer(r, S, q)
       \/ \E Q \in SUBSET Question : apply_resolve_reference(r, S, Q)
  BY DEF Plan
<1>6. S \in SUBSET Fact
  BY <1>4
<1>7. \A c \in Card : CardEffect(S, c, tx.card[c])
  BY DEF CardEffect
<1>8. \A q \in Question : QuestionEffect(S, q, tx.question[q])
  BY DEF QuestionEffect
<1>9. NewCards(1) \subseteq Card /\ NewCards(2) \subseteq Card
  BY DEF NewCards
<1>10. ActiveCards \subseteq Card
  BY DEF ActiveCards
<1>c. ASSUME NEW a \in {"stated", "inferred"}, NEW c \in NewCards(1), apply_create(r, S, a, c)
      PROVE  PlanEffect(r, S)
  <2> DEFINE cards == [tx.card EXCEPT ![c] = Fresh(a, S)]
  <2>1. Acting(r, S) /\ Acted(S, {}, cards, tx.question) /\ protected(S) = {}
        /\ tx.card[c].status = "absent"
    BY <1>c DEF apply_create
  <2>2. cards \in [Card -> CARD]
    BY <1>3, <1>6, FreshRow
  <2>3. CardEffect(S, c, Fresh(a, S))
    BY <1>6, <2>1, FreshRow DEF CardEffect
  <2>4. \A d \in Card : CardEffect(S, d, cards[d])
    BY <1>3, <1>7, <2>3
  <2> HIDE DEF cards
  <2> QED BY <1>3, <1>8, <2>1, <2>2, <2>4, ActedEffect
<1>a. ASSUME NEW T \in SUBSET ActiveCards, apply_add_evidence(r, S, T)
      PROVE  PlanEffect(r, S)
  <2> DEFINE cards == [c \in Card |-> IF c \in T
                                      THEN [tx.card[c] EXCEPT !.sources = tx.card[c].sources \cup S,
                                                              !.seen = {}]
                                      ELSE tx.card[c]]
  <2>1. /\ Acting(r, S) /\ Acted(S, T, cards, tx.question)
        /\ \A c \in T : tx.card[c].status = "active"
        /\ protected(S) = {} \/ T \subseteq protected(S)
    BY <1>a DEF apply_add_evidence, target_current
  <2>2. ASSUME NEW c \in Card
        PROVE  cards[c] \in CARD /\ CardEffect(S, c, cards[c])
    <3>1. CASE c \in T
      <4>1. cards[c] = [tx.card[c] EXCEPT !.sources = tx.card[c].sources \cup S, !.seen = {}]
        BY <3>1
      <4>2. tx.card[c] \in CARD
        BY <1>3
      <4>3. /\ cards[c] \in CARD /\ cards[c].status = tx.card[c].status
            /\ cards[c].review = tx.card[c].review
            /\ cards[c].sources = tx.card[c].sources \cup S
        BY <1>6, <4>1, <4>2 DEF CARD
      <4> QED BY <2>1, <3>1, <4>3 DEF CardEffect
    <3>2. CASE c \notin T
      BY <1>3, <1>7, <3>2
    <3> QED BY <3>1, <3>2
  <2>3. cards \in [Card -> CARD]
    BY <2>2
  <2> HIDE DEF cards
  <2> QED BY <1>3, <1>8, <1>10, <2>1, <2>2, <2>3, ActedEffect
<1>m. ASSUME NEW T \in SUBSET ActiveCards, NEW base \in T, apply_merge(r, S, T, base)
      PROVE  PlanEffect(r, S)
  <2> DEFINE evidence == S \cup UNION {tx.card[c].sources : c \in T}
             cards == [c \in Card |-> IF c = base THEN Fresh(tx.card[c].assertion, evidence)
                                      ELSE IF c \in T THEN Retired(c, "superseded")
                                      ELSE tx.card[c]]
  <2>1. /\ Acting(r, S) /\ Acted(S, T, cards, tx.question) /\ protected(S) = {}
        /\ \A c \in T : tx.card[c].status = "active" /\ ~UserLocked(c)
    BY <1>m DEF apply_merge, Rewritable, target_current
  <2>2. evidence \in SUBSET Fact
    BY <1>3, <1>6, <1>10 DEF CARD
  <2>3. \A f \in evidence : \/ f \in S
                            \/ \E d \in Card : /\ tx.card[d].status = "active" /\ ~UserLocked(d)
                                               /\ f \in tx.card[d].sources
    BY <1>10, <2>1
  <2> HIDE DEF evidence
  <2>4. ASSUME NEW c \in Card
        PROVE  cards[c] \in CARD /\ CardEffect(S, c, cards[c])
    <3>0. tx.card[c] \in CARD
      BY <1>3
    <3>1. CASE c = base
      <4>1. cards[c] = Fresh(tx.card[c].assertion, evidence) /\ tx.card[c].assertion \in {"stated", "inferred"}
        BY <3>0, <3>1 DEF CARD
      <4> QED BY <2>1, <2>2, <2>3, <3>1, <4>1, FreshRow DEF CardEffect
    <3>2. CASE c # base /\ c \in T
      <4>1. cards[c] = [tx.card[c] EXCEPT !.status = "superseded", !.seen = {}]
        BY <3>2 DEF Retired
      <4> QED BY <2>1, <3>0, <3>2, <4>1 DEF CARD, CardEffect
    <3>3. CASE c # base /\ c \notin T
      BY <1>7, <3>0, <3>3
    <3> QED BY <3>1, <3>2, <3>3
  <2>5. cards \in [Card -> CARD]
    BY <2>4
  <2> HIDE DEF cards
  <2> QED BY <1>3, <1>8, <1>10, <2>1, <2>4, <2>5, ActedEffect
<1>s. ASSUME NEW T \in SUBSET ActiveCards, NEW out \in [NewCards(2) -> Outputs(S)],
             apply_split(r, S, T, out)
      PROVE  PlanEffect(r, S)
  <2> DEFINE cards == [c \in Card |-> IF c \in DOMAIN out
                                      THEN Fresh(out[c].assertion, out[c].sources)
                                      ELSE IF c \in T THEN Retired(c, "superseded")
                                      ELSE tx.card[c]]
  <2>1. /\ Acting(r, S) /\ Acted(S, T, cards, tx.question) /\ protected(S) = {}
        /\ \A c \in T : tx.card[c].status = "active" /\ ~UserLocked(c)
        /\ \A c \in DOMAIN out : tx.card[c].status = "absent"
    BY <1>s DEF apply_split, Rewritable, target_current
  <2>2. \A c \in DOMAIN out : out[c].sources \subseteq S /\ out[c].assertion \in {"stated", "inferred"}
    BY DEF Outputs
  <2>4. ASSUME NEW c \in Card
        PROVE  cards[c] \in CARD /\ CardEffect(S, c, cards[c])
    <3>0. tx.card[c] \in CARD
      BY <1>3
    <3>1. CASE c \in DOMAIN out
      <4>1. cards[c] = Fresh(out[c].assertion, out[c].sources)
        BY <3>1
      <4>2. out[c].sources \in SUBSET Fact /\ out[c].assertion \in {"stated", "inferred"}
        BY <1>6, <2>2, <3>1
      <4> QED BY <2>1, <2>2, <3>1, <4>1, <4>2, FreshRow DEF CardEffect
    <3>2. CASE c \notin DOMAIN out /\ c \in T
      <4>1. cards[c] = [tx.card[c] EXCEPT !.status = "superseded", !.seen = {}]
        BY <3>2 DEF Retired
      <4> QED BY <2>1, <3>0, <3>2, <4>1 DEF CARD, CardEffect
    <3>3. CASE c \notin DOMAIN out /\ c \notin T
      BY <1>7, <3>0, <3>3
    <3> QED BY <3>1, <3>2, <3>3
  <2>5. cards \in [Card -> CARD]
    BY <2>4
  <2> HIDE DEF cards
  <2> QED BY <1>3, <1>8, <1>10, <2>1, <2>4, <2>5, ActedEffect
<1>t. ASSUME NEW T \in SUBSET ActiveCards, apply_retract(r, S, T)
      PROVE  PlanEffect(r, S)
  <2> DEFINE cards == [c \in Card |-> IF c \in T THEN Retired(c, "retracted") ELSE tx.card[c]]
  <2>1. /\ Acting(r, S) /\ Acted(S, T, cards, tx.question)
        /\ \A c \in T : tx.card[c].status = "active" /\ ~UserLocked(c)
    BY <1>t DEF apply_retract, Rewritable, target_current
  <2>4. ASSUME NEW c \in Card
        PROVE  cards[c] \in CARD /\ CardEffect(S, c, cards[c])
    <3>0. tx.card[c] \in CARD
      BY <1>3
    <3>2. CASE c \in T
      <4>1. cards[c] = [tx.card[c] EXCEPT !.status = "retracted", !.seen = {}]
        BY <3>2 DEF Retired
      <4> QED BY <2>1, <3>0, <3>2, <4>1 DEF CARD, CardEffect
    <3>3. CASE c \notin T
      BY <1>7, <3>0, <3>3
    <3> QED BY <3>2, <3>3
  <2>5. cards \in [Card -> CARD]
    BY <2>4
  <2> HIDE DEF cards
  <2> QED BY <1>3, <1>8, <1>10, <2>1, <2>4, <2>5, ActedEffect
<1>l. ASSUME NEW T \in SUBSET ActiveCards, apply_link(r, S, T)
      PROVE  PlanEffect(r, S)
  <2>1. Acting(r, S) /\ Acted(S, {}, tx.card, tx.question)
    BY <1>l DEF apply_link
  <2> QED BY <1>3, <1>7, <1>8, <2>1, ActedEffect
<1>d. ASSUME NEW q \in Question, apply_defer(r, S, q)
      PROVE  PlanEffect(r, S)
  <2> DEFINE questions == [tx.question EXCEPT ![q] = [status |-> "open", sources |-> S]]
  <2>1. Acting(r, S) /\ Acted(S, {}, tx.card, questions)
    BY <1>d DEF apply_defer
  <2>2. questions \in [Question -> QUESTION]
    BY <1>3, <1>6 DEF QUESTION
  <2>3. \A p \in Question : QuestionEffect(S, p, questions[p])
    BY <1>3 DEF QuestionEffect
  <2> HIDE DEF questions
  <2> QED BY <1>3, <1>7, <2>1, <2>2, <2>3, ActedEffect
<1>r. ASSUME NEW Q \in SUBSET Question, apply_resolve_reference(r, S, Q)
      PROVE  PlanEffect(r, S)
  <2> DEFINE questions == [q \in Question |->
               IF q \in Q THEN [tx.question[q] EXCEPT !.status = "resolved"] ELSE tx.question[q]]
  <2>1. Acting(r, S) /\ Acted(S, {}, tx.card, questions)
    BY <1>r DEF apply_resolve_reference
  <2>2. ASSUME NEW q \in Question
        PROVE  questions[q] \in QUESTION /\ QuestionEffect(S, q, questions[q])
    <3>0. tx.question[q] \in QUESTION
      BY <1>3
    <3>1. CASE q \in Q
      <4>1. questions[q] = [tx.question[q] EXCEPT !.status = "resolved"]
        BY <3>1
      <4> QED BY <3>0, <4>1 DEF QUESTION, QuestionEffect
    <3>2. CASE q \notin Q
      BY <1>8, <3>0, <3>2
    <3> QED BY <3>1, <3>2
  <2>3. questions \in [Question -> QUESTION]
    BY <2>2
  <2> HIDE DEF questions
  <2> QED BY <1>3, <1>7, <2>1, <2>2, <2>3, ActedEffect
<1> QED BY <1>5, <1>c, <1>a, <1>m, <1>s, <1>t, <1>l, <1>d, <1>r
-----------------------------------------------------------------------------
(* The types, action by action.                                             *)
LEMMA InitTypes == Init => TypeOK /\ CopiesHaveFact
<1> SUFFICES ASSUME Init PROVE TypeOK /\ CopiesHaveFact
  OBVIOUS
<1>1. fact \in [Fact -> FACT]
  <2>1. \A f \in Fact : fact[f] \in FACT
    BY DEF Init, FACT, NoFact
  <2> QED BY <2>1 DEF Init
<1>2. card \in [Card -> CARD]
  <2>1. ASSUME NEW c \in Card PROVE card[c] \in CARD
    <3>1. NoCard \in CARD
      BY DEF NoCard, CARD
    <3>2. CASE c \in DOMAIN Organised
      <4>1. card[c] = [status |-> "active", sources |-> {Organised[c]}, assertion |-> "stated",
                       review |-> "not_required", seen |-> {}]
        BY <3>2 DEF Init, NoCard
      <4>2. Organised[c] \in Fact
        BY <3>2, FactAssumption
      <4> QED BY <4>1, <4>2 DEF CARD
    <3>3. CASE c \notin DOMAIN Organised
      BY <3>1, <3>3 DEF Init
    <3> QED BY <3>2, <3>3
  <2> QED BY <2>1 DEF Init
<1>3. question \in [Question -> QUESTION]
  BY DEF Init, QUESTION
<1>4. run \in [Run -> [pc: {"idle", "leased", "planned", "apply", "applied", "failed"},
                      facts: SUBSET Fact, batch: SUBSET Fact]]
  BY DEF Init, Idle
<1>5. worker \in [Worker -> [pc: {"idle", "sync", "ingest", "link", "answer"},
                            text: Text \cup {<<>>}, todo: SUBSET Fact,
                            of: Fact \cup {<<>>}, copy: FACT]]
  BY DEF Init, Resting, NoFact, FACT
<1>6. lease \in [run: Run \cup {NoRun}, live: BOOLEAN] /\ edited_from \in [Card -> SUBSET Fact]
  BY DEF Init
<1>7. /\ tombstone \subseteq Source \X Statement /\ tx = NoTx /\ events \in 0..MaxEvents
      /\ overwritten \subseteq Fact
  <2>1. MaxEvents \in Nat
    BY FactAssumption
  <2>2. tombstone = {} /\ tx = NoTx /\ events = 0 /\ overwritten = {}
    BY DEF Init
  <2> QED BY <2>1, <2>2
<1>8. CopiesHaveFact
  BY DEF Init, CopiesHaveFact, Resting
<1> QED BY <1>1, <1>2, <1>3, <1>4, <1>5, <1>6, <1>7, <1>8 DEF TypeOK

LEMMA FactParts ==
  ASSUME NEW f \in Fact
  PROVE  /\ f[1] \in Source /\ f[3] \in Statement
         /\ <<f[3], f[3]>> \in Overlap
BY FactAssumption DEF Source

LEMMA EventBound == ASSUME TypeOK, Event PROVE events' \in 0..MaxEvents
BY FactAssumption DEF TypeOK, Event

(* Withdrawing facts, as sync_source and ingest_fact do.                    *)
LEMMA InvalidateTypes ==
  ASSUME TypeOK, NEW F, invalidate_sources(F)
  PROVE  /\ fact' \in [Fact -> FACT]
         /\ card' \in [Card -> CARD]
         /\ question' \in [Question -> QUESTION]
<1>1. "source_changed" \in FactStatus /\ "invalidated" \in CardStatus
  BY DEF FactStatus, CardStatus
<1> QED BY <1>1, WithdrawnRows, SavedRows, CancelledRows DEF invalidate_sources

LEMMA TypeStep ==
  ASSUME TypeOK, CopiesHaveFact, [Next]_vars
  PROVE  TypeOK' /\ CopiesHaveFact'
<1> DEFINE
     RUN == [pc: {"idle", "leased", "planned", "apply", "applied", "failed"},
             facts: SUBSET Fact, batch: SUBSET Fact]
     WORKER == [pc: {"idle", "sync", "ingest", "link", "answer"},
                text: Text \cup {<<>>}, todo: SUBSET Fact,
                of: Fact \cup {<<>>}, copy: FACT]
<1>0. /\ NoFact \in FACT /\ Resting \in WORKER /\ Resting.pc = "idle"
      /\ Idle \in RUN
      /\ \A pc \in {"applied", "failed"} : Ending(pc) \in RUN
  BY DEF NoFact, FACT, Resting, Idle, Ending
<1>g. ASSUME NEW F \in SUBSET Fact
      PROVE  GoingOn(F) \in WORKER /\ GoingOn(F).pc # "link"
  <2>1. /\ [Resting EXCEPT !.pc = "ingest", !.todo = F] \in WORKER
        /\ [Resting EXCEPT !.pc = "ingest", !.todo = F].pc = "ingest"
    BY <1>0
  <2> QED BY <1>0, <2>1 DEF GoingOn
<1>h. ASSUME NEW w \in Worker, NEW row \in WORKER, row.pc = "link" => row.of \in Fact,
             worker' = [worker EXCEPT ![w] = row]
      PROVE  worker' \in [Worker -> WORKER] /\ CopiesHaveFact'
  BY <1>h DEF TypeOK, CopiesHaveFact
<1>1. ASSUME NEW r \in Run, NEW pc \in {"leased", "planned", "apply"}
      PROVE  [run EXCEPT ![r].pc = pc] \in [Run -> RUN]
  <2>1. run \in [Run -> RUN] /\ run[r] \in RUN
    BY DEF TypeOK
  <2>2. [run[r] EXCEPT !.pc = pc] \in RUN
    BY <2>1
  <2>3. [run EXCEPT ![r].pc = pc] = [run EXCEPT ![r] = [run[r] EXCEPT !.pc = pc]]
    OBVIOUS
  <2> HIDE DEF RUN
  <2> QED BY <2>1, <2>2, <2>3
<1>p. ASSUME NEW w \in Worker, NEW t \in Text, process_note_memory(w, t)
      PROVE  TypeOK' /\ CopiesHaveFact'
  <2>2. /\ [Resting EXCEPT !.pc = "sync", !.text = t] \in WORKER
        /\ [Resting EXCEPT !.pc = "sync", !.text = t].pc = "sync"
    BY <1>0
  <2>3. worker' \in [Worker -> WORKER] /\ CopiesHaveFact'
    BY <1>p, <1>h, <2>2 DEF process_note_memory
  <2> QED BY <1>p, <2>3, EventBound DEF process_note_memory, TypeOK, tables, history
<1>s. ASSUME NEW w \in Worker, sync_source(w) PROVE TypeOK' /\ CopiesHaveFact'
  <2>1. /\ fact' \in [Fact -> FACT] /\ card' \in [Card -> CARD]
        /\ question' \in [Question -> QUESTION]
    BY <1>s, InvalidateTypes DEF sync_source
  <2>2. PICK found \in SUBSET Fact : worker' = [worker EXCEPT ![w] = GoingOn(found)]
    BY <1>s DEF sync_source, FactsOf
  <2>3. worker' \in [Worker -> WORKER] /\ CopiesHaveFact'
    BY <1>g, <1>h, <2>2
  <2> QED BY <1>s, <2>1, <2>3 DEF sync_source, TypeOK, history
<1>i. ASSUME NEW w \in Worker, NEW f \in worker[w].todo, ingest_fact(w, f)
      PROVE  TypeOK' /\ CopiesHaveFact'
  <2> DEFINE new == fact[f].status \in {"absent", "source_changed"}
             row == IF new THEN ingested(f) ELSE fact[f]
  <2>0. f \in Fact /\ worker[w] \in WORKER
    BY <1>i DEF TypeOK
  <2>1. row \in FACT
    <3>1. ingested(f) \in FACT /\ fact[f] \in FACT
      BY <2>0 DEF ingested, FACT, TypeOK
    <3> QED BY <3>1
  <2>2. /\ fact' \in [Fact -> FACT] /\ card' \in [Card -> CARD]
        /\ question' \in [Question -> QUESTION]
    <3>1. CASE new
      <4>1. "source_changed" \in FactStatus /\ "invalidated" \in CardStatus
        BY DEF FactStatus, CardStatus
      <4>2. /\ Withdrawn(Outdated(f), "source_changed") \in [Fact -> FACT]
            /\ SavedAs(Using(Outdated(f)), "invalidated") \in [Card -> CARD]
            /\ Cancelled({q \in AskedOn(Outdated(f)) : question[q].status = "open"})
                 \in [Question -> QUESTION]
        BY <4>1, WithdrawnRows, SavedRows, CancelledRows
      <4>3. /\ fact' = [Withdrawn(Outdated(f), "source_changed") EXCEPT ![f] = row]
            /\ card' = SavedAs(Using(Outdated(f)), "invalidated")
            /\ question' = Cancelled({q \in AskedOn(Outdated(f)) : question[q].status = "open"})
        BY <1>i, <3>1 DEF ingest_fact
      <4> HIDE DEF row
      <4> QED BY <2>1, <4>2, <4>3
    <3>2. CASE ~new
      BY <1>i, <3>2 DEF ingest_fact, TypeOK
    <3> QED BY <3>1, <3>2
  <2>3. worker' \in [Worker -> WORKER] /\ CopiesHaveFact'
    <3> DEFINE writer == [worker[w] EXCEPT !.pc = "link", !.of = f, !.copy = row]
    <3>1. CASE worker' = [worker EXCEPT ![w].pc = "link", ![w].of = f, ![w].copy = row]
      <4> HIDE DEF row
      <4>1. writer \in WORKER /\ writer.of = f
        BY <2>0, <2>1
      <4>2. worker' = [worker EXCEPT ![w] = writer]
        BY <3>1
      <4> HIDE DEF writer, WORKER
      <4> QED BY <1>h, <2>0, <4>1, <4>2
    <3>2. CASE worker' = [worker EXCEPT ![w] = GoingOn(worker[w].todo \ {f})]
      <4>1. worker[w].todo \ {f} \in SUBSET Fact
        BY <2>0
      <4> QED BY <1>g, <1>h, <3>2, <4>1
    <3> QED BY <1>i, <3>1, <3>2 DEF ingest_fact
  <2>4. UNCHANGED <<tombstone, lease, run, tx, events, history>>
    BY <1>i DEF ingest_fact
  <2> QED BY <2>2, <2>3, <2>4 DEF TypeOK, history
<1>c. ASSUME NEW w \in Worker, ingest_candidate(w) PROVE TypeOK' /\ CopiesHaveFact'
  <2>1. worker[w].of \in Fact /\ worker[w].copy \in FACT
    BY <1>c DEF ingest_candidate, CopiesHaveFact, TypeOK
  <2>2. fact' \in [Fact -> FACT] /\ overwritten' \subseteq Fact
    BY <1>c, <2>1 DEF ingest_candidate, TypeOK
  <2>3. worker' \in [Worker -> WORKER] /\ CopiesHaveFact'
    <3>1. worker[w].todo \ {worker[w].of} \in SUBSET Fact
      BY DEF TypeOK
    <3>2. worker' = [worker EXCEPT ![w] = GoingOn(worker[w].todo \ {worker[w].of})]
      BY <1>c DEF ingest_candidate
    <3> QED BY <1>g, <1>h, <3>1, <3>2
  <2> QED BY <1>c, <2>2, <2>3 DEF ingest_candidate, TypeOK
<1>a. ASSUME NEW w \in Worker, NEW q \in Question, NEW f \in Fact, answer_question(w, q, f)
      PROVE  TypeOK' /\ CopiesHaveFact'
  <2>2. worker' \in [Worker -> WORKER] /\ CopiesHaveFact'
    <3>1. CASE worker' = worker
      BY <3>1 DEF TypeOK, CopiesHaveFact
    <3>2. CASE worker' = [worker EXCEPT ![w] = [Resting EXCEPT !.pc = "answer", !.todo = {f}]]
      <4>1. /\ [Resting EXCEPT !.pc = "answer", !.todo = {f}] \in WORKER
            /\ [Resting EXCEPT !.pc = "answer", !.todo = {f}].pc = "answer"
        BY <1>0
      <4> QED BY <1>h, <3>2, <4>1
    <3> QED BY <1>a, <3>1, <3>2 DEF answer_question
  <2>3. fact' \in [Fact -> FACT]
    BY <1>a, ReopenedRows DEF answer_question
  <2>4. question' \in [Question -> QUESTION]
    BY <1>a DEF answer_question, TypeOK, QUESTION
  <2> QED BY <1>a, <2>2, <2>3, <2>4, EventBound DEF answer_question, TypeOK, history
<1>o. ASSUME NEW r \in Run, consolidate(r) PROVE TypeOK' /\ CopiesHaveFact'
  <2>1. lease' \in [run: Run \cup {NoRun}, live: BOOLEAN]
    BY <1>o DEF consolidate
  <2>2. run' \in [Run -> RUN]
    BY <1>o, <1>1 DEF consolidate
  <2>3. UNCHANGED <<tables, worker, tx, history>>
    BY <1>o DEF consolidate
  <2> QED BY <1>o, <2>1, <2>2, <2>3, EventBound
      DEF consolidate, TypeOK, CopiesHaveFact, tables, history
<1>n. ASSUME NEW r \in Run, snapshot(r) PROVE TypeOK' /\ CopiesHaveFact'
  <2> DEFINE new == {f \in Active : ~fact[f].processed}
  <2>1. new \subseteq Fact /\ Active \subseteq Fact
    BY DEF Active
  <2>2. run' \in [Run -> RUN]
    <3>1. PICK batch \in SUBSET new :
            run' = [run EXCEPT ![r] = IF batch = {} THEN Ending("applied")
                                      ELSE [pc |-> "planned", facts |-> Active, batch |-> batch]]
      BY <1>n DEF snapshot
    <3>2. [pc |-> "planned", facts |-> Active, batch |-> batch] \in RUN
      BY <2>1
    <3> QED BY <1>0, <3>1, <3>2 DEF TypeOK
  <2>3. card' \in [Card -> CARD]
    <3> DEFINE seen == [c \in Card |-> IF c \in ActiveCards
                                THEN [card[c] EXCEPT !.seen = @ \cup {r}] ELSE card[c]]
    <3>1. card' = card \/ card' = seen
      BY <1>n DEF snapshot
    <3>2. ASSUME NEW c \in Card PROVE seen[c] \in CARD
      <4>1. card[c] \in CARD
        BY DEF TypeOK
      <4>2. CASE c \in ActiveCards
        <5>1. seen[c] = [card[c] EXCEPT !.seen = card[c].seen \cup {r}]
          BY <4>2
        <5> QED BY <4>1, <5>1 DEF CARD
      <4>3. CASE c \notin ActiveCards
        BY <4>1, <4>3
      <4> QED BY <4>2, <4>3
    <3>3. seen \in [Card -> CARD]
      BY <3>2
    <3> HIDE DEF seen
    <3> QED BY <3>1, <3>3 DEF TypeOK
  <2> QED BY <1>n, <2>2, <2>3 DEF snapshot, TypeOK, CopiesHaveFact, history
<1>b. ASSUME NEW r \in Run, apply_plan(r) PROVE TypeOK' /\ CopiesHaveFact'
  <2>0. UNCHANGED <<fact, tombstone, question, lease, worker, events, history>>
    BY <1>b DEF apply_plan
  <2>1. CASE own_lease(r)
    <3>1. [run |-> r, card |-> card, question |-> question,
           waiting |-> run[r].batch, touched |-> {}] \in TX
      BY DEF TypeOK, TX
    <3>2. tx' \in TX /\ card' = card
      BY <1>b, <2>1, <3>1 DEF apply_plan
    <3>3. run' \in [Run -> RUN]
      BY <1>b, <1>1, <2>1 DEF apply_plan
    <3> QED BY <2>0, <3>2, <3>3 DEF TypeOK, CopiesHaveFact, history
  <2>2. CASE ~own_lease(r)
    <3>1. card' \in [Card -> CARD] /\ tx' = tx
      BY <1>b, <2>2, UnseenRows DEF apply_plan, TypeOK
    <3>3. run' \in [Run -> RUN]
      BY <1>0, <1>b, <2>2 DEF apply_plan, TypeOK
    <3> QED BY <2>0, <3>1, <3>3 DEF TypeOK, CopiesHaveFact, history
  <2> QED BY <2>1, <2>2
<1>l. ASSUME NEW r \in Run, Plan(r) PROVE TypeOK' /\ CopiesHaveFact'
  <2>1. PICK S : PlanEffect(r, S)
    BY <1>l, PlanStep
  <2>2. tx' \in TX /\ events' \in 0..MaxEvents /\ UNCHANGED <<tables, lease, run, worker, history>>
    BY <2>1 DEF PlanEffect
  <2> QED BY <2>2 DEF TypeOK, CopiesHaveFact, tables, history
<1>m. ASSUME NEW r \in Run, apply_commit(r) PROVE TypeOK' /\ CopiesHaveFact'
  <2>1. tx \in TX
    BY <1>m DEF apply_commit, TypeOK
  <2>2. tx.card \in [Card -> CARD] /\ tx.question \in [Question -> QUESTION]
    BY <2>1 DEF TX
  <2>3. card' \in [Card -> CARD] /\ question' \in [Question -> QUESTION]
    BY <1>m, <2>2, UnseenRows DEF apply_commit
  <2>4. fact' \in [Fact -> FACT]
    <3>1. ASSUME NEW f \in Fact
          PROVE  [fact[f] EXCEPT !.processed = TRUE] \in FACT /\ fact[f] \in FACT
      <4>1. fact[f] \in FACT
        BY DEF TypeOK
      <4> QED BY <4>1 DEF FACT
    <3> QED BY <1>m, <3>1 DEF apply_commit
  <2>5. run' \in [Run -> RUN]
    BY <1>0, <1>m DEF apply_commit, TypeOK
  <2>6. tx' = NoTx /\ UNCHANGED <<tombstone, lease, worker, events, history>>
    BY <1>m DEF apply_commit
  <2> QED BY <2>3, <2>4, <2>5, <2>6 DEF TypeOK, CopiesHaveFact, history
<1>v. ASSUME NEW r \in Run, validate_plan(r) PROVE TypeOK' /\ CopiesHaveFact'
  <2>1. card' \in [Card -> CARD]
    BY <1>v, UnseenRows DEF validate_plan, TypeOK
  <2>2. run' \in [Run -> RUN]
    <3>1. CASE run' = [run EXCEPT ![r].pc = "planned"]
      BY <1>1, <3>1
    <3>2. CASE run' = [run EXCEPT ![r] = Ending("failed")]
      BY <1>0, <3>2 DEF TypeOK
    <3> QED BY <1>v, <3>1, <3>2 DEF validate_plan
  <2> QED BY <1>v, <2>1, <2>2 DEF validate_plan, TypeOK, CopiesHaveFact, history
<1>r. ASSUME NEW r \in Run, release_lease(r) PROVE TypeOK' /\ CopiesHaveFact'
  <2>1. lease' \in [run: Run \cup {NoRun}, live: BOOLEAN]
    BY <1>r DEF release_lease, TypeOK
  <2>2. run' \in [Run -> RUN]
    BY <1>0, <1>r DEF release_lease, TypeOK
  <2> QED BY <1>r, <2>1, <2>2 DEF release_lease, TypeOK, CopiesHaveFact, tables, history
<1>x. CASE lease_expires
  <2>1. lease' \in [run: Run \cup {NoRun}, live: BOOLEAN]
    BY <1>x DEF lease_expires, TypeOK
  <2> QED BY <1>x, <2>1 DEF lease_expires, TypeOK, CopiesHaveFact, tables, history
<1>w. ASSUME NEW c \in Card, NEW decision \in {"confirm", "edit", "reject"},
             review_memory(c, decision)
      PROVE  TypeOK' /\ CopiesHaveFact'
  <2> DEFINE derived == {d \in Using(card[c].sources) \ {c} : ~UserLocked(d)}
             values == [card[c] EXCEPT !.seen = {},
                   !.status = IF decision = "reject" THEN "rejected" ELSE @,
                   !.review = IF decision = "confirm" THEN confirmed(c)
                              ELSE IF decision = "edit" THEN "edited" ELSE "rejected"]
  <2>0. card[c] \in CARD
    BY DEF TypeOK
  <2>1. values \in CARD
    BY <2>0 DEF CARD, confirmed
  <2>2. SavedAs(derived, "superseded") \in [Card -> CARD]
    BY SavedRows DEF CardStatus
  <2>3. /\ card' \in [Card -> CARD] /\ fact' \in [Fact -> FACT]
        /\ edited_from' \in [Card -> SUBSET Fact]
    <3>1. CASE decision = "edit"
      <4>1. /\ card' = [SavedAs(derived, "superseded") EXCEPT ![c] = values]
            /\ fact' = Reopened(SourcesOf(derived) \ card[c].sources)
            /\ edited_from' = [edited_from EXCEPT ![c] = card[c].sources]
        BY <1>w, <3>1 DEF review_memory
      <4>2. card[c].sources \in SUBSET Fact
        BY <2>0 DEF CARD
      <4>3. edited_from' \in [Card -> SUBSET Fact]
        BY <4>1, <4>2 DEF TypeOK
      <4> HIDE DEF derived, values
      <4> QED BY <2>1, <2>2, <4>1, <4>3, ReopenedRows
    <3>2. CASE decision # "edit"
      <4>1. card' = [card EXCEPT ![c] = values] /\ UNCHANGED <<fact, edited_from>>
        BY <1>w, <3>2 DEF review_memory
      <4> HIDE DEF values
      <4> QED BY <2>1, <4>1 DEF TypeOK
    <3> QED BY <3>1, <3>2
  <2>4. UNCHANGED <<tombstone, question, lease, run, worker, tx, overwritten>> /\ Event
    BY <1>w DEF review_memory
  <2> QED BY <2>3, <2>4, EventBound DEF TypeOK, CopiesHaveFact
<1>f. ASSUME NEW C \in SUBSET ActiveCards, NEW F \in SUBSET Active, approve_forget(C, F)
      PROVE  TypeOK' /\ CopiesHaveFact'
  <2> DEFINE gone == F \cup SourcesOf(C)
  <2>0. gone \subseteq Fact
    BY DEF SourcesOf, ActiveCards, Active, TypeOK, CARD
  <2>1. fact' = Withdrawn(gone, "forgotten") /\ tombstone' = tombstones(gone)
        /\ question' = Cancelled(AskedOn(gone))
        /\ card' = [c \in Card |-> IF c \in C THEN SavedAs(C, "forgotten")[c]
                                   ELSE SavedAs(Using(gone), "invalidated")[c]]
        /\ UNCHANGED <<lease, run, worker, tx, history>> /\ Event
    BY <1>f DEF approve_forget
  <2> HIDE DEF gone
  <2>2. fact' \in [Fact -> FACT] /\ question' \in [Question -> QUESTION]
    BY <2>1, WithdrawnRows, CancelledRows DEF FactStatus
  <2>3. tombstone' \subseteq Source \X Statement
    <3>1. \A f \in gone : <<f[1], f[3]>> \in Source \X Statement
      BY <2>0, FactParts
    <3> QED BY <2>1, <3>1 DEF tombstones, TypeOK
  <2>4. card' \in [Card -> CARD]
    <3>1. /\ SavedAs(C, "forgotten") \in [Card -> CARD]
          /\ SavedAs(Using(gone), "invalidated") \in [Card -> CARD]
      BY SavedRows DEF CardStatus
    <3> QED BY <2>1, <3>1
  <2> QED BY <2>1, <2>2, <2>3, <2>4, EventBound DEF TypeOK, CopiesHaveFact, history
<1>u. CASE UNCHANGED vars
  BY <1>u DEF vars, tables, history, TypeOK, CopiesHaveFact
<1> QED BY <1>p, <1>s, <1>i, <1>c, <1>a, <1>o, <1>n, <1>b, <1>l, <1>m, <1>v, <1>r, <1>x,
           <1>w, <1>f, <1>u DEF Next
-----------------------------------------------------------------------------
(* What the actions leave alone: frames that the invariants share.          *)

(* The committed cards that stay active keep their sources and locks.       *)
CardsFramed ==
  \A c \in Card :
    /\ card'[c].status = "active" => card[c].status = "active"
    /\ card'[c].status = "absent" <=> card[c].status = "absent"
    /\ card'[c].sources = card[c].sources
    /\ \/ card'[c].review = card[c].review
       \/ /\ card[c].status = "active" /\ card'[c].review \in Locked
          /\ card'[c].status = "active" /\ card[c].review = "edited" => card'[c].review = "edited"

LEMMA EditsFrame ==
  ASSUME TypeOK, Edits, CardsFramed, tx' = NoTx \/ (tx = NoTx /\ UNCHANGED tx), UNCHANGED edited_from
  PROVE  Edits'
<1>1. \A c \in Card : card'[c].status = "absent" => card'[c].review \notin Locked
  BY DEF Edits, CardsFramed
<1>2. EditsKept(card)'
  BY DEF Edits, EditsKept, CardsFramed
<1>3. EvidenceKept(card)'
  BY DEF Edits, EvidenceKept, CardsFramed
<1> QED BY <1>1, <1>2, <1>3 DEF Edits

(* Facts leave the active state only with everything that rests on them, or *)
(* by the outdated copy of their row.                                       *)
LEMMA RestsFrame ==
  ASSUME TypeOK, Rests, tx' = NoTx \/ (tx = NoTx /\ UNCHANGED tx), overwritten \subseteq overwritten',
         NEW F,
         \A f \in Fact : fact[f].status = "active" /\ f \notin F =>
           fact'[f].status = "active" \/ f \in overwritten',
         \A c \in Card : card'[c].status = "active" =>
           /\ card[c].status = "active" /\ card'[c].sources = card[c].sources
           /\ card[c].sources \cap F = {},
         \A q \in Question : question'[q].status = "open" =>
           /\ question[q].status = "open" /\ question'[q].sources = question[q].sources
           /\ question[q].sources \cap F = {}
  PROVE  Rests'
<1>1. ASSUME NEW f \in Active \cup overwritten, f \notin F PROVE f \in Active' \cup overwritten'
  BY <1>1 DEF Active
<1>2. CardsRest(card)'
  BY <1>1 DEF Rests, CardsRest
<1>3. QuestionsRest(question)'
  BY <1>1 DEF Rests, QuestionsRest
<1> QED BY <1>2, <1>3 DEF Rests

(* No fact becomes active.                                                  *)
LEMMA RevisionFrame ==
  ASSUME OneRevision, ForgottenGone, UNCHANGED <<tombstone, overwritten>>,
         \A f \in Fact : fact'[f].status = "active" => fact[f].status = "active"
  PROVE  OneRevision' /\ ForgottenGone'
<1>1. Active' \subseteq Active
  BY DEF Active
<1> QED BY <1>1 DEF OneRevision, ForgottenGone

(* No fact becomes processed, and no run gets the lease or a batch.         *)
LEMMA BatchFrame ==
  ASSUME TypeOK, BatchWaits, lease'.run = lease.run, overwritten \subseteq overwritten',
         \A f \in Fact : fact'[f].processed => fact[f].processed \/ f \in overwritten',
         \A r \in Run : run'[r].batch = {} \/ (run'[r].batch = run[r].batch /\ run'[r].pc # "idle")
                          \/ run'[r] = run[r]
  PROVE  BatchWaits'
<1> SUFFICES ASSUME NEW r \in Run
             PROVE  /\ run'[r].pc = "idle" => run'[r].batch = {}
                    /\ lease'.run = r =>
                         \A f \in run'[r].batch : ~fact'[f].processed \/ f \in overwritten'
  BY DEF BatchWaits
<1>1. run[r].batch \subseteq Fact
  BY DEF TypeOK
<1> QED BY <1>1 DEF BatchWaits
-----------------------------------------------------------------------------
(* The work of a plan before it commits.                                    *)

LEMMA PlanRests ==
  ASSUME IInv, NEW r \in Run, NEW S, PlanEffect(r, S)
  PROVE  Rests'
<1>1. tx # NoTx /\ S \subseteq Active /\ UNCHANGED <<fact, card, question, overwritten>>
  BY DEF PlanEffect, tables, history
<1>2. CardsRest(card)' /\ QuestionsRest(question)'
  BY <1>1 DEF IInv, Rests, CardsRest, QuestionsRest, Active
<1>3. ASSUME NEW c \in Card, tx'.card[c].status = "active"
      PROVE  tx'.card[c].sources \subseteq Active \cup overwritten
  <2>1. CardEffect(S, c, tx'.card[c])
    BY DEF PlanEffect
  <2>2. CardsRest(tx.card)
    BY <1>1 DEF IInv, Rests
  <2> QED BY <1>1, <1>3, <2>1, <2>2 DEF CardEffect, CardsRest
<1>4. ASSUME NEW q \in Question, tx'.question[q].status = "open"
      PROVE  tx'.question[q].sources \subseteq Active \cup overwritten
  <2>1. QuestionEffect(S, q, tx'.question[q])
    BY DEF PlanEffect
  <2>2. QuestionsRest(tx.question)
    BY <1>1 DEF IInv, Rests
  <2> QED BY <1>1, <1>4, <2>1, <2>2 DEF QuestionEffect, QuestionsRest
<1>5. CardsRest(tx.card)' /\ QuestionsRest(tx.question)'
  BY <1>1, <1>3, <1>4 DEF CardsRest, QuestionsRest, Active
<1> QED BY <1>2, <1>5 DEF Rests

LEMMA PlanEdits ==
  ASSUME IInv, NEW r \in Run, NEW S, PlanEffect(r, S)
  PROVE  Edits'
<1>1. tx # NoTx /\ S \subseteq Active /\ UNCHANGED <<card, edited_from>>
  BY DEF PlanEffect, tables, history
<1>2. /\ \A c \in Card : card[c].status = "absent" => card[c].review \notin Locked
      /\ EditsKept(card) /\ EvidenceKept(card)
      /\ EditsKept(tx.card) /\ EvidenceKept(tx.card) /\ LocksKept
  BY <1>1 DEF IInv, Edits
<1>3. \A c \in Card : CardEffect(S, c, tx'.card[c])
  BY DEF PlanEffect
<1>4. Locked \cap Editable = {} /\ "edited" \in Locked
  BY DEF Locked, Editable
<1>5. \A c \in Card : UserLocked(c) <=> card[c].review \in Locked
  BY DEF UserLocked, Locked
<1>6. ASSUME NEW c \in Card
      PROVE  /\ card[c].review \in Locked <=> tx'.card[c].review \in Locked
             /\ tx'.card[c].status = "absent" => card[c].status = "absent"
             /\ tx'.card[c].status = "active" => card[c].status \in {"absent", "active"}
  BY <1>2, <1>3, <1>4, <1>5 DEF CardEffect, LocksKept
<1>7. LocksKept'
  BY <1>1, <1>6 DEF LocksKept
(* A card the user edited is locked, so a plan can only extend it.          *)
<1>8. ASSUME NEW e \in Card, edited_from[e] # {}
      PROVE  /\ tx'.card[e].status # "absent"
             /\ tx'.card[e].status = "active" =>
                  /\ tx.card[e].status = "active" /\ card[e].status = "active"
                  /\ tx'.card[e].review = "edited" /\ card[e].review = "edited"
                  /\ edited_from[e] \subseteq tx'.card[e].sources
                  /\ edited_from[e] \subseteq card[e].sources
  <2>1. CardEffect(S, e, tx'.card[e])
    BY <1>3
  <2>2. /\ tx.card[e].status # "absent" /\ card[e].status # "absent"
        /\ tx.card[e].status = "active" =>
             /\ tx.card[e].review = "edited" /\ edited_from[e] \subseteq tx.card[e].sources
             /\ UserLocked(e) /\ card[e].status = "active"
        /\ card[e].status = "active" =>
             card[e].review = "edited" /\ edited_from[e] \subseteq card[e].sources
    BY <1>2, <1>4, <1>5, <1>8 DEF EditsKept, LocksKept
  <2> QED BY <2>1, <2>2 DEF CardEffect
<1>9. EditsKept(tx.card)'
  BY <1>1, <1>8 DEF EditsKept
(* Evidence of an edited card is not free for any other.                    *)
<1>10. ASSUME NEW e \in Card, edited_from[e] # {}, tx'.card[e].status = "active",
              protected(S) = {}
       PROVE  edited_from[e] \cap S = {}
  <2>1. card[e].status = "active" /\ card[e].review = "edited" /\ edited_from[e] \subseteq card[e].sources
    BY <1>8, <1>10
  <2> QED BY <1>10, <2>1 DEF protected, Using, ActiveCards
<1>11. ASSUME NEW e \in Card, NEW c \in Card, c # e,
              tx'.card[e].status = "active", tx'.card[c].status = "active",
              tx'.card[c].review \notin Locked
       PROVE  edited_from[e] \cap tx'.card[c].sources = {}
  <2> SUFFICES ASSUME edited_from[e] # {} PROVE edited_from[e] \cap tx'.card[c].sources = {}
    OBVIOUS
  <2>1. CardEffect(S, c, tx'.card[c]) /\ ~UserLocked(c)
    BY <1>3, <1>5, <1>6, <1>11
  <2>2. c \notin protected(S)
    BY <2>1 DEF protected, UserLocked
  <2>3. \A d \in Card : tx.card[d].status = "active" /\ ~UserLocked(d) =>
           edited_from[e] \cap tx.card[d].sources = {}
    <3>1. tx.card[e].status = "active" /\ UserLocked(e)
      BY <1>4, <1>5, <1>8, <1>11
    <3>2. \A d \in Card : ~UserLocked(d) => tx.card[d].review \notin Locked
      BY <1>2, <1>5 DEF LocksKept
    <3> QED BY <1>2, <3>1, <3>2 DEF EvidenceKept
  <2>4. protected(S) = {} => edited_from[e] \cap S = {}
    BY <1>10, <1>11
  <2> QED BY <1>11, <2>1, <2>2, <2>3, <2>4 DEF CardEffect
<1>12. EvidenceKept(tx.card)'
  BY <1>1, <1>11 DEF EvidenceKept
<1> QED BY <1>1, <1>2, <1>7, <1>9, <1>12 DEF Edits, EditsKept, EvidenceKept

LEMMA CommitStep ==
  ASSUME IInv, NEW r \in Run, apply_commit(r)
  PROVE  PlannerLeads' /\ BatchWaits' /\ OneRevision' /\ ForgottenGone' /\ Rests' /\ Edits'
<1>1. /\ tx # NoTx /\ tx.run = r /\ tx' = NoTx /\ question' = tx.question
      /\ card' = Unseen(tx.card, r)
      /\ run' = [run EXCEPT ![r] = Ending("applied")]
      /\ UNCHANGED <<tombstone, lease, overwritten, edited_from>>
  BY DEF apply_commit, history
<1>2. tx \in TX /\ fact \in [Fact -> FACT] /\ run \in [Run -> [pc: {"idle", "leased", "planned", "apply", "applied", "failed"},
                      facts: SUBSET Fact, batch: SUBSET Fact]]
  BY <1>1 DEF IInv, TypeOK
<1>3. tx.card \in [Card -> CARD]
  BY <1>2 DEF TX
<1>4. \A c \in Card : /\ card'[c].status = tx.card[c].status
                      /\ card'[c].sources = tx.card[c].sources
                      /\ card'[c].review = tx.card[c].review
  BY <1>1, <1>3, UnseenRows
<1>5. \A f \in Fact : /\ fact'[f].status = fact[f].status
                      /\ f \notin run[r].batch => fact'[f] = fact[f]
  BY <1>2 DEF apply_commit, FACT
<1>6. Active' = Active
  BY <1>5 DEF Active
<1>7. PlannerLeads'
  BY <1>1 DEF PlannerLeads
<1>8. BatchWaits'
  <2>1. lease.run = r
    BY <1>1 DEF IInv, PlannerLeads
  <2>2. run'[r].batch = {} /\ run'[r].pc # "idle"
    BY <1>1, <1>2 DEF Ending
  <2>3. \A s \in Run : s # r => run'[s] = run[s]
    BY <1>1, <1>2
  <2> QED BY <1>1, <2>1, <2>2, <2>3 DEF IInv, BatchWaits
<1>9. OneRevision' /\ ForgottenGone'
  BY <1>1, <1>6 DEF IInv, OneRevision, ForgottenGone
<1>10. Rests'
  BY <1>1, <1>4, <1>6 DEF IInv, Rests, CardsRest, QuestionsRest
<1>11. Edits'
  <2>1. /\ \A c \in Card : card[c].status = "absent" => card[c].review \notin Locked
        /\ EditsKept(tx.card) /\ EvidenceKept(tx.card) /\ LocksKept
    BY <1>1 DEF IInv, Edits
  <2>2. \A c \in Card : card'[c].status = "absent" => card'[c].review \notin Locked
    BY <1>4, <2>1 DEF LocksKept
  <2>3. EditsKept(card)' /\ EvidenceKept(card)'
    BY <1>1, <1>4, <2>1 DEF EditsKept, EvidenceKept
  <2> QED BY <1>1, <2>2, <2>3 DEF Edits
<1> QED BY <1>7, <1>8, <1>9, <1>10, <1>11
-----------------------------------------------------------------------------
Others == PlannerLeads /\ BatchWaits /\ OneRevision /\ ForgottenGone /\ Rests /\ Edits

(* Facts F leave the active state with what rests on them.                  *)
LEMMA WithdrawalStep ==
  ASSUME IInv, Unlocked, UNCHANGED <<lease, run, tx, tombstone, overwritten, edited_from>>,
         NEW F,
         \A f \in Fact : /\ fact'[f].status = "active" => fact[f].status = "active"
                         /\ fact[f].status = "active" /\ f \notin F => fact'[f].status = "active"
                         /\ fact'[f].processed => fact[f].processed,
         CardsFramed,
         \A c \in Card : card'[c].status = "active" => card[c].sources \cap F = {},
         \A q \in Question : question'[q].status = "open" =>
           /\ question[q].status = "open" /\ question'[q].sources = question[q].sources
           /\ question[q].sources \cap F = {}
  PROVE  Others'
<1>1. tx = NoTx /\ UNCHANGED tx
  BY DEF Unlocked
<1>2. PlannerLeads'
  BY <1>1 DEF PlannerLeads
<1>3. BatchWaits'
  BY BatchFrame DEF IInv
<1>4. OneRevision' /\ ForgottenGone'
  BY RevisionFrame DEF IInv
<1>5. \A c \in Card : card'[c].status = "active" =>
        /\ card[c].status = "active" /\ card'[c].sources = card[c].sources
        /\ card[c].sources \cap F = {}
  BY DEF CardsFramed
<1>6. \A f \in Fact : fact[f].status = "active" /\ f \notin F =>
        fact'[f].status = "active" \/ f \in overwritten'
  OBVIOUS
<1>7. Rests'
  <2>1. TypeOK /\ Rests /\ overwritten \subseteq overwritten'
    BY DEF IInv
  <2> QED BY <1>1, <1>5, <1>6, <2>1, RestsFrame
<1>8. Edits'
  BY <1>1, EditsFrame DEF IInv
<1> QED BY <1>2, <1>3, <1>4, <1>7, <1>8 DEF Others

(* invalidate_sources on the facts F.                                       *)
LEMMA InvalidateRows ==
  ASSUME TypeOK, NEW F
  PROVE  LET cards == SavedAs(Using(F), "invalidated")
             questions == Cancelled({q \in AskedOn(F) : question[q].status = "open"})
         IN /\ \A c \in Card :
                 /\ cards[c].status = "active" => card[c].status = "active" /\ card[c].sources \cap F = {}
                 /\ cards[c].status = "absent" <=> card[c].status = "absent"
                 /\ cards[c].sources = card[c].sources /\ cards[c].review = card[c].review
            /\ \A q \in Question : questions[q].status = "open" =>
                 /\ question[q].status = "open" /\ questions[q].sources = question[q].sources
                 /\ question[q].sources \cap F = {}
<1> DEFINE cards == SavedAs(Using(F), "invalidated")
           Q == {q \in AskedOn(F) : question[q].status = "open"}
           questions == Cancelled(Q)
<1>1. \A c \in Card : /\ cards[c].status = IF c \in Using(F) THEN "invalidated" ELSE card[c].status
                      /\ cards[c].sources = card[c].sources /\ cards[c].review = card[c].review
  BY SavedRows DEF CardStatus
<1>2. \A q \in Question : /\ questions[q].status = IF q \in Q THEN "cancelled" ELSE question[q].status
                          /\ questions[q].sources = question[q].sources
  BY CancelledRows
<1>3. \A c \in Card : c \in Using(F) <=> card[c].status = "active" /\ card[c].sources \cap F # {}
  BY DEF Using, ActiveCards
<1>4. \A q \in Question : q \in Q <=> question[q].status = "open" /\ question[q].sources \cap F # {}
  BY DEF AskedOn
<1> HIDE DEF cards, Q, questions
<1>5. \A c \in Card :
        /\ cards[c].status = "active" => card[c].status = "active" /\ card[c].sources \cap F = {}
        /\ cards[c].status = "absent" <=> card[c].status = "absent"
        /\ cards[c].sources = card[c].sources /\ cards[c].review = card[c].review
  BY <1>1, <1>3
<1>6. \A q \in Question : questions[q].status = "open" =>
        /\ question[q].status = "open" /\ questions[q].sources = question[q].sources
        /\ question[q].sources \cap F = {}
  BY <1>2, <1>4
<1> QED BY <1>5, <1>6 DEF cards, Q, questions

LEMMA SyncStep ==
  ASSUME IInv, NEW w \in Worker, sync_source(w)
  PROVE  Others'
<1> DEFINE F == Outdated(worker[w].text)
<1>1. /\ fact' = Withdrawn(F, "source_changed")
      /\ card' = SavedAs(Using(F), "invalidated")
      /\ question' = Cancelled({q \in AskedOn(F) : question[q].status = "open"})
      /\ Unlocked /\ UNCHANGED <<lease, run, tx, tombstone, overwritten, edited_from>>
  BY DEF sync_source, invalidate_sources, history
<1> HIDE DEF F
<1>2. TypeOK
  BY DEF IInv
<1>3. \A f \in Fact : /\ fact'[f].status = IF f \in F THEN "source_changed" ELSE fact[f].status
                      /\ fact'[f].processed => fact[f].processed
  BY <1>1, <1>2, WithdrawnRows DEF FactStatus
<1>4. /\ \A c \in Card :
           /\ card'[c].status = "active" => card[c].status = "active" /\ card[c].sources \cap F = {}
           /\ card'[c].status = "absent" <=> card[c].status = "absent"
           /\ card'[c].sources = card[c].sources /\ card'[c].review = card[c].review
      /\ \A q \in Question : question'[q].status = "open" =>
           /\ question[q].status = "open" /\ question'[q].sources = question[q].sources
           /\ question[q].sources \cap F = {}
  BY <1>1, <1>2, InvalidateRows
<1>5. CardsFramed
  BY <1>4 DEF CardsFramed
<1>6. \A f \in Fact : /\ fact'[f].status = "active" => fact[f].status = "active"
                      /\ fact[f].status = "active" /\ f \notin F => fact'[f].status = "active"
                      /\ fact'[f].processed => fact[f].processed
  BY <1>3
<1> QED BY <1>1, <1>4, <1>5, <1>6, WithdrawalStep

(* A new fact replaces those of other revisions of its source; one that is  *)
(* covered by what was forgotten comes in as forgotten.                     *)
LEMMA IngestStep ==
  ASSUME IInv, NEW w \in Worker, NEW f \in worker[w].todo, ingest_fact(w, f)
  PROVE  Others'
<1> DEFINE F == Outdated(f)
           new == fact[f].status \in {"absent", "source_changed"}
<1>0. TypeOK /\ f \in Fact
  BY DEF IInv, TypeOK
<1>1. Unlocked /\ UNCHANGED <<lease, run, tx, tombstone, overwritten, edited_from>>
  BY DEF ingest_fact, history
<1>2. CASE ~new
  <2>1. UNCHANGED <<fact, card, question>>
    BY <1>2 DEF ingest_fact
  <2>2. CardsFramed
    BY <2>1 DEF CardsFramed
  <2>3. \A g \in Fact : /\ fact'[g].status = "active" => fact[g].status = "active"
                        /\ fact[g].status = "active" /\ g \notin {} => fact'[g].status = "active"
                        /\ fact'[g].processed => fact[g].processed
    BY <2>1
  <2>4. /\ \A c \in Card : card'[c].status = "active" => card[c].sources \cap {} = {}
        /\ \A q \in Question : question'[q].status = "open" =>
             /\ question[q].status = "open" /\ question'[q].sources = question[q].sources
             /\ question[q].sources \cap {} = {}
    BY <2>1
  <2> QED BY <1>1, <2>2, <2>3, <2>4, WithdrawalStep
<1>3. CASE new
  <2>1. /\ fact' = [Withdrawn(F, "source_changed") EXCEPT ![f] = ingested(f)]
        /\ card' = SavedAs(Using(F), "invalidated")
        /\ question' = Cancelled({q \in AskedOn(F) : question[q].status = "open"})
    BY <1>3 DEF ingest_fact
  <2>2. fact[f].status # "active"
    BY <1>3
  <2>3. /\ Withdrawn(F, "source_changed") \in [Fact -> FACT]
        /\ \A g \in Fact :
             /\ Withdrawn(F, "source_changed")[g].status =
                  IF g \in F THEN "source_changed" ELSE fact[g].status
             /\ Withdrawn(F, "source_changed")[g].processed => fact[g].processed
    BY <1>0, WithdrawnRows DEF FactStatus
  <2>4. \A g \in Fact : g \in F <=> fact[g].status = "active" /\ g[1] = f[1] /\ g[2] # f[2]
    BY DEF Outdated, Active
  <2> HIDE DEF F, new
  <2>5. /\ \A g \in Fact : g # f =>
             /\ fact'[g].status = IF g \in F THEN "source_changed" ELSE fact[g].status
             /\ fact'[g].processed => fact[g].processed
        /\ fact'[f] = ingested(f)
    BY <1>0, <2>1, <2>3
  <2>6. fact'[f].status = "active" => <<f[1], f[3]>> \notin tombstone
    <3>1. <<f[3], f[3]>> \in Overlap
      BY <1>0, FactParts
    <3>2. <<f[1], f[3]>> \in tombstone => Covered(f)
      BY <3>1 DEF Covered
    <3> QED BY <2>5, <3>2 DEF ingested
  <2>7. ~fact'[f].processed
    BY <2>5 DEF ingested
  <2>9. /\ \A c \in Card :
             /\ card'[c].status = "active" => card[c].status = "active" /\ card[c].sources \cap F = {}
             /\ card'[c].status = "absent" <=> card[c].status = "absent"
             /\ card'[c].sources = card[c].sources /\ card'[c].review = card[c].review
        /\ \A q \in Question : question'[q].status = "open" =>
             /\ question[q].status = "open" /\ question'[q].sources = question[q].sources
             /\ question[q].sources \cap F = {}
    BY <1>0, <2>1, InvalidateRows
  <2>10. CardsFramed
    BY <2>9 DEF CardsFramed
  <2>11. tx = NoTx /\ UNCHANGED tx
    BY <1>1 DEF Unlocked
  <2>12. PlannerLeads'
    BY <2>11 DEF PlannerLeads
  <2>13. BatchWaits'
    <3>1. \A g \in Fact : fact'[g].processed => fact[g].processed \/ g \in overwritten'
      BY <2>5, <2>7
    <3> QED BY <1>1, <3>1, BatchFrame DEF IInv
  <2>14. OneRevision'
    <3>1. \A g \in Active' : \/ g = f
                             \/ g \in Active /\ (g[1] # f[1] \/ g[2] = f[2])
      BY <2>4, <2>5 DEF Active
    <3> QED BY <1>1, <3>1 DEF IInv, OneRevision
  <2>15. ForgottenGone'
    <3>1. \A g \in Active' : g \in Active \/ (g = f /\ <<f[1], f[3]>> \notin tombstone)
      BY <2>5, <2>6 DEF Active
    <3> QED BY <1>1, <3>1 DEF IInv, ForgottenGone
  <2>16. Rests'
    <3>1. \A g \in Fact : fact[g].status = "active" /\ g \notin F =>
            fact'[g].status = "active" \/ g \in overwritten'
      BY <2>2, <2>5
    <3>2. \A c \in Card : card'[c].status = "active" =>
            /\ card[c].status = "active" /\ card'[c].sources = card[c].sources
            /\ card[c].sources \cap F = {}
      BY <2>9
    <3>3. TypeOK /\ Rests /\ overwritten \subseteq overwritten'
      BY <1>1 DEF IInv
    <3> QED BY <2>9, <2>11, <3>1, <3>2, <3>3, RestsFrame
  <2>17. Edits'
    BY <1>0, <1>1, <2>10, <2>11, EditsFrame DEF IInv
  <2> QED BY <2>12, <2>13, <2>14, <2>15, <2>16, <2>17 DEF Others
<1> QED BY <1>2, <1>3

(* The outdated copy changes nothing, or its fact is marked.                *)
LEMMA LinkStep ==
  ASSUME IInv, NEW w \in Worker, ingest_candidate(w)
  PROVE  Others'
<1> DEFINE f == worker[w].of
<1>0. TypeOK /\ f \in Fact
  BY DEF IInv, CopiesHaveFact, ingest_candidate
<1>1. /\ tx = NoTx /\ UNCHANGED <<tombstone, card, question, lease, run, tx, edited_from>>
  BY DEF ingest_candidate, Unlocked
<1>2. /\ \A g \in Fact : g \in overwritten' \/ fact'[g] = fact[g]
      /\ overwritten \subseteq overwritten'
  BY <1>0 DEF ingest_candidate, TypeOK
<1>3. \A g \in Active' : g \in Active \/ g \in overwritten'
  BY <1>2 DEF Active
<1>4. PlannerLeads'
  BY <1>1 DEF PlannerLeads
<1>5. BatchWaits'
  <2>1. \A g \in Fact : fact'[g].processed => fact[g].processed \/ g \in overwritten'
    BY <1>2
  <2> QED BY <1>1, <1>2, <2>1, BatchFrame DEF IInv
<1>6. OneRevision' /\ ForgottenGone'
  BY <1>1, <1>2, <1>3 DEF IInv, OneRevision, ForgottenGone
<1>7. Rests'
  <2>1. \A g \in Fact : fact[g].status = "active" /\ g \notin {} =>
          fact'[g].status = "active" \/ g \in overwritten'
    BY <1>2
  <2>2. /\ \A c \in Card : card'[c].status = "active" =>
             /\ card[c].status = "active" /\ card'[c].sources = card[c].sources
             /\ card[c].sources \cap {} = {}
        /\ \A q \in Question : question'[q].status = "open" =>
             /\ question[q].status = "open" /\ question'[q].sources = question[q].sources
             /\ question[q].sources \cap {} = {}
    BY <1>1
  <2> QED BY <1>0, <1>1, <1>2, <2>1, <2>2, RestsFrame DEF IInv
<1>8. Edits'
  <2>1. CardsFramed
    BY <1>1 DEF CardsFramed
  <2> QED BY <1>0, <1>1, <2>1, EditsFrame DEF IInv
<1> QED BY <1>4, <1>5, <1>6, <1>7, <1>8 DEF Others
(* Cards keep all but their `seen`, facts and questions do not change.      *)
LEMMA RunStep ==
  ASSUME IInv, UNCHANGED <<fact, tombstone, question, overwritten, edited_from>>,
         tx' = NoTx \/ (tx = NoTx /\ UNCHANGED tx), CardsFramed, BatchWaits'
  PROVE  Others'
<1>1. tx' = NoTx
  OBVIOUS
<1>2. PlannerLeads'
  BY <1>1 DEF PlannerLeads
<1>3. OneRevision' /\ ForgottenGone'
  BY RevisionFrame DEF IInv
<1>4. Rests'
  <2>1. /\ \A c \in Card : card'[c].status = "active" =>
             /\ card[c].status = "active" /\ card'[c].sources = card[c].sources
             /\ card[c].sources \cap {} = {}
        /\ \A q \in Question : question'[q].status = "open" =>
             /\ question[q].status = "open" /\ question'[q].sources = question[q].sources
             /\ question[q].sources \cap {} = {}
    BY DEF CardsFramed
  <2>2. \A g \in Fact : fact[g].status = "active" /\ g \notin {} =>
          fact'[g].status = "active" \/ g \in overwritten'
    OBVIOUS
  <2>3. TypeOK /\ Rests /\ overwritten \subseteq overwritten'
    BY DEF IInv
  <2> QED BY <2>1, <2>2, <2>3, RestsFrame
<1>5. Edits'
  BY EditsFrame DEF IInv
<1> QED BY <1>2, <1>3, <1>4, <1>5 DEF Others

RUN == [pc: {"idle", "leased", "planned", "apply", "applied", "failed"},
        facts: SUBSET Fact, batch: SUBSET Fact]

LEMMA LeaseStep ==
  ASSUME IInv, NEW r \in Run, consolidate(r) \/ release_lease(r)
  PROVE  Others'
<1>0. run \in [Run -> RUN] /\ BatchWaits
  BY DEF IInv, TypeOK, RUN
<1>1. /\ tx = NoTx /\ UNCHANGED <<tables, tx, history>>
  BY DEF consolidate, release_lease, Unlocked
<1>2. CardsFramed
  BY <1>1 DEF CardsFramed, tables
<1>3. CASE consolidate(r)
  <2>1. /\ run'[r].batch = run[r].batch /\ run'[r].pc # "idle" /\ run[r].batch = {}
        /\ \A s \in Run : s # r => run'[s] = run[s]
    BY <1>0, <1>3 DEF consolidate, RUN, BatchWaits
  <2>2. lease'.run = r
    BY <1>3 DEF consolidate
  <2>3. BatchWaits'
    BY <1>0, <1>1, <2>1, <2>2 DEF BatchWaits, tables, history
  <2> QED BY <1>1, <1>2, <2>3, RunStep DEF tables, history
<1>4. CASE release_lease(r)
  <2>1. lease'.run = lease.run
    BY <1>4 DEF release_lease, IInv, TypeOK
  <2>2. \A s \in Run : run'[s] = run[s] \/ run'[s].batch = {}
    BY <1>0, <1>4 DEF release_lease, Idle
  <2>3. BatchWaits'
    BY <1>1, <2>1, <2>2, BatchFrame DEF IInv, tables, history
  <2> QED BY <1>1, <1>2, <2>3, RunStep DEF tables, history
<1> QED BY <1>3, <1>4

LEMMA SnapshotStep ==
  ASSUME IInv, NEW r \in Run, snapshot(r)
  PROVE  Others'
<1> DEFINE new == {f \in Active : ~fact[f].processed}
<1>0. run \in [Run -> RUN] /\ BatchWaits /\ card \in [Card -> CARD]
  BY DEF IInv, TypeOK, RUN
<1>1. /\ tx = NoTx /\ UNCHANGED <<fact, tombstone, question, lease, tx, overwritten, edited_from>>
  BY DEF snapshot, Unlocked, history
<1>2. CardsFramed
  <2>1. ASSUME NEW c \in Card
        PROVE  /\ card'[c].status = card[c].status /\ card'[c].sources = card[c].sources
               /\ card'[c].review = card[c].review
    <3>0. card[c] \in CARD
      BY <1>0
    <3>1. card'[c] = card[c] \/ card'[c] = [card[c] EXCEPT !.seen = card[c].seen \cup {r}]
      BY DEF snapshot
    <3> QED BY <3>0, <3>1 DEF CARD
  <2> QED BY <2>1 DEF CardsFramed
<1>3. PICK batch \in SUBSET new :
        run' = [run EXCEPT ![r] = IF batch = {} THEN Ending("applied")
                                  ELSE [pc |-> "planned", facts |-> Active, batch |-> batch]]
  BY DEF snapshot
<1>4. /\ run'[r].batch \subseteq new /\ run'[r].pc # "idle"
      /\ \A s \in Run : s # r => run'[s] = run[s]
  BY <1>0, <1>3 DEF Ending
<1>5. BatchWaits'
  BY <1>0, <1>1, <1>4 DEF BatchWaits
<1> QED BY <1>1, <1>2, <1>5, RunStep

LEMMA PlanBeginsStep ==
  ASSUME IInv, NEW r \in Run, apply_plan(r)
  PROVE  Others'
<1>0. run \in [Run -> RUN] /\ BatchWaits /\ card \in [Card -> CARD]
  BY DEF IInv, TypeOK, RUN
<1>1. /\ tx = NoTx /\ run[r].pc = "planned"
      /\ UNCHANGED <<fact, tombstone, question, lease, overwritten, edited_from>>
  BY DEF apply_plan, Unlocked, history
<1>2. CASE ~own_lease(r)
  <2>1. card' = Unseen(card, r) /\ run' = [run EXCEPT ![r] = Ending("failed")] /\ UNCHANGED tx
    BY <1>2 DEF apply_plan
  <2>2. CardsFramed
    BY <1>0, <2>1, UnseenRows DEF CardsFramed
  <2>3. \A s \in Run : run'[s] = run[s] \/ run'[s].batch = {}
    BY <1>0, <2>1 DEF Ending
  <2>4. BatchWaits'
    BY <1>1, <2>3, BatchFrame DEF IInv
  <2> QED BY <1>1, <2>1, <2>2, <2>4, RunStep
<1>3. CASE own_lease(r)
  <2>1. /\ tx' = [run |-> r, card |-> card, question |-> question,
                  waiting |-> run[r].batch, touched |-> {}]
        /\ run' = [run EXCEPT ![r].pc = "apply"] /\ UNCHANGED card
    BY <1>3 DEF apply_plan
  <2>2. tx'.run = r /\ tx'.card = card' /\ tx'.question = question'
    BY <1>1, <2>1
  <2>3. \A s \in Run : run'[s] = run[s] \/ (run'[s].batch = run[s].batch /\ run'[s].pc # "idle")
    BY <1>0, <2>1 DEF RUN
  <2>4. BatchWaits'
    BY <1>1, <2>3, BatchFrame DEF IInv
  <2>5. PlannerLeads'
    BY <1>1, <1>3, <2>2 DEF PlannerLeads, own_lease
  <2>6. OneRevision' /\ ForgottenGone'
    BY <1>1, RevisionFrame DEF IInv
  <2>7. Rests'
    BY <1>1, <2>1, <2>2 DEF IInv, Rests, CardsRest, QuestionsRest, Active
  <2>8. Edits'
    <3>1. /\ \A c \in Card : card[c].status = "absent" => card[c].review \notin Locked
          /\ EditsKept(card) /\ EvidenceKept(card)
      BY DEF IInv, Edits
    <3>2. EditsKept(card)' /\ EvidenceKept(card)'
      BY <1>1, <2>1, <3>1 DEF EditsKept, EvidenceKept
    <3>3. EditsKept(tx.card)' /\ EvidenceKept(tx.card)' /\ LocksKept'
      BY <2>2, <3>2 DEF EditsKept, EvidenceKept, LocksKept
    <3> QED BY <2>1, <3>1, <3>2, <3>3 DEF Edits
  <2> QED BY <2>4, <2>5, <2>6, <2>7, <2>8 DEF Others
<1> QED BY <1>2, <1>3

LEMMA PlanActsStep ==
  ASSUME IInv, NEW r \in Run, Plan(r)
  PROVE  Others'
<1>0. TypeOK
  BY DEF IInv
<1>1. PICK S : PlanEffect(r, S)
  BY <1>0, PlanStep
<1>2. tx # NoTx /\ tx.run = r /\ tx'.run = r /\ UNCHANGED <<fact, tombstone, lease, run, overwritten>>
  BY <1>1 DEF PlanEffect, tables, history
<1>3. PlannerLeads'
  BY <1>2 DEF IInv, PlannerLeads
<1>4. BatchWaits'
  BY <1>2, BatchFrame DEF IInv
<1>5. OneRevision' /\ ForgottenGone'
  BY <1>2, RevisionFrame DEF IInv
<1> QED BY <1>1, <1>3, <1>4, <1>5, PlanRests, PlanEdits DEF Others

LEMMA PlanUndoneStep ==
  ASSUME IInv, NEW r \in Run, validate_plan(r)
  PROVE  Others'
<1>0. run \in [Run -> RUN] /\ BatchWaits /\ card \in [Card -> CARD]
  BY DEF IInv, TypeOK, RUN
<1>1. tx' = NoTx /\ UNCHANGED <<fact, tombstone, question, lease, overwritten, edited_from>>
  BY DEF validate_plan, history
<1>2. CardsFramed
  <2>1. CASE card' = card
    BY <2>1 DEF CardsFramed
  <2>2. CASE card' = Unseen(card, r)
    BY <1>0, <2>2, UnseenRows DEF CardsFramed
  <2> QED BY <2>1, <2>2 DEF validate_plan
<1>3. \A s \in Run : \/ run'[s].batch = {} \/ (run'[s].batch = run[s].batch /\ run'[s].pc # "idle")
                     \/ run'[s] = run[s]
  <2>1. CASE run' = [run EXCEPT ![r].pc = "planned"]
    BY <1>0, <2>1 DEF RUN
  <2>2. CASE run' = [run EXCEPT ![r] = Ending("failed")]
    BY <1>0, <2>2 DEF Ending
  <2> QED BY <2>1, <2>2 DEF validate_plan
<1>4. BatchWaits'
  BY <1>1, <1>3, BatchFrame DEF IInv
<1> QED BY <1>1, <1>2, <1>4, RunStep
-----------------------------------------------------------------------------
(* The user.                                                                *)

LEMMA AnswerStep ==
  ASSUME IInv, NEW w \in Worker, NEW q \in Question, NEW f \in Fact, answer_question(w, q, f)
  PROVE  Others'
<1>0. TypeOK
  BY DEF IInv
<1>1. /\ Unlocked /\ UNCHANGED <<lease, run, tx, tombstone, card, overwritten, edited_from>>
      /\ fact' = Reopened(question[q].sources \cap Active)
      /\ question' = [question EXCEPT ![q].status = "answered"]
  BY DEF answer_question, history
<1>2. \A g \in Fact : /\ fact'[g].status = "active" => fact[g].status = "active"
                      /\ fact[g].status = "active" /\ g \notin {} => fact'[g].status = "active"
                      /\ fact'[g].processed => fact[g].processed
  BY <1>0, <1>1, ReopenedRows
<1>3. CardsFramed
  BY <1>1 DEF CardsFramed
<1>4. \A c \in Card : card'[c].status = "active" => card[c].sources \cap {} = {}
  OBVIOUS
<1>5. \A p \in Question : question'[p].status = "open" =>
        /\ question[p].status = "open" /\ question'[p].sources = question[p].sources
        /\ question[p].sources \cap {} = {}
  BY <1>0, <1>1 DEF TypeOK, QUESTION
<1> QED BY <1>1, <1>2, <1>3, <1>4, <1>5, WithdrawalStep

LEMMA ReviewStep ==
  ASSUME IInv, NEW c \in Card, NEW decision \in {"confirm", "edit", "reject"},
         review_memory(c, decision)
  PROVE  Others'
<1> DEFINE derived == {d \in Using(card[c].sources) \ {c} : ~UserLocked(d)}
           values == [card[c] EXCEPT !.seen = {},
                   !.status = IF decision = "reject" THEN "rejected" ELSE @,
                   !.review = IF decision = "confirm" THEN confirmed(c)
                              ELSE IF decision = "edit" THEN "edited" ELSE "rejected"]
<1>0. TypeOK /\ card \in [Card -> CARD] /\ card[c] \in CARD /\ edited_from \in [Card -> SUBSET Fact]
  BY DEF IInv, TypeOK
<1>1. /\ Unlocked /\ UNCHANGED <<lease, run, tx, tombstone, question, overwritten>>
      /\ card[c].status = "active"
  BY DEF review_memory
<1>2. /\ values.status = IF decision = "reject" THEN "rejected" ELSE "active"
      /\ values.sources = card[c].sources
      /\ values.review = IF decision = "confirm" THEN confirmed(c)
                         ELSE IF decision = "edit" THEN "edited" ELSE "rejected"
  BY <1>0, <1>1 DEF CARD
<1>3. CASE decision # "edit"
  <2>1. card' = [card EXCEPT ![c] = values] /\ UNCHANGED <<fact, edited_from>>
    BY <1>3 DEF review_memory
  <2> HIDE DEF values
  <2>2. CardsFramed
    BY <1>0, <1>1, <1>2, <1>3, <2>1 DEF CardsFramed, confirmed, Locked
  <2>3. \A g \in Fact : /\ fact'[g].status = "active" => fact[g].status = "active"
                        /\ fact[g].status = "active" /\ g \notin {} => fact'[g].status = "active"
                        /\ fact'[g].processed => fact[g].processed
    BY <2>1
  <2>4. /\ \A d \in Card : card'[d].status = "active" => card[d].sources \cap {} = {}
        /\ \A p \in Question : question'[p].status = "open" =>
             /\ question[p].status = "open" /\ question'[p].sources = question[p].sources
             /\ question[p].sources \cap {} = {}
    BY <1>1
  <2> QED BY <1>1, <2>1, <2>2, <2>3, <2>4, WithdrawalStep
<1>4. CASE decision = "edit"
  <2>1. /\ card' = [SavedAs(derived, "superseded") EXCEPT ![c] = values]
        /\ fact' = Reopened(SourcesOf(derived) \ card[c].sources)
        /\ edited_from' = [edited_from EXCEPT ![c] = card[c].sources]
    BY <1>4 DEF review_memory
  <2>2. /\ SavedAs(derived, "superseded") \in [Card -> CARD]
        /\ \A d \in Card :
             /\ SavedAs(derived, "superseded")[d].status =
                  IF d \in derived THEN "superseded" ELSE card[d].status
             /\ SavedAs(derived, "superseded")[d].sources = card[d].sources
             /\ SavedAs(derived, "superseded")[d].review = card[d].review
    BY <1>0, SavedRows DEF CardStatus
  <2>3. \A d \in Card : d \in derived <=>
          /\ d # c /\ card[d].status = "active" /\ card[d].review \notin Locked
          /\ card[d].sources \cap card[c].sources # {}
    BY DEF Using, ActiveCards, UserLocked, Locked
  <2>4. \A g \in Fact : /\ fact'[g].status = fact[g].status
                        /\ fact'[g].processed => fact[g].processed
    BY <1>0, <2>1, ReopenedRows
  <2> HIDE DEF values, derived
  <2>5. /\ card'[c].status = "active" /\ card'[c].review = "edited"
        /\ card'[c].sources = card[c].sources
        /\ \A d \in Card : d # c =>
             /\ card'[d].status = IF d \in derived THEN "superseded" ELSE card[d].status
             /\ card'[d].sources = card[d].sources /\ card'[d].review = card[d].review
    BY <1>2, <1>4, <2>1, <2>2
  <2>6. tx = NoTx /\ UNCHANGED tx
    BY <1>1 DEF Unlocked
  <2>7. PlannerLeads'
    BY <2>6 DEF PlannerLeads
  <2>8. BatchWaits'
    BY <1>1, <2>4, BatchFrame DEF IInv
  <2>9. OneRevision' /\ ForgottenGone'
    BY <1>1, <2>4, RevisionFrame DEF IInv
  <2>10. Rests'
    <3>1. /\ \A d \in Card : card'[d].status = "active" =>
               /\ card[d].status = "active" /\ card'[d].sources = card[d].sources
               /\ card[d].sources \cap {} = {}
          /\ \A p \in Question : question'[p].status = "open" =>
               /\ question[p].status = "open" /\ question'[p].sources = question[p].sources
               /\ question[p].sources \cap {} = {}
      BY <1>1, <2>5
    <3>2. \A g \in Fact : fact[g].status = "active" /\ g \notin {} =>
            fact'[g].status = "active" \/ g \in overwritten'
      BY <2>4
    <3>3. Rests /\ overwritten \subseteq overwritten'
      BY <1>1 DEF IInv
    <3> QED BY <1>0, <2>6, <3>1, <3>2, <3>3, RestsFrame
  <2>11. Edits'
    <3>1. /\ \A d \in Card : card[d].status = "absent" => card[d].review \notin Locked
          /\ EditsKept(card) /\ EvidenceKept(card)
      BY DEF IInv, Edits
    <3>2. edited_from'[c] = card[c].sources /\ \A d \in Card : d # c => edited_from'[d] = edited_from[d]
      BY <1>0, <2>1
    <3>3. \A d \in Card : card'[d].status = "absent" => card'[d].review \notin Locked
      BY <2>5, <3>1
    <3>4. EditsKept(card)'
      BY <2>5, <3>1, <3>2 DEF EditsKept
    <3>5. "edited" \in Locked
      BY DEF Locked
    <3>6. EvidenceKept(card)'
      BY <1>1, <2>3, <2>5, <3>1, <3>2, <3>5 DEF EvidenceKept
    <3> QED BY <2>6, <3>3, <3>4, <3>6 DEF Edits
  <2> QED BY <2>7, <2>8, <2>9, <2>10, <2>11 DEF Others
<1> QED BY <1>3, <1>4

LEMMA ForgetStep ==
  ASSUME IInv, NEW C \in SUBSET ActiveCards, NEW F \in SUBSET Active, approve_forget(C, F)
  PROVE  Others'
<1> DEFINE gone == F \cup SourcesOf(C)
<1>0. TypeOK /\ tx = NoTx /\ OneRevision /\ ForgottenGone
  BY DEF IInv, approve_forget, Unlocked
<1>1. /\ UNCHANGED <<lease, run, tx, overwritten, edited_from>>
      /\ fact' = Withdrawn(gone, "forgotten") /\ tombstone' = tombstones(gone)
      /\ card' = [c \in Card |-> IF c \in C THEN SavedAs(C, "forgotten")[c]
                                 ELSE SavedAs(Using(gone), "invalidated")[c]]
      /\ question' = Cancelled(AskedOn(gone))
  BY DEF approve_forget, history
<1>2. gone \subseteq Active \cup overwritten /\ C \subseteq Card
  <2>1. CardsRest(card)
    BY DEF IInv, Rests
  <2> QED BY <2>1 DEF CardsRest, SourcesOf, ActiveCards
<1> HIDE DEF gone
<1>3. \A g \in Fact : /\ fact'[g].status = IF g \in gone THEN "forgotten" ELSE fact[g].status
                      /\ fact'[g].processed => fact[g].processed
  BY <1>0, <1>1, WithdrawnRows DEF FactStatus
<1>4. \A c \in Card : /\ card'[c].status = IF c \in C THEN "forgotten"
                                           ELSE IF c \in Using(gone) THEN "invalidated"
                                           ELSE card[c].status
                      /\ card'[c].sources = card[c].sources /\ card'[c].review = card[c].review
  <2>1. \A c \in Card : /\ SavedAs(C, "forgotten")[c].status = IF c \in C THEN "forgotten" ELSE card[c].status
                        /\ SavedAs(C, "forgotten")[c].sources = card[c].sources
                        /\ SavedAs(C, "forgotten")[c].review = card[c].review
    BY <1>0, SavedRows DEF CardStatus
  <2>2. \A c \in Card : /\ SavedAs(Using(gone), "invalidated")[c].status =
                             IF c \in Using(gone) THEN "invalidated" ELSE card[c].status
                        /\ SavedAs(Using(gone), "invalidated")[c].sources = card[c].sources
                        /\ SavedAs(Using(gone), "invalidated")[c].review = card[c].review
    BY <1>0, SavedRows DEF CardStatus
  <2> QED BY <1>1, <2>1, <2>2
<1>5. \A q \in Question :
        /\ question'[q].status = IF q \in AskedOn(gone) THEN "cancelled" ELSE question[q].status
        /\ question'[q].sources = question[q].sources
  BY <1>0, <1>1, CancelledRows
<1>6. \A c \in Card : /\ c \in Using(gone) <=> card[c].status = "active" /\ card[c].sources \cap gone # {}
                      /\ c \in C => card[c].status = "active"
  BY DEF Using, ActiveCards
<1>7. \A q \in Question : q \in AskedOn(gone) <=> question[q].sources \cap gone # {}
  BY DEF AskedOn
<1>8. CardsFramed
  BY <1>4, <1>6 DEF CardsFramed
<1>9. PlannerLeads'
  BY <1>0, <1>1 DEF PlannerLeads
<1>10. BatchWaits'
  BY <1>1, <1>3, BatchFrame DEF IInv
<1>11. Active' = Active \ gone
  BY <1>3 DEF Active
<1>12. OneRevision'
  BY <1>0, <1>1, <1>11 DEF OneRevision
(* A forgotten statement is not active in another revision: OneRevision.    *)
<1>13. ForgottenGone'
  <2> SUFFICES ASSUME NEW f \in Active, f \notin gone, <<f[1], f[3]>> \in tombstones(gone)
               PROVE  \E g \in overwritten : g[1] = f[1]
    BY <1>1, <1>11 DEF ForgottenGone
  <2>1. CASE <<f[1], f[3]>> \in tombstone
    BY <1>0, <2>1 DEF ForgottenGone
  <2>2. CASE <<f[1], f[3]>> \notin tombstone
    <3>1. PICK g \in gone : g[1] = f[1] /\ g[3] = f[3]
      BY <2>2 DEF tombstones
    <3>2. CASE g \in overwritten
      BY <3>1, <3>2
    <3>3. CASE g \in Active
      <4>1. f \in Fact /\ g \in Fact
        BY <3>3 DEF Active
      <4>2. g[2] # f[2]
        <5>1. g # f
          BY <3>1
        <5> QED BY <3>1, <4>1, <5>1, FactAssumption
      <4> QED BY <1>0, <3>1, <3>3, <4>2 DEF OneRevision
    <3> QED BY <1>2, <3>2, <3>3
  <2> QED BY <2>1, <2>2
<1>14. Rests'
  <2>1. /\ \A c \in Card : card'[c].status = "active" =>
             /\ card[c].status = "active" /\ card'[c].sources = card[c].sources
             /\ card[c].sources \cap gone = {}
        /\ \A q \in Question : question'[q].status = "open" =>
             /\ question[q].status = "open" /\ question'[q].sources = question[q].sources
             /\ question[q].sources \cap gone = {}
    BY <1>4, <1>5, <1>6, <1>7
  <2>2. \A g \in Fact : fact[g].status = "active" /\ g \notin gone =>
          fact'[g].status = "active" \/ g \in overwritten'
    BY <1>3
  <2>3. Rests /\ overwritten \subseteq overwritten'
    BY <1>1 DEF IInv
  <2> QED BY <1>0, <1>1, <2>1, <2>2, <2>3, RestsFrame
<1>15. Edits'
  BY <1>0, <1>1, <1>8, EditsFrame DEF IInv
<1> QED BY <1>9, <1>10, <1>12, <1>13, <1>14, <1>15 DEF Others

(* Steps that touch nothing of the invariants.                              *)
LEMMA QuietStep ==
  ASSUME IInv, UNCHANGED <<tables, run, tx, history>>, lease'.run = lease.run
  PROVE  Others'
<1>1. UNCHANGED <<fact, tombstone, card, question, run, tx, overwritten, edited_from>>
  BY DEF tables, history
<1>2. PlannerLeads' /\ BatchWaits' /\ OneRevision' /\ ForgottenGone'
  BY <1>1 DEF IInv, PlannerLeads, BatchWaits, OneRevision, ForgottenGone, Active
<1>3. Rests'
  BY <1>1 DEF IInv, Rests, CardsRest, QuestionsRest, Active
<1>4. Edits'
  BY <1>1 DEF IInv, Edits, EditsKept, EvidenceKept, LocksKept
<1> QED BY <1>2, <1>3, <1>4 DEF Others
-----------------------------------------------------------------------------
LEMMA InitIInv == Init => IInv
<1> SUFFICES ASSUME Init PROVE IInv
  OBVIOUS
<1>1. TypeOK /\ CopiesHaveFact
  BY InitTypes
<1>2. PlannerLeads /\ BatchWaits
  BY DEF Init, PlannerLeads, BatchWaits, Idle
<1>3. Active = Ingested
  BY FactAssumption DEF Init, Active, NoFact
<1>4. OneRevision
  BY <1>3, FactAssumption DEF OneRevision
<1>5. ForgottenGone
  BY DEF Init, ForgottenGone
<1>6. \A c \in Card : /\ card[c].status = "active" =>
                           c \in DOMAIN Organised /\ card[c].sources = {Organised[c]}
                      /\ card[c].review = "not_required"
  BY DEF Init, NoCard
<1>7. Rests
  <2>1. \A c \in DOMAIN Organised : Organised[c] \in Ingested
    BY FactAssumption
  <2>2. CardsRest(card)
    BY <1>3, <1>6, <2>1 DEF CardsRest
  <2>3. QuestionsRest(question)
    BY DEF Init, QuestionsRest
  <2> QED BY <2>2, <2>3 DEF Init, Rests
<1>8. Edits
  <2>1. \A c \in Card : edited_from[c] = {}
    BY DEF Init
  <2>2. tx = NoTx
    BY DEF Init
  <2> QED BY <1>6, <2>1, <2>2 DEF Edits, EditsKept, EvidenceKept, Locked
<1> QED BY <1>1, <1>2, <1>4, <1>5, <1>7, <1>8 DEF IInv

LEMMA NextIInv == IInv /\ [Next]_vars => IInv'
<1> SUFFICES ASSUME IInv, [Next]_vars PROVE IInv'
  OBVIOUS
<1>1. TypeOK' /\ CopiesHaveFact'
  BY TypeStep DEF IInv
<1>2. ASSUME NEW w \in Worker, NEW t \in Text, process_note_memory(w, t) PROVE Others'
  BY <1>2, QuietStep DEF process_note_memory
<1>3. ASSUME NEW r \in Run, apply_commit(r) PROVE Others'
  BY <1>3, CommitStep DEF Others
<1>4. ASSUME lease_expires PROVE Others'
  <2>1. UNCHANGED <<tables, run, tx, history>> /\ lease'.run = lease.run
    BY <1>4 DEF lease_expires, IInv, TypeOK
  <2> QED BY <2>1, QuietStep
<1>5. ASSUME UNCHANGED vars PROVE Others'
  <2>1. UNCHANGED <<tables, run, tx, history>> /\ lease'.run = lease.run
    BY <1>5 DEF vars
  <2> QED BY <2>1, QuietStep
<1>6. Others'
  BY <1>2, <1>3, <1>4, <1>5, SyncStep, IngestStep, LinkStep, AnswerStep, LeaseStep, SnapshotStep,
     PlanBeginsStep, PlanActsStep, PlanUndoneStep, ReviewStep, ForgetStep DEF Next
<1> QED BY <1>1, <1>6 DEF IInv, Others

(* The inductive invariant behind the theorems below.                       *)
THEOREM FactInvariant == Spec => []IInv
BY InitIInv, NextIInv, PTL DEF Spec

(* Every variable of FactMemory stays in its type.                          *)
THEOREM FactTypes == Spec => []TypeOK
<1>1. IInv => TypeOK
  BY DEF IInv
<1> QED BY <1>1, FactInvariant, PTL

(* Active cards and open questions rest on active facts, however syncs,     *)
(* plans, corrections and forgetting interleave; only a row that            *)
(* ingest_candidate overwrote is excepted.                                  *)
THEOREM EvidenceStands == Spec => []DerivedRestsOnActiveFacts
<1>1. IInv => DerivedRestsOnActiveFacts
  BY DEF IInv, Rests, CardsRest, QuestionsRest, DerivedRestsOnActiveFacts, ActiveCards
<1> QED BY <1>1, FactInvariant, PTL

(* Only ingest_fact and ingest_candidate make a fact active: one that is    *)
(* not covered by a tombstone, and one whose row they overwrite.            *)
LEMMA ComesBack ==
  ASSUME IInv, [Next]_vars, NEW f \in Active' \ Active, Covered(f)'
  PROVE  f \in overwritten'
<1>0. TypeOK /\ f \in Fact /\ fact'[f].status = "active" /\ fact[f].status # "active"
  BY DEF IInv, Active
<1>q. ASSUME fact'[f].status = fact[f].status PROVE FALSE
  BY <1>0, <1>q
<1>w. ASSUME NEW F, NEW s \in FactStatus, s # "active", fact' = Withdrawn(F, s) PROVE FALSE
  BY <1>0, <1>w, WithdrawnRows
<1>1. ASSUME NEW w \in Worker, NEW t \in Text, process_note_memory(w, t) PROVE FALSE
  BY <1>1, <1>q DEF process_note_memory, tables
<1>2. ASSUME NEW w \in Worker, sync_source(w) PROVE FALSE
  BY <1>2, <1>w DEF sync_source, invalidate_sources, FactStatus
<1>3. ASSUME NEW w \in Worker, NEW g \in worker[w].todo, ingest_fact(w, g) PROVE FALSE
  <2>0. g \in Fact /\ UNCHANGED tombstone
    BY <1>0, <1>3 DEF TypeOK, ingest_fact
  <2>1. CASE fact[g].status \in {"absent", "source_changed"}
    <3>1. fact' = [Withdrawn(Outdated(g), "source_changed") EXCEPT ![g] = ingested(g)]
      BY <1>3, <2>1 DEF ingest_fact
    <3>2. /\ Withdrawn(Outdated(g), "source_changed") \in [Fact -> FACT]
          /\ Withdrawn(Outdated(g), "source_changed")[f].status # "active"
      BY <1>0, WithdrawnRows DEF FactStatus
    <3>3. g = f /\ fact'[f] = ingested(f)
      BY <1>0, <2>0, <3>1, <3>2
    <3>4. Covered(f)
      BY <2>0 DEF Covered
    <3> QED BY <1>0, <3>3, <3>4 DEF ingested
  <2>2. CASE fact[g].status \notin {"absent", "source_changed"}
    BY <1>3, <1>q, <2>2 DEF ingest_fact
  <2> QED BY <2>1, <2>2
<1>4. ASSUME NEW w \in Worker, ingest_candidate(w) PROVE f \in overwritten'
  <2>1. worker[w].of \in Fact
    BY <1>4 DEF IInv, CopiesHaveFact, ingest_candidate
  <2> QED BY <1>0, <1>4, <2>1 DEF ingest_candidate, TypeOK
<1>5. ASSUME NEW w \in Worker, NEW q \in Question, NEW g \in Fact, answer_question(w, q, g)
      PROVE  FALSE
  BY <1>0, <1>5, <1>q, ReopenedRows DEF answer_question
<1>6. ASSUME NEW r \in Run,
             \/ consolidate(r) \/ snapshot(r) \/ apply_plan(r) \/ validate_plan(r)
             \/ release_lease(r)
      PROVE  FALSE
  BY <1>6, <1>q DEF consolidate, snapshot, apply_plan, validate_plan, release_lease, tables
<1>7. ASSUME NEW r \in Run, Plan(r) PROVE FALSE
  <2>1. PICK S : PlanEffect(r, S)
    BY <1>0, <1>7, PlanStep
  <2> QED BY <1>q, <2>1 DEF PlanEffect, tables
<1>8. ASSUME NEW r \in Run, apply_commit(r) PROVE FALSE
  <2>1. fact'[f] = fact[f] \/ fact'[f] = [fact[f] EXCEPT !.processed = TRUE]
    BY <1>0, <1>8 DEF apply_commit
  <2>2. fact[f] \in FACT
    BY <1>0 DEF TypeOK
  <2> QED BY <1>q, <2>1, <2>2 DEF FACT
<1>9. ASSUME lease_expires PROVE FALSE
  BY <1>9, <1>q DEF lease_expires, tables
<1>10. ASSUME NEW c \in Card, NEW d \in {"confirm", "edit", "reject"}, review_memory(c, d)
       PROVE  FALSE
  <2>1. fact' = fact \/ \E F : fact' = Reopened(F)
    BY <1>10 DEF review_memory
  <2> QED BY <1>0, <1>q, <2>1, ReopenedRows
<1>11. ASSUME NEW C \in SUBSET ActiveCards, NEW F \in SUBSET Active, approve_forget(C, F)
       PROVE  FALSE
  BY <1>11, <1>w DEF approve_forget, FactStatus
<1>12. ASSUME UNCHANGED vars PROVE FALSE
  BY <1>12, <1>q DEF vars, tables
<1> QED BY <1>1, <1>2, <1>3, <1>4, <1>5, <1>6, <1>7, <1>8, <1>9, <1>10, <1>11, <1>12 DEF Next

(* approve_forget is final, as far as its tombstones go: a forgotten        *)
(* statement is not active in any revision of its source, and no evidence   *)
(* that contains or is contained in forgotten evidence becomes active,      *)
(* unless ingest_candidate overwrote a row.                                 *)
THEOREM ForgettingIsFinal == Spec => ForgottenStaysForgotten
<1>1. IInv => ForgottenGone
  BY DEF IInv
<1>2. IInv /\ [Next]_vars =>
        [\A f \in Active' \ Active : Covered(f)' => f \in overwritten']_vars
  BY ComesBack
<1> QED BY <1>1, <1>2, FactInvariant, PTL DEF Spec, ForgottenStaysForgotten

(* No plan, whatever it holds and however stale its snapshot, builds a card *)
(* outside the user's lock on the evidence of a card the user edited.       *)
THEOREM CorrectionsHold == Spec => []EditedEvidenceExclusive
<1>1. IInv => EditedEvidenceExclusive
  BY DEF IInv, Edits, EvidenceKept, EditedEvidenceExclusive, ActiveCards, UserLocked, Locked
<1> QED BY <1>1, FactInvariant, PTL

(* apply_plan commits only what still waits: the lease row is a fence.      *)
THEOREM ConsumedOnce == Spec => OneConsumer
<1>1. ASSUME IInv, [Next]_vars
      PROVE  [\A r \in Run : run[r].pc = "apply" /\ run'[r].pc = "applied" =>
                \A f \in run[r].batch : ~fact[f].processed \/ f \in overwritten]_vars
  <2> SUFFICES ASSUME Next, NEW r \in Run, run[r].pc = "apply", run'[r].pc = "applied"
               PROVE  \A f \in run[r].batch : ~fact[f].processed \/ f \in overwritten
    BY <1>1 DEF vars
  <2>0. run \in [Run -> RUN]
    BY <1>1 DEF IInv, TypeOK, RUN
  <2>1. ASSUME UNCHANGED run PROVE FALSE
    BY <2>1
  <2>2. ASSUME NEW w \in Worker,
               \/ \E t \in Text : process_note_memory(w, t)
               \/ sync_source(w)
               \/ \E f \in worker[w].todo : ingest_fact(w, f)
               \/ ingest_candidate(w)
               \/ \E q \in Question, f \in Fact : answer_question(w, q, f)
        PROVE  FALSE
    BY <2>1, <2>2 DEF process_note_memory, sync_source, ingest_fact, ingest_candidate,
       answer_question
  <2>3. ASSUME NEW s \in Run,
               \/ consolidate(s) \/ snapshot(s) \/ apply_plan(s) \/ validate_plan(s)
               \/ release_lease(s)
        PROVE  FALSE
    <3>1. s # r => run'[r] = run[r]
      BY <2>0, <2>3 DEF consolidate, snapshot, apply_plan, validate_plan, release_lease
    <3>2. CASE s = r
      BY <2>0, <2>3, <3>2 DEF consolidate, snapshot, apply_plan, validate_plan, release_lease,
         RUN, Ending, Idle
    <3> QED BY <3>1, <3>2
  <2>4. ASSUME NEW s \in Run, Plan(s) PROVE FALSE
    <3>1. PICK S : PlanEffect(s, S)
      BY <1>1, <2>4, PlanStep DEF IInv
    <3> QED BY <2>1, <3>1 DEF PlanEffect
  <2>5. ASSUME NEW s \in Run, apply_commit(s) PROVE s = r /\ lease.run = r
    <3>1. s = r
      BY <2>0, <2>5 DEF apply_commit
    <3> QED BY <1>1, <2>5, <3>1 DEF apply_commit, IInv, PlannerLeads
  <2>6. ASSUME lease_expires PROVE FALSE
    BY <2>1, <2>6 DEF lease_expires
  <2>7. ASSUME NEW c \in Card, NEW d \in {"confirm", "edit", "reject"}, review_memory(c, d)
        PROVE  FALSE
    BY <2>1, <2>7 DEF review_memory
  <2>8. ASSUME NEW C \in SUBSET ActiveCards, NEW F \in SUBSET Active, approve_forget(C, F)
        PROVE  FALSE
    BY <2>1, <2>8 DEF approve_forget
  <2>9. lease.run = r
    BY <2>2, <2>3, <2>4, <2>5, <2>6, <2>7, <2>8 DEF Next
  <2> QED BY <1>1, <2>9 DEF IInv, BatchWaits
<1> QED BY <1>1, FactInvariant, PTL DEF Spec, OneConsumer
=============================================================================
