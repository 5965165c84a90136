--------------------------- MODULE SpaceDispatchProofs ---------------------------
(***************************************************************************)
(* Proofs about the order of the messages of a space, for any number of    *)
(* messages of any kinds in any order: no watermark passes an open stage,  *)
(* a released message found what it waits for, and a message is stranded   *)
(* only in the two ways OnlyKnownStrandings names.                         *)
(***************************************************************************)
EXTENDS SpaceDispatch, SequenceTheorems, WellFoundedInduction, TLAPS

(* A stage of a message that is finished stays finished, and messages stay. *)
Later(old, new) ==
  /\ Len(old) <= Len(new)
  /\ \A s \in 1..Len(old) :
       /\ old[s].note_status \in Finished => new[s].note_status \in Finished
       /\ old[s].memory_status \in Finished => new[s].memory_status \in Finished

(* The watermarks sp pass no open stage of box, and not its end.            *)
SoundFor(sp, box) ==
  /\ sp.note_watermark <= Len(box) /\ sp.memory_watermark <= Len(box)
  /\ \A s \in 1..Len(box) : /\ box[s].note_status \notin Finished => sp.note_watermark < s
                            /\ box[s].memory_status \notin Finished => sp.memory_watermark < s

(* They stop only before an open stage, or at the end.                      *)
ExactFor(sp, box) ==
  /\ sp.note_watermark + 1 \in NoteOpen(box) \cup {Len(box) + 1}
  /\ sp.memory_watermark + 1 \in MemoryOpen(box) \cup {Len(box) + 1}

(* What a completion under way works on was once the state of the space.    *)
FLIGHT == [inbox: Seq(Message), space: Space, blocked: SUBSET TaskId]
Snapshots ==
  \A x \in TaskId : flight[x] # NoFlight =>
    /\ flight[x] \in FLIGHT
    /\ x[2] \in 1..Len(flight[x].inbox)
    /\ SoundFor(flight[x].space, flight[x].inbox)
    /\ Later(flight[x].inbox, inbox)

(* The rows of the tasks table.                                             *)
TaskRows == [TaskId -> Settled \cup {"blocked", "queued", "running"}]

(* One message with its tasks.                                              *)
GivenUp(row, root) == row.status = "skipped_command" \/ root \in {"dead_letter", "cancelled"}
RowOK(row, root, extract) ==
  /\ extract \notin {"blocked", "cancelled"}
  /\ row.status = "blocked_sensitive" => row.kind = "sensitive"
  /\ row.kind \notin Ingest => extract = "none"
  /\ row.kind \in {"note", "memory", "weak"} =>
       row.note_status \in Finished /\ row.memory_status \in Finished
  /\ row.kind = "sensitive" =>
       /\ root = "none"
       /\ row.memory_status \notin Finished => row.note_status = "pending"
       /\ row.note_status \notin Finished => row.status = "blocked_sensitive"
  /\ row.kind \in Ingest =>
       /\ root # "none"
       /\ row.note_status \in Finished /\ ~GivenUp(row, root) =>
            root \in Settled \/ extract # "none"
       /\ row.memory_status \in Finished /\ ~GivenUp(row, root) =>
            (root \in Settled \/ extract # "none") /\ extract \in Settled
       /\ row.note_status \notin Finished =>
            \/ root \in {"blocked", "queued", "running"}
            \/ root = "dead_letter" /\ row.status = "processed"
       /\ row.memory_status \notin Finished =>
            root \in {"blocked", "queued", "running"} \/ extract \in {"queued", "running"}
       /\ row.status = "failed" => row.note_status \in Finished
       /\ row.status \in {"processed", "failed"} => row.memory_status \in Finished
       /\ extract \in {"completed", "dead_letter"} => row.memory_status \in Finished

RowsOK(box, tasks) ==
  /\ \A s \in 1..Len(box) : RowOK(box[s], tasks[<<"root", s>>], tasks[<<"memory", s>>])
  /\ \A x \in TaskId : tasks[x] # "none" => x[2] <= Len(box)

(* Who was released found what it waits for.                                *)
Passed(box, kind, s) ==
  /\ task_consistency(kind) = "note" =>
       \A e \in 1..s-1 : box[e].note_status \in Finished
  /\ task_consistency(kind) = "memory" =>
       \A e \in 1..s-1 : box[e].memory_status \in Finished
ReleasedOK(box, tasks) ==
  \A s \in 1..Len(box) :
    tasks[<<"root", s>>] \in {"queued", "running", "completed"} => Passed(box, box[s].kind, s)

(* Who is blocked is not reached.                                           *)
Unreached(sp, box, tasks) ==
  \A s \in 1..Len(box) : tasks[<<"root", s>>] = "blocked" => ~Reached(sp, box[s].kind, s)

Types ==
  /\ inbox \in Seq(Message) /\ Len(inbox) <= MaxSeq
  /\ task \in TaskRows
  /\ space \in Space
  /\ overlapped \in BOOLEAN
  /\ DOMAIN flight = TaskId

Recovering == \A s \in recovering : s \in 1..Len(inbox) /\ inbox[s].kind \in {"slash", "sensitive"}

IInv == /\ Types /\ Snapshots /\ Recovering
        /\ SoundFor(space, inbox) /\ RowsOK(inbox, task) /\ ReleasedOK(inbox, task)
        /\ ~overlapped => ExactFor(space, inbox) /\ Unreached(space, inbox, task)

-----------------------------------------------------------------------------
(* Where an advance of a watermark ends.                                    *)

(* The larger of two numbers, as Max of FiniteSetsExt gives it.             *)
LEMMA MaxOfTwo ==
  ASSUME NEW a \in Nat, NEW b \in Nat
  PROVE  Max({a, b}) = IF a >= b THEN a ELSE b
<1> DEFINE m == IF a >= b THEN a ELSE b
<1>1. m \in {a, b} /\ \A y \in {a, b} : m >= y
  OBVIOUS
<1>2. \A z \in {a, b} : (\A y \in {a, b} : z >= y) => z = m
  OBVIOUS
<1> HIDE DEF m
<1>3. Max({a, b}) = m
  BY <1>1, <1>2 DEF Max
<1> QED  BY <1>3 DEF m

(* A set of numbers that is not empty has the least element Min chooses.    *)
LEMMA LeastElement ==
  ASSUME NEW S \in SUBSET Nat, S # {}
  PROVE  Min(S) \in S /\ \A y \in S : Min(S) <= y
<1> DEFINE R == {ss \in Nat \X Nat : ss[1] < ss[2]}
<1>1. R = OpToRel(<, Nat)
  BY DEF OpToRel
<1>2. IsWellFoundedOn(R, Nat)
  BY <1>1, NatLessThanWellFounded
<1>3. PICK x \in S : \A y \in S : ~(<<y, x>> \in R)
  <2> HIDE DEF R
  <2> QED  BY <1>2, WFMin
<1>4. \A y \in S : x <= y
  <2> TAKE y \in S
  <2>1. ~(<<y, x>> \in R)
    BY <1>3
  <2>2. y \in Nat /\ x \in Nat
    OBVIOUS
  <2>3. y < x => <<y, x>> \in R
    BY <2>2
  <2> HIDE DEF R
  <2> QED  BY <2>1, <2>2, <2>3
<1> QED  BY <1>4 DEF Min

(* An advance from before every open message ends just before the first one *)
(* that is open, or at the last message.                                    *)
LEMMA AdvanceStops ==
  ASSUME NEW last \in Nat, NEW current \in 0..last, NEW open \in SUBSET (1..last),
         \A s \in open : current < s
  PROVE  /\ Advanced(current, open, last) \in current..last
         /\ \A s \in open : Advanced(current, open, last) < s
         /\ Advanced(current, open, last) + 1 \in open \cup {last + 1}
<1> DEFINE above == {s \in open : s > current}
<1>1. above = open
  OBVIOUS
<1>2. CASE open = {}
  <2>1. Advanced(current, open, last) = Max({current, last})
    BY <1>2 DEF Advanced
  <2>2. Max({current, last}) = last
    BY MaxOfTwo
  <2> QED  BY <2>1, <2>2, <1>2
<1>3. CASE open # {}
  <2> DEFINE m == Min(open)
  <2>1. m \in open /\ \A y \in open : m <= y
    BY <1>3, LeastElement
  <2>2. m - 1 \in Nat /\ m - 1 >= current
    <3>1. m \in 1..last /\ current < m
      BY <2>1
    <3> HIDE DEF m
    <3> QED  BY <3>1
  <2>3. Advanced(current, open, last) = Max({current, m - 1})
    BY <1>1, <1>3 DEF Advanced
  <2> HIDE DEF m
  <2>4. Max({current, m - 1}) = m - 1
    BY <2>1, <2>2, MaxOfTwo
  <2> QED  BY <2>1, <2>2, <2>3, <2>4
<1> QED  BY <1>2, <1>3

(* What _advance_watermarks_in_session does to watermarks that are sound:   *)
(* they stay sound and become exact.                                        *)
LEMMA ProgressIsExact ==
  ASSUME NEW box \in Seq(Message), Len(box) <= MaxSeq, NEW sp \in Space,
         SoundFor(sp, box)
  PROVE  /\ Progress(sp, box) \in Space
         /\ SoundFor(Progress(sp, box), box)
         /\ ExactFor(Progress(sp, box), box)
<1> DEFINE n == Advanced(sp.note_watermark, NoteOpen(box), Len(box))
           m == Advanced(sp.memory_watermark, MemoryOpen(box), Len(box))
<1>1. Len(box) \in Nat /\ DOMAIN box = 1..Len(box)
  BY LenProperties
<1>2. sp.note_watermark \in 0..Len(box) /\ sp.memory_watermark \in 0..Len(box)
  BY <1>1, DispatchAssumption DEF SoundFor, Space
<1>3. /\ NoteOpen(box) \in SUBSET (1..Len(box)) /\ MemoryOpen(box) \in SUBSET (1..Len(box))
      /\ \A s \in NoteOpen(box) : sp.note_watermark < s
      /\ \A s \in MemoryOpen(box) : sp.memory_watermark < s
  BY <1>1 DEF NoteOpen, MemoryOpen, SoundFor
<1>4. /\ n \in sp.note_watermark..Len(box) /\ \A s \in NoteOpen(box) : n < s
      /\ n + 1 \in NoteOpen(box) \cup {Len(box) + 1}
  BY <1>1, <1>2, <1>3, AdvanceStops
<1>5. /\ m \in sp.memory_watermark..Len(box) /\ \A s \in MemoryOpen(box) : m < s
      /\ m + 1 \in MemoryOpen(box) \cup {Len(box) + 1}
  BY <1>1, <1>2, <1>3, AdvanceStops
<1>6. Progress(sp, box) = [sp EXCEPT !.note_watermark = n, !.memory_watermark = m]
  BY DEF Progress
<1> HIDE DEF n, m
<1>7. n \in 0..MaxSeq /\ m \in 0..MaxSeq /\ n <= Len(box) /\ m <= Len(box)
  BY <1>1, <1>2, <1>4, <1>5, DispatchAssumption
<1>8. Progress(sp, box) \in Space
  BY <1>6, <1>7 DEF Space
<1>9. Progress(sp, box).note_watermark = n /\ Progress(sp, box).memory_watermark = m
  BY <1>6 DEF Space
<1>10. SoundFor(Progress(sp, box), box)
  BY <1>1, <1>4, <1>5, <1>7, <1>9 DEF SoundFor, NoteOpen, MemoryOpen
<1>11. ExactFor(Progress(sp, box), box)
  BY <1>4, <1>5, <1>9 DEF ExactFor
<1> QED  BY <1>8, <1>10, <1>11

-----------------------------------------------------------------------------
(* One message changes, or a message arrives.                               *)

LEMMA TaskIds ==
  /\ \A s \in Seqs : <<"root", s>> \in TaskId /\ <<"memory", s>> \in TaskId
  /\ \A x \in TaskId : x[2] \in Seqs /\ (x = <<"root", x[2]>> \/ x = <<"memory", x[2]>>)
BY DEF TaskId

LEMMA LaterTransitive ==
  ASSUME NEW a \in Seq(Message), NEW b \in Seq(Message), NEW c \in Seq(Message),
         Later(a, b), Later(b, c)
  PROVE  Later(a, c)
<1>1. Len(a) \in Nat /\ Len(b) \in Nat /\ Len(c) \in Nat
  BY LenProperties
<1> QED  BY <1>1 DEF Later

(* Who is released by watermarks that are sound found what it waits for.    *)
LEMMA ReachedPassed ==
  ASSUME NEW box \in Seq(Message), NEW sp \in Space, SoundFor(sp, box),
         NEW s \in 1..Len(box), NEW kind \in Kind, Reached(sp, kind, s)
  PROVE  Passed(box, kind, s)
<1>1. Len(box) \in Nat /\ sp.note_watermark \in Nat /\ sp.memory_watermark \in Nat
  BY LenProperties, DispatchAssumption DEF Space
<1>2. ASSUME task_consistency(kind) = "note", NEW e \in 1..s-1
      PROVE  box[e].note_status \in Finished
  BY <1>1, <1>2 DEF SoundFor, Reached
<1>3. ASSUME task_consistency(kind) = "memory", NEW e \in 1..s-1
      PROVE  box[e].memory_status \in Finished
  BY <1>1, <1>3 DEF SoundFor, Reached
<1> QED  BY <1>2, <1>3 DEF Passed

(* _activate_ready_tasks_in_session.                                        *)
LEMMA Releasing ==
  ASSUME NEW box \in Seq(Message), Len(box) <= MaxSeq, NEW tasks \in TaskRows,
         NEW sp \in Space, NEW among \in SUBSET TaskId, NEW old,
         \A s \in 1..Len(box) : old[s].kind = box[s].kind,
         SoundFor(sp, box), RowsOK(box, tasks), ReleasedOK(box, tasks)
  PROVE  /\ Activated(tasks, old, sp, among) \in TaskRows
         /\ RowsOK(box, Activated(tasks, old, sp, among))
         /\ ReleasedOK(box, Activated(tasks, old, sp, among))
         /\ (\A x \in TaskId : tasks[x] = "blocked" => x \in among)
            => Unreached(sp, box, Activated(tasks, old, sp, among))
<1> DEFINE act == Activated(tasks, old, sp, among)
<1>1. Len(box) \in Nat /\ \A s \in 1..Len(box) : s \in Seqs /\ box[s] \in Message
  BY LenProperties, DispatchAssumption DEF Seqs
<1>2. /\ act \in TaskRows
      /\ \A x \in TaskId :
           act[x] = IF x \in among /\ tasks[x] = "blocked" /\ Reached(sp, old[x[2]].kind, x[2])
                    THEN "queued" ELSE tasks[x]
  BY DEF Activated, TaskRows
<1> HIDE DEF act
<1>3. \A s \in 1..Len(box) :
        /\ <<"root", s>> \in TaskId /\ <<"memory", s>> \in TaskId
        /\ act[<<"memory", s>>] = tasks[<<"memory", s>>]
        /\ act[<<"root", s>>] = IF /\ <<"root", s>> \in among /\ tasks[<<"root", s>>] = "blocked"
                                   /\ Reached(sp, box[s].kind, s)
                                THEN "queued" ELSE tasks[<<"root", s>>]
  <2> TAKE s \in 1..Len(box)
  <2>1. <<"root", s>> \in TaskId /\ <<"memory", s>> \in TaskId
    BY <1>1, TaskIds
  <2>2. tasks[<<"memory", s>>] # "blocked"
    BY DEF RowsOK, RowOK
  <2>3. <<"root", s>>[2] = s /\ <<"memory", s>>[2] = s
    OBVIOUS
  <2> QED  BY <1>2, <2>1, <2>2, <2>3
<1>4. ASSUME NEW s \in 1..Len(box)
      PROVE  RowOK(box[s], act[<<"root", s>>], act[<<"memory", s>>])
  <2>1. RowOK(box[s], tasks[<<"root", s>>], tasks[<<"memory", s>>])
    BY DEF RowsOK
  <2>2. CASE act[<<"root", s>>] = tasks[<<"root", s>>]
    BY <1>3, <2>1, <2>2
  <2>3. CASE tasks[<<"root", s>>] = "blocked" /\ act[<<"root", s>>] = "queued"
    BY <1>3, <2>1, <2>3 DEF RowOK, GivenUp, Settled
  <2> QED  BY <1>3, <2>2, <2>3
<1>5. \A x \in TaskId : act[x] # "none" => tasks[x] # "none"
  BY <1>2
<1>6. RowsOK(box, act)
  BY <1>4, <1>5 DEF RowsOK
<1>7. ReleasedOK(box, act)
  <2> SUFFICES ASSUME NEW s \in 1..Len(box),
                      act[<<"root", s>>] \in {"queued", "running", "completed"}
               PROVE  Passed(box, box[s].kind, s)
    BY DEF ReleasedOK
  <2>1. CASE act[<<"root", s>>] = tasks[<<"root", s>>]
    BY <2>1 DEF ReleasedOK
  <2>2. CASE Reached(sp, box[s].kind, s)
    BY <1>1, <2>2, ReachedPassed DEF Message
  <2> QED  BY <1>3, <2>1, <2>2
<1>8. ASSUME \A x \in TaskId : tasks[x] = "blocked" => x \in among
      PROVE  Unreached(sp, box, act)
  BY <1>3, <1>8 DEF Unreached
<1> QED  BY <1>2, <1>6, <1>7, <1>8 DEF act

(* Sound watermarks stay sound when stages finish or messages arrive.       *)
LEMMA SoundLater ==
  ASSUME NEW old \in Seq(Message), NEW box \in Seq(Message), NEW sp \in Space,
         NEW wm \in Space, wm.note_watermark = sp.note_watermark,
         wm.memory_watermark = sp.memory_watermark,
         SoundFor(sp, old), Later(old, box)
  PROVE  SoundFor(wm, box)
<1>1. /\ Len(old) \in Nat /\ Len(box) \in Nat
      /\ sp.note_watermark \in Nat /\ sp.memory_watermark \in Nat
  BY LenProperties, DispatchAssumption DEF Space
<1> QED  BY <1>1 DEF SoundFor, Later

(* The rest of the space does not notice a change of one message that only  *)
(* finishes stages, and of its tasks.                                       *)
LEMMA OneMessage ==
  ASSUME IInv, NEW box \in Seq(Message), Len(box) = Len(inbox), NEW tasks \in TaskRows,
         NEW s \in 1..Len(inbox),
         \A t \in 1..Len(inbox) : t # s => box[t] = inbox[t],
         \A x \in TaskId : x[2] # s => tasks[x] = task[x],
         box[s].kind = inbox[s].kind,
         inbox[s].note_status \in Finished => box[s].note_status \in Finished,
         inbox[s].memory_status \in Finished => box[s].memory_status \in Finished,
         RowOK(box[s], tasks[<<"root", s>>], tasks[<<"memory", s>>]),
         tasks[<<"root", s>>] \in {"queued", "running", "completed"}
           => task[<<"root", s>>] \in {"queued", "running", "completed"}
  PROVE  Later(inbox, box) /\ RowsOK(box, tasks) /\ ReleasedOK(box, tasks)
<1>0. /\ inbox \in Seq(Message) /\ Len(inbox) <= MaxSeq
      /\ RowsOK(inbox, task) /\ ReleasedOK(inbox, task)
  BY DEF IInv, Types
<1>1. Len(inbox) \in Nat /\ \A t \in 1..Len(inbox) : t \in Seqs
  BY <1>0, LenProperties, DispatchAssumption DEF Seqs
<1>2. Later(inbox, box)
  BY <1>1 DEF Later
<1>3. ASSUME NEW t \in 1..Len(inbox), t # s
      PROVE  /\ box[t] = inbox[t]
             /\ tasks[<<"root", t>>] = task[<<"root", t>>]
             /\ tasks[<<"memory", t>>] = task[<<"memory", t>>]
  <2>1. <<"root", t>> \in TaskId /\ <<"memory", t>> \in TaskId
    BY <1>1, TaskIds
  <2>2. <<"root", t>>[2] = t /\ <<"memory", t>>[2] = t
    OBVIOUS
  <2> QED  BY <1>3, <2>1, <2>2
<1>4. ASSUME NEW t \in 1..Len(box)
      PROVE  RowOK(box[t], tasks[<<"root", t>>], tasks[<<"memory", t>>])
  <2>1. CASE t = s
    BY <2>1
  <2>2. CASE t # s
    BY <1>0, <1>3, <2>2 DEF RowsOK
  <2> QED  BY <2>1, <2>2
<1>5. ASSUME NEW x \in TaskId, tasks[x] # "none"
      PROVE  x[2] <= Len(box)
  <2>1. CASE x[2] = s
    BY <1>1, <2>1
  <2>2. CASE x[2] # s
    BY <1>0, <1>5, <2>2 DEF RowsOK
  <2> QED  BY <2>1, <2>2
<1>6. RowsOK(box, tasks)
  BY <1>4, <1>5 DEF RowsOK
<1>7. ASSUME NEW t \in 1..Len(box),
             tasks[<<"root", t>>] \in {"queued", "running", "completed"}
      PROVE  Passed(box, box[t].kind, t)
  <2>1. box[t].kind = inbox[t].kind
    BY <1>3
  <2>2. task[<<"root", t>>] \in {"queued", "running", "completed"}
    BY <1>3, <1>7
  <2>3. Passed(inbox, inbox[t].kind, t)
    BY <1>0, <2>2 DEF ReleasedOK
  <2>4. \A e \in 1..t-1 :
          /\ inbox[e].note_status \in Finished => box[e].note_status \in Finished
          /\ inbox[e].memory_status \in Finished => box[e].memory_status \in Finished
    BY <1>1, <1>2 DEF Later
  <2> QED  BY <2>1, <2>3, <2>4 DEF Passed
<1>8. ReleasedOK(box, tasks)
  BY <1>7 DEF ReleasedOK
<1> QED  BY <1>2, <1>6, <1>8

-----------------------------------------------------------------------------
(* What every step that keeps the snapshots of the others has to show.      *)
LEMMA Preserved ==
  ASSUME IInv,
         inbox' \in Seq(Message), Len(inbox') <= MaxSeq, task' \in TaskRows,
         space' \in Space, overlapped' \in BOOLEAN,
         Later(inbox, inbox'),
         \A s \in 1..Len(inbox) : inbox'[s].kind = inbox[s].kind,
         RowsOK(inbox', task'), ReleasedOK(inbox', task'), SoundFor(space', inbox'),
         DOMAIN flight' = TaskId,
         \A x \in TaskId : flight'[x] = flight[x] \/ flight'[x] = NoFlight,
         recovering' \subseteq recovering,
         ~overlapped' => ExactFor(space', inbox') /\ Unreached(space', inbox', task')
  PROVE  IInv'
<1>1. Types'
  BY DEF Types
<1>2. Snapshots'
  <2> SUFFICES ASSUME NEW x \in TaskId, flight'[x] # NoFlight
               PROVE  /\ flight'[x] \in FLIGHT
                      /\ x[2] \in 1..Len(flight'[x].inbox)
                      /\ SoundFor(flight'[x].space, flight'[x].inbox)
                      /\ Later(flight'[x].inbox, inbox')
    BY DEF Snapshots
  <2>1. flight'[x] = flight[x]
    OBVIOUS
  <2>2. /\ flight[x] \in FLIGHT /\ x[2] \in 1..Len(flight[x].inbox)
        /\ SoundFor(flight[x].space, flight[x].inbox) /\ Later(flight[x].inbox, inbox)
    BY <2>1 DEF IInv, Snapshots
  <2>3. flight[x].inbox \in Seq(Message) /\ inbox \in Seq(Message)
    BY <2>2 DEF FLIGHT, IInv, Types
  <2>4. Later(flight[x].inbox, inbox')
    BY <2>2, <2>3, LaterTransitive
  <2> QED  BY <2>1, <2>2, <2>4
<1>3. Recovering'
  <2>1. Len(inbox) \in Nat /\ Len(inbox') \in Nat /\ Len(inbox) <= Len(inbox')
    BY LenProperties DEF Later, IInv, Types
  <2> QED  BY <2>1 DEF IInv, Recovering
<1> QED  BY <1>1, <1>2, <1>3 DEF IInv

(* Advance, then release.                                                   *)
LEMMA SettleStep ==
  ASSUME IInv, NEW box, NEW tasks, NEW sp, Settle(box, tasks, sp),
         box \in Seq(Message), Len(box) <= MaxSeq, tasks \in TaskRows, sp \in Space,
         Later(inbox, box),
         \A s \in 1..Len(inbox) : box[s].kind = inbox[s].kind,
         RowsOK(box, tasks), ReleasedOK(box, tasks),
         sp.note_watermark = space.note_watermark,
         sp.memory_watermark = space.memory_watermark,
         flight' = flight, overlapped' = overlapped, recovering' \subseteq recovering
  PROVE  IInv'
<1> DEFINE wm == Progress(sp, box)
           act == Activated(tasks, box, wm, TaskId)
<1>1. inbox' = box /\ space' = wm /\ task' = act
  BY DEF Settle
<1>2. SoundFor(sp, box)
  BY SoundLater DEF IInv, Types
<1>3. wm \in Space /\ SoundFor(wm, box) /\ ExactFor(wm, box)
  BY <1>2, ProgressIsExact
<1> HIDE DEF wm
<1>4. /\ act \in TaskRows /\ RowsOK(box, act) /\ ReleasedOK(box, act)
      /\ Unreached(wm, box, act)
  BY <1>3, Releasing
<1> HIDE DEF act
<1>5. overlapped \in BOOLEAN /\ DOMAIN flight = TaskId
  BY DEF IInv, Types
<1> QED  BY <1>1, <1>3, <1>4, <1>5, Preserved

(* A step of the tasks of one message that leaves the space alone.          *)
LEMMA TaskStep ==
  ASSUME IInv, NEW s \in 1..Len(inbox), UNCHANGED <<inbox, space, recovering, overlapped>>,
         task' \in TaskRows, \A x \in TaskId : x[2] # s => task'[x] = task[x],
         RowOK(inbox[s], task'[<<"root", s>>], task'[<<"memory", s>>]),
         task'[<<"root", s>>] \in {"queued", "running", "completed"}
           => task[<<"root", s>>] \in {"queued", "running", "completed"},
         task'[<<"root", s>>] = "blocked" => task[<<"root", s>>] = "blocked",
         DOMAIN flight' = TaskId,
         \A x \in TaskId : flight'[x] = flight[x] \/ flight'[x] = NoFlight
  PROVE  IInv'
<1>1. /\ inbox \in Seq(Message) /\ Len(inbox) <= MaxSeq /\ task \in TaskRows
      /\ space \in Space /\ overlapped \in BOOLEAN /\ DOMAIN flight = TaskId
      /\ RowsOK(inbox, task) /\ ReleasedOK(inbox, task) /\ SoundFor(space, inbox)
  BY DEF IInv, Types
<1>2. Later(inbox, inbox) /\ RowsOK(inbox, task') /\ ReleasedOK(inbox, task')
  BY <1>1, OneMessage
<1>3. Unreached(space, inbox, task) => Unreached(space, inbox, task')
  <2> SUFFICES ASSUME Unreached(space, inbox, task), NEW t \in 1..Len(inbox),
                      task'[<<"root", t>>] = "blocked"
               PROVE  ~Reached(space, inbox[t].kind, t)
    BY DEF Unreached
  <2>1. t \in Seqs
    BY <1>1, LenProperties, DispatchAssumption DEF Seqs
  <2>2. <<"root", t>> \in TaskId /\ <<"root", t>>[2] = t
    BY <2>1, TaskIds
  <2>3. task[<<"root", t>>] = "blocked"
    BY <2>2
  <2> QED  BY <2>3 DEF Unreached
<1>4. ~overlapped => ExactFor(space, inbox) /\ Unreached(space, inbox, task')
  BY <1>3 DEF IInv
<1> QED  BY <1>1, <1>2, <1>4, Preserved

(* A message arrives, its root task with it.                                *)
LEMMA Arrival ==
  ASSUME IInv, Len(inbox) < MaxSeq, NEW row \in Message, NEW tasks \in TaskRows,
         \A x \in TaskId : x # <<"root", Len(inbox) + 1>> => tasks[x] = task[x],
         RowOK(row, tasks[<<"root", Len(inbox) + 1>>], "none"),
         tasks[<<"root", Len(inbox) + 1>>] \in {"queued", "running", "completed"}
           => Reached(space, row.kind, Len(inbox) + 1)
  PROVE  /\ Append(inbox, row) \in Seq(Message)
         /\ Len(Append(inbox, row)) = Len(inbox) + 1 /\ Len(inbox) + 1 <= MaxSeq
         /\ Append(inbox, row)[Len(inbox) + 1] = row
         /\ \A s \in 1..Len(inbox) : Append(inbox, row)[s] = inbox[s]
         /\ Later(inbox, Append(inbox, row))
         /\ SoundFor(space, Append(inbox, row))
         /\ RowsOK(Append(inbox, row), tasks)
         /\ ReleasedOK(Append(inbox, row), tasks)
<1> DEFINE box == Append(inbox, row)
           n == Len(inbox) + 1
<1>1. /\ inbox \in Seq(Message) /\ task \in TaskRows /\ space \in Space
      /\ RowsOK(inbox, task) /\ ReleasedOK(inbox, task) /\ SoundFor(space, inbox)
  BY DEF IInv, Types
<1>2. Len(inbox) \in Nat /\ n \in Nat /\ n <= MaxSeq /\ n \in Seqs
  BY <1>1, LenProperties, DispatchAssumption DEF Seqs
<1>3. /\ box \in Seq(Message) /\ Len(box) = n /\ box[n] = row
      /\ \A s \in 1..Len(inbox) : box[s] = inbox[s]
  BY <1>1, AppendProperties
<1> HIDE DEF box
<1>4. Later(inbox, box)
  BY <1>2, <1>3 DEF Later
<1>5. SoundFor(space, box)
  BY <1>1, <1>3, <1>4, SoundLater
<1>6. <<"root", n>> \in TaskId /\ <<"memory", n>> \in TaskId
  BY <1>2, TaskIds
<1>7. tasks[<<"memory", n>>] = "none"
  <2>1. <<"memory", n>>[2] = n /\ <<"memory", n>> # <<"root", n>>
    OBVIOUS
  <2>2. task[<<"memory", n>>] = "none"
    BY <1>1, <1>2, <1>6, <2>1 DEF RowsOK
  <2> QED  BY <1>6, <2>1, <2>2
<1>8. ASSUME NEW s \in 1..Len(inbox)
      PROVE  /\ tasks[<<"root", s>>] = task[<<"root", s>>]
             /\ tasks[<<"memory", s>>] = task[<<"memory", s>>]
  <2>1. <<"root", s>> \in TaskId /\ <<"memory", s>> \in TaskId
    BY <1>2, TaskIds, DispatchAssumption DEF Seqs
  <2>2. <<"root", s>> # <<"root", n>> /\ <<"memory", s>> # <<"root", n>>
    BY <1>2
  <2> QED  BY <2>1, <2>2
<1>9. \A s \in 1..n : s = n \/ s \in 1..Len(inbox)
  BY <1>2
<1>10. ASSUME NEW s \in 1..n
       PROVE  RowOK(box[s], tasks[<<"root", s>>], tasks[<<"memory", s>>])
  <2>1. CASE s = n
    BY <1>3, <1>7, <2>1
  <2>2. CASE s \in 1..Len(inbox)
    BY <1>1, <1>3, <1>8, <2>2 DEF RowsOK
  <2> QED  BY <1>9, <2>1, <2>2
<1>11. ASSUME NEW x \in TaskId, tasks[x] # "none"
       PROVE  x[2] <= n
  <2>1. CASE x = <<"root", n>>
    BY <1>2, <2>1
  <2>2. CASE x # <<"root", n>>
    <3>1. task[x] # "none"
      BY <1>11, <2>2
    <3>2. x[2] <= Len(inbox) /\ x[2] \in Nat
      BY <1>1, <3>1, TaskIds, DispatchAssumption DEF RowsOK, Seqs
    <3> QED  BY <1>2, <3>2
  <2> QED  BY <2>1, <2>2
<1>12. RowsOK(box, tasks)
  BY <1>3, <1>10, <1>11 DEF RowsOK
<1>13. ASSUME NEW s \in 1..n, tasks[<<"root", s>>] \in {"queued", "running", "completed"}
       PROVE  Passed(box, box[s].kind, s)
  <2>1. CASE s = n
    <3>1. Reached(space, row.kind, n) /\ row.kind \in Kind
      BY <1>13, <2>1 DEF Message
    <3> QED  BY <1>1, <1>3, <1>5, <2>1, <3>1, ReachedPassed
  <2>2. CASE s \in 1..Len(inbox)
    <3>1. Passed(inbox, inbox[s].kind, s)
      BY <1>1, <1>8, <1>13, <2>2 DEF ReleasedOK
    <3>2. \A e \in 1..s-1 : box[e] = inbox[e]
      BY <1>2, <1>3, <2>2
    <3> QED  BY <1>3, <2>2, <3>1, <3>2 DEF Passed
  <2> QED  BY <1>9, <2>1, <2>2
<1>14. ReleasedOK(box, tasks)
  BY <1>3, <1>13 DEF ReleasedOK
<1> QED  BY <1>2, <1>3, <1>4, <1>5, <1>12, <1>14 DEF box

(* An arrival with open stages does not advance: the watermarks stay exact. *)
LEMMA OpenArrival ==
  ASSUME IInv, Len(inbox) < MaxSeq, NEW row \in Message, NEW tasks \in TaskRows,
         row.note_status \notin Finished, row.memory_status \notin Finished,
         \A x \in TaskId : x # <<"root", Len(inbox) + 1>> => tasks[x] = task[x],
         RowOK(row, tasks[<<"root", Len(inbox) + 1>>], "none"),
         tasks[<<"root", Len(inbox) + 1>>] \in {"queued", "running", "completed"}
           => Reached(space, row.kind, Len(inbox) + 1),
         tasks[<<"root", Len(inbox) + 1>>] = "blocked"
           => ~Reached(space, row.kind, Len(inbox) + 1),
         inbox' = Append(inbox, row), task' = tasks,
         UNCHANGED <<space, flight, recovering, overlapped>>
  PROVE  IInv'
<1> DEFINE box == Append(inbox, row)
           n == Len(inbox) + 1
<1>1. /\ inbox \in Seq(Message) /\ task \in TaskRows /\ space \in Space
      /\ overlapped \in BOOLEAN /\ DOMAIN flight = TaskId
  BY DEF IInv, Types
<1>2. /\ box \in Seq(Message) /\ Len(box) = n /\ n <= MaxSeq
      /\ box[n] = row /\ \A s \in 1..Len(inbox) : box[s] = inbox[s]
      /\ Later(inbox, box) /\ SoundFor(space, box)
      /\ RowsOK(box, tasks) /\ ReleasedOK(box, tasks)
  BY Arrival
<1> HIDE DEF box
<1>3. Len(inbox) \in Nat /\ DOMAIN inbox = 1..Len(inbox) /\ DOMAIN box = 1..n
  BY <1>1, <1>2, LenProperties
<1>4. ASSUME ~overlapped
      PROVE  ExactFor(space, box) /\ Unreached(space, box, tasks)
  <2>1. ExactFor(space, inbox) /\ Unreached(space, inbox, task)
    BY <1>4 DEF IInv
  <2>2. n \in NoteOpen(box) /\ n \in MemoryOpen(box)
    BY <1>2, <1>3 DEF NoteOpen, MemoryOpen
  <2>3. NoteOpen(inbox) \subseteq NoteOpen(box) /\ MemoryOpen(inbox) \subseteq MemoryOpen(box)
    BY <1>2, <1>3 DEF NoteOpen, MemoryOpen
  <2>4. ExactFor(space, box)
    BY <2>1, <2>2, <2>3 DEF ExactFor
  <2>5. ASSUME NEW s \in 1..n, tasks[<<"root", s>>] = "blocked"
        PROVE  ~Reached(space, box[s].kind, s)
    <3>1. CASE s = n
      BY <1>2, <2>5, <3>1
    <3>2. CASE s \in 1..Len(inbox)
      <4>1. <<"root", s>> \in TaskId /\ <<"root", s>> # <<"root", n>>
        <5>1. s \in Seqs /\ s # n
          BY <1>2, <1>3, <3>2, DispatchAssumption DEF Seqs
        <5> QED  BY <5>1, TaskIds
      <4>2. task[<<"root", s>>] = "blocked"
        BY <2>5, <4>1
      <4> QED  BY <1>2, <2>1, <3>2, <4>2 DEF Unreached
    <3> QED  BY <1>3, <3>1, <3>2
  <2> QED  BY <1>2, <2>4, <2>5 DEF Unreached
<1>5. inbox' = box
  BY DEF box
<1> QED  BY <1>1, <1>2, <1>4, <1>5, Preserved

-----------------------------------------------------------------------------
(* The operations, one by one.                                              *)
LEMMA ReceiveStep ==
  ASSUME IInv, NEW kind \in Kind, receive_command(kind)
  PROVE  IInv'
<1> DEFINE n == Len(inbox) + 1
           stage == IF kind \in Ingest THEN "pending" ELSE "completed"
           row == [kind |-> kind, note_status |-> stage,
                   memory_status |-> stage, status |-> "pending"]
           born == IF Reached(space, kind, n) THEN "queued" ELSE "blocked"
           tasks == [task EXCEPT ![<<"root", n>>] = born]
<1>1. /\ Len(inbox) < MaxSeq /\ kind # "sensitive"
      /\ UNCHANGED <<flight, recovering, overlapped>>
      /\ kind \in Ingest => inbox' = Append(inbox, row) /\ task' = tasks /\ UNCHANGED space
      /\ kind \notin Ingest => Settle(Append(inbox, row), tasks, space)
  BY DEF receive_command, Arrives
<1>2. inbox \in Seq(Message) /\ task \in TaskRows /\ space \in Space
  BY DEF IInv, Types
<1>3. <<"root", n>> \in TaskId
  <2>1. n \in Seqs
    BY <1>1, <1>2, LenProperties, DispatchAssumption DEF Seqs
  <2> QED  BY <2>1, TaskIds
<1>4. row \in Message /\ row.kind = kind
  BY DEF Message, Kind, Finished
<1>5. born \in {"queued", "blocked"} /\ (born = "queued" <=> Reached(space, kind, n))
  OBVIOUS
<1> HIDE DEF born
<1>6. /\ tasks \in TaskRows /\ tasks[<<"root", n>>] = born
      /\ \A x \in TaskId : x # <<"root", n>> => tasks[x] = task[x]
  BY <1>2, <1>3, <1>5 DEF TaskRows
<1>7. RowOK(row, born, "none")
  BY <1>1, <1>5 DEF RowOK, GivenUp, Kind, Ingest, Finished, Settled
<1>8. CASE kind \in Ingest
  <2>1. row.note_status \notin Finished /\ row.memory_status \notin Finished
    BY <1>8 DEF Finished
  <2> HIDE DEF row, tasks
  <2> QED  BY <1>1, <1>4, <1>5, <1>6, <1>7, <1>8, <2>1, OpenArrival
<1>9. CASE kind \notin Ingest
  <2> HIDE DEF row, tasks
  <2> DEFINE box == Append(inbox, row)
  <2>1. /\ box \in Seq(Message) /\ Len(box) <= MaxSeq
        /\ \A s \in 1..Len(inbox) : box[s].kind = inbox[s].kind
        /\ Later(inbox, box) /\ RowsOK(box, tasks) /\ ReleasedOK(box, tasks)
    BY <1>1, <1>4, <1>5, <1>6, <1>7, Arrival
  <2> HIDE DEF box
  <2>2. Settle(box, tasks, space)
    BY <1>1, <1>9 DEF box
  <2> QED  BY <1>1, <1>2, <1>6, <2>1, <2>2, SettleStep
<1> QED  BY <1>8, <1>9

LEMMA AppendSensitiveStep ==
  ASSUME IInv, append_sensitive
  PROVE  IInv'
<1> DEFINE n == Len(inbox) + 1
           row == [kind |-> "sensitive", note_status |-> "pending",
                   memory_status |-> "pending", status |-> "blocked_sensitive"]
<1>1. /\ Len(inbox) < MaxSeq /\ inbox' = Append(inbox, row) /\ task' = task
      /\ UNCHANGED <<space, flight, recovering, overlapped>>
  BY DEF append_sensitive, Arrives
<1>2. inbox \in Seq(Message) /\ task \in TaskRows /\ RowsOK(inbox, task)
  BY DEF IInv, Types
<1>3. Len(inbox) \in Nat /\ <<"root", n>> \in TaskId /\ <<"root", n>>[2] = n
  <2>1. Len(inbox) \in Nat
    BY <1>2, LenProperties
  <2>2. n \in Seqs
    BY <1>1, <2>1, DispatchAssumption DEF Seqs
  <2> QED  BY <2>1, <2>2, TaskIds
<1>4. task[<<"root", n>>] = "none"
  BY <1>2, <1>3 DEF RowsOK
<1>5. /\ row \in Message /\ row.note_status \notin Finished
      /\ row.memory_status \notin Finished
  BY DEF Message, Kind, Finished
<1>6. RowOK(row, "none", "none")
  BY DEF RowOK, GivenUp, Ingest, Finished, Settled
<1> HIDE DEF row
<1> QED  BY <1>1, <1>2, <1>4, <1>5, <1>6, OpenArrival

(* skip_inbox_record, of a text rejected as sensitive or of a slash ingest. *)
LEMMA SkipStep ==
  ASSUME IInv, NEW s \in 1..Len(inbox), NEW final_status, NEW cancel_root_task \in BOOLEAN,
         \/ /\ inbox[s].kind = "sensitive" /\ final_status = "blocked_sensitive"
            /\ ~cancel_root_task
         \/ inbox[s].kind \in Ingest /\ final_status = "skipped_command" /\ cancel_root_task,
         skip_inbox_record(s, final_status, cancel_root_task),
         flight' = flight, overlapped' = overlapped, recovering' \subseteq recovering
  PROVE  IInv'
<1> DEFINE root == <<"root", s>>
           extract == <<"memory", s>>
           row == [inbox[s] EXCEPT !.note_status = "completed",
                                   !.memory_status = "completed",
                                   !.status = final_status]
           box == [inbox EXCEPT ![s] = row]
           tasks == IF cancel_root_task /\ task[root] \in {"blocked", "queued"}
                    THEN [task EXCEPT ![root] = "cancelled"] ELSE task
<1>1. /\ inbox \in Seq(Message) /\ Len(inbox) <= MaxSeq /\ task \in TaskRows
      /\ space \in Space /\ RowsOK(inbox, task) /\ ReleasedOK(inbox, task)
  BY DEF IInv, Types
<1>2. inbox[s] \in Message
  BY <1>1, LenProperties
<1>3. /\ row \in Message /\ row.kind = inbox[s].kind /\ row.status = final_status
      /\ row.note_status = "completed" /\ row.memory_status = "completed"
  BY <1>2 DEF Message, Finished
<1>4. [inbox EXCEPT ![s].note_status = "completed", ![s].memory_status = "completed",
                    ![s].status = final_status] = box
  BY <1>1, <1>2, LenProperties DEF Message
<1>5. Settle(box, tasks, space)
  BY <1>4 DEF skip_inbox_record
<1> HIDE DEF row
<1>6. /\ box \in Seq(Message) /\ Len(box) = Len(inbox) /\ box[s] = row
      /\ \A t \in 1..Len(inbox) : t # s => box[t] = inbox[t]
  BY <1>1, <1>3, ExceptSeq
<1> HIDE DEF box
<1>7. root \in TaskId /\ extract \in TaskId /\ extract # root /\ root[2] = s
  BY <1>1, LenProperties, TaskIds, DispatchAssumption DEF Seqs
<1>8. /\ tasks \in TaskRows
      /\ \A x \in TaskId : x # root => tasks[x] = task[x]
      /\ tasks[root] = IF cancel_root_task /\ task[root] \in {"blocked", "queued"}
                       THEN "cancelled" ELSE task[root]
  BY <1>1, <1>7 DEF TaskRows, Settled
<1> HIDE DEF tasks
<1>9. RowOK(row, tasks[root], tasks[extract])
  <2>1. tasks[extract] = task[extract]
    BY <1>7, <1>8
  <2>2. RowOK(inbox[s], task[root], task[extract])
    BY <1>1 DEF RowsOK
  <2>3. CASE inbox[s].kind = "sensitive" /\ final_status = "blocked_sensitive"
             /\ tasks[root] = task[root]
    BY <1>3, <2>1, <2>2, <2>3 DEF RowOK, Ingest, Finished
  <2>4. CASE inbox[s].kind \in Ingest /\ final_status = "skipped_command"
    BY <1>3, <1>8, <2>1, <2>2, <2>4 DEF RowOK, GivenUp, Ingest, Finished
  <2> QED  BY <1>8, <2>3, <2>4
<1>10. /\ \A x \in TaskId : x[2] # s => tasks[x] = task[x]
       /\ tasks[root] \in {"queued", "running", "completed"}
          => task[root] \in {"queued", "running", "completed"}
  BY <1>7, <1>8
<1>11. Later(inbox, box) /\ RowsOK(box, tasks) /\ ReleasedOK(box, tasks)
  <2>1. box[s].note_status \in Finished /\ box[s].memory_status \in Finished
    BY <1>3, <1>6 DEF Finished
  <2>2. tasks \in TaskRows /\ box[s].kind = inbox[s].kind
    BY <1>3, <1>6, <1>8
  <2>3. RowOK(box[s], tasks[<<"root", s>>], tasks[<<"memory", s>>])
    BY <1>6, <1>9
  <2>4. /\ box \in Seq(Message) /\ Len(box) = Len(inbox)
        /\ \A t \in 1..Len(inbox) : t # s => box[t] = inbox[t]
    BY <1>6
  <2> QED  BY <1>10, <2>1, <2>2, <2>3, <2>4, OneMessage
<1>12. \A t \in 1..Len(inbox) : box[t].kind = inbox[t].kind
  BY <1>3, <1>6
<1> QED  BY <1>1, <1>5, <1>6, <1>8, <1>11, <1>12, SettleStep

LEMMA CompleteSensitiveStep ==
  ASSUME IInv, NEW s \in DOMAIN inbox, complete_blocked_sensitive_inbox(s)
  PROVE  IInv'
<1>1. s \in 1..Len(inbox)
  BY LenProperties DEF IInv, Types
<1>2. /\ inbox[s].status = "blocked_sensitive"
      /\ skip_inbox_record(s, "blocked_sensitive", FALSE)
      /\ UNCHANGED <<flight, recovering, overlapped>>
  BY DEF complete_blocked_sensitive_inbox
<1>3. inbox[s].kind = "sensitive"
  BY <1>1, <1>2 DEF IInv, RowsOK, RowOK
<1> QED  BY <1>1, <1>2, <1>3, SkipStep

LEMMA RecoverSkipStep ==
  ASSUME IInv, NEW s \in DOMAIN inbox, recover_skip(s)
  PROVE  IInv'
<1>1. s \in recovering /\ s \in 1..Len(inbox) /\ inbox[s].kind \in {"slash", "sensitive"}
  BY DEF recover_skip, IInv, Recovering
<1>2. recovering' \subseteq recovering /\ flight' = flight /\ overlapped' = overlapped
  BY DEF recover_skip
<1>3. CASE inbox[s].kind = "sensitive"
  <2>1. skip_inbox_record(s, "blocked_sensitive", FALSE)
    BY <1>3 DEF recover_skip
  <2> QED  BY <1>1, <1>2, <1>3, <2>1, SkipStep
<1>4. CASE inbox[s].kind = "slash"
  <2>1. skip_inbox_record(s, "skipped_command", TRUE)
    BY <1>4 DEF recover_skip
  <2>2. inbox[s].kind \in Ingest
    BY <1>4 DEF Ingest
  <2> QED  BY <1>1, <1>2, <2>1, <2>2, SkipStep
<1> QED  BY <1>1, <1>3, <1>4

(* A step that leaves the space, its messages and its tasks alone.          *)
LEMMA BystanderStep ==
  ASSUME IInv, UNCHANGED <<inbox, task, space, overlapped>>,
         DOMAIN flight' = TaskId, Snapshots', Recovering'
  PROVE  IInv'
<1>1. Types'
  BY DEF IInv, Types
<1> QED  BY <1>1 DEF IInv

LEMMA RecoverSelectStep ==
  ASSUME IInv, recover_select
  PROVE  IInv'
<1>1. /\ UNCHANGED <<inbox, task, space, flight, overlapped>>
      /\ recovering' = {s \in DOMAIN inbox :
          \/ inbox[s].status = "blocked_sensitive" /\ inbox[s].note_status = "pending"
          \/ /\ inbox[s].status = "pending"
             /\ inbox[s].kind = "slash"
             /\ task[<<"root", s>>] \in {"blocked", "queued"}}
  BY DEF recover_select
<1>2. DOMAIN inbox = 1..Len(inbox)
  BY LenProperties DEF IInv, Types
<1>3. Recovering'
  <2> SUFFICES ASSUME NEW s \in recovering'
               PROVE  s \in 1..Len(inbox) /\ inbox[s].kind \in {"slash", "sensitive"}
    BY <1>1 DEF Recovering
  <2>1. s \in 1..Len(inbox) /\ (inbox[s].status = "blocked_sensitive" \/ inbox[s].kind = "slash")
    BY <1>1, <1>2
  <2>2. inbox[s].status = "blocked_sensitive" => inbox[s].kind = "sensitive"
    BY <2>1 DEF IInv, RowsOK, RowOK
  <2> QED  BY <2>1, <2>2
<1>4. Snapshots' /\ DOMAIN flight' = TaskId
  BY <1>1 DEF IInv, Snapshots, Types
<1> QED  BY <1>1, <1>3, <1>4, BystanderStep

(* The task of a message, and the message it belongs to.                    *)
LEMMA TaskOf ==
  ASSUME IInv, NEW x \in TaskId, task[x] # "none"
  PROVE  /\ x[2] \in 1..Len(inbox) /\ inbox[x[2]] \in Message
         /\ x = <<"root", x[2]>> \/ x = <<"memory", x[2]>>
         /\ <<"root", x[2]>> \in TaskId /\ <<"memory", x[2]>> \in TaskId
         /\ RowOK(inbox[x[2]], task[<<"root", x[2]>>], task[<<"memory", x[2]>>])
<1>1. inbox \in Seq(Message) /\ RowsOK(inbox, task)
  BY DEF IInv, Types
<1>2. x[2] \in Seqs /\ (x = <<"root", x[2]>> \/ x = <<"memory", x[2]>>)
  BY TaskIds
<1>3. Len(inbox) \in Nat /\ x[2] <= Len(inbox)
  BY <1>1, LenProperties DEF RowsOK
<1>4. x[2] \in 1..Len(inbox)
  BY <1>2, <1>3, DispatchAssumption DEF Seqs
<1>5. inbox[x[2]] \in Message
  BY <1>1, <1>4, LenProperties
<1> QED  BY <1>1, <1>2, <1>4, <1>5, TaskIds DEF RowsOK

(* A task set to v, seen from its message.                                  *)
LEMMA SetTask ==
  ASSUME IInv, NEW x \in TaskId, NEW v \in Settled \cup {"blocked", "queued", "running"}
  PROVE  /\ [task EXCEPT ![x] = v] \in TaskRows
         /\ \A y \in TaskId : [task EXCEPT ![x] = v][y] = IF y = x THEN v ELSE task[y]
         /\ \A y \in TaskId : y[2] # x[2] => [task EXCEPT ![x] = v][y] = task[y]
BY DEF IInv, Types, TaskRows

LEMMA ClaimStep ==
  ASSUME IInv, NEW x \in TaskId, claim(x)
  PROVE  IInv'
<1> DEFINE s == x[2]
           tasks == [task EXCEPT ![x] = "running"]
<1>1. /\ task[x] = "queued" /\ task' = tasks
      /\ UNCHANGED <<inbox, space, flight, recovering, overlapped>>
  BY DEF claim
<1>2. /\ s \in 1..Len(inbox) /\ (x = <<"root", s>> \/ x = <<"memory", s>>)
      /\ <<"root", s>> \in TaskId /\ <<"memory", s>> \in TaskId
      /\ RowOK(inbox[s], task[<<"root", s>>], task[<<"memory", s>>])
  BY <1>1, TaskOf
<1>3. /\ tasks \in TaskRows
      /\ \A y \in TaskId : tasks[y] = IF y = x THEN "running" ELSE task[y]
      /\ \A y \in TaskId : y[2] # s => tasks[y] = task[y]
  BY SetTask
<1> HIDE DEF tasks, s
<1>4. RowOK(inbox[s], tasks[<<"root", s>>], tasks[<<"memory", s>>])
  <2>1. CASE x = <<"root", s>>
    <3>1. tasks[<<"root", s>>] = "running" /\ tasks[<<"memory", s>>] = task[<<"memory", s>>]
      BY <1>2, <1>3, <2>1
    <3> QED  BY <1>1, <1>2, <2>1, <3>1 DEF RowOK, GivenUp, Settled
  <2>2. CASE x = <<"memory", s>>
    <3>1. tasks[<<"memory", s>>] = "running" /\ tasks[<<"root", s>>] = task[<<"root", s>>]
      BY <1>2, <1>3, <2>2
    <3> QED  BY <1>1, <1>2, <2>2, <3>1 DEF RowOK, GivenUp, Settled
  <2> QED  BY <1>2, <2>1, <2>2
<1>5. /\ tasks[<<"root", s>>] \in {"queued", "running", "completed"}
         => task[<<"root", s>>] \in {"queued", "running", "completed"}
      /\ tasks[<<"root", s>>] = "blocked" => task[<<"root", s>>] = "blocked"
  BY <1>1, <1>2, <1>3
<1>6. DOMAIN flight = TaskId
  BY DEF IInv, Types
<1> QED  BY <1>1, <1>2, <1>3, <1>4, <1>5, <1>6, TaskStep

LEMMA RequeueStep ==
  ASSUME IInv, NEW x \in TaskId, requeue(x)
  PROVE  IInv'
<1> DEFINE s == x[2]
           tasks == [task EXCEPT ![x] = "queued"]
<1>1. /\ task[x] = "running" /\ task' = tasks
      /\ flight' = [flight EXCEPT ![x] = NoFlight]
      /\ UNCHANGED <<inbox, space, recovering, overlapped>>
  BY DEF requeue
<1>2. /\ s \in 1..Len(inbox) /\ (x = <<"root", s>> \/ x = <<"memory", s>>)
      /\ <<"root", s>> \in TaskId /\ <<"memory", s>> \in TaskId
      /\ RowOK(inbox[s], task[<<"root", s>>], task[<<"memory", s>>])
  BY <1>1, TaskOf
<1>3. /\ tasks \in TaskRows
      /\ \A y \in TaskId : tasks[y] = IF y = x THEN "queued" ELSE task[y]
      /\ \A y \in TaskId : y[2] # s => tasks[y] = task[y]
  BY SetTask
<1> HIDE DEF tasks, s
<1>4. RowOK(inbox[s], tasks[<<"root", s>>], tasks[<<"memory", s>>])
  <2>1. CASE x = <<"root", s>>
    <3>1. tasks[<<"root", s>>] = "queued" /\ tasks[<<"memory", s>>] = task[<<"memory", s>>]
      BY <1>2, <1>3, <2>1
    <3> QED  BY <1>1, <1>2, <2>1, <3>1 DEF RowOK, GivenUp, Settled
  <2>2. CASE x = <<"memory", s>>
    <3>1. tasks[<<"memory", s>>] = "queued" /\ tasks[<<"root", s>>] = task[<<"root", s>>]
      BY <1>2, <1>3, <2>2
    <3> QED  BY <1>1, <1>2, <2>2, <3>1 DEF RowOK, GivenUp, Settled
  <2> QED  BY <1>2, <2>1, <2>2
<1>5. /\ tasks[<<"root", s>>] \in {"queued", "running", "completed"}
         => task[<<"root", s>>] \in {"queued", "running", "completed"}
      /\ tasks[<<"root", s>>] = "blocked" => task[<<"root", s>>] = "blocked"
  BY <1>1, <1>2, <1>3
<1>6. /\ DOMAIN flight' = TaskId
      /\ \A y \in TaskId : flight'[y] = flight[y] \/ flight'[y] = NoFlight
  BY <1>1 DEF IInv, Types
<1> QED  BY <1>1, <1>2, <1>3, <1>4, <1>5, <1>6, TaskStep

LEMMA IngestStep ==
  ASSUME IInv, NEW s \in DOMAIN inbox, handle_ingest(s)
  PROVE  IInv'
<1> DEFINE root == <<"root", s>>
           extract == <<"memory", s>>
           tasks == [task EXCEPT ![extract] = "queued"]
<1>1. /\ task[root] = "running" /\ inbox[s].kind \in Ingest /\ task[extract] = "none"
      /\ task' = tasks /\ UNCHANGED <<inbox, space, flight, recovering, overlapped>>
  BY DEF handle_ingest
<1>2. s \in 1..Len(inbox) /\ s \in Seqs
  BY LenProperties, DispatchAssumption DEF IInv, Types, Seqs
<1>3. root \in TaskId /\ extract \in TaskId /\ extract # root /\ extract[2] = s
  BY <1>2, TaskIds
<1>4. /\ tasks \in TaskRows /\ tasks[extract] = "queued" /\ tasks[root] = task[root]
      /\ \A y \in TaskId : y[2] # s => tasks[y] = task[y]
  BY <1>3, SetTask
<1> HIDE DEF tasks
<1>5. RowOK(inbox[s], tasks[root], tasks[extract])
  <2>1. RowOK(inbox[s], "running", "none")
    BY <1>1, <1>2 DEF IInv, RowsOK
  <2>2. RowOK(inbox[s], "running", "queued")
    BY <1>1, <2>1 DEF RowOK, GivenUp, Settled
  <2> QED  BY <1>1, <1>4, <2>2
<1>6. DOMAIN flight = TaskId
  BY DEF IInv, Types
<1> QED  BY <1>1, <1>2, <1>4, <1>5, <1>6, TaskStep

LEMMA BeginCompleteStep ==
  ASSUME IInv, NEW x \in TaskId, begin_complete(x)
  PROVE  IInv'
<1> DEFINE snap == [inbox |-> inbox, space |-> space, blocked |-> Blocked]
<1>1. /\ task[x] = "running" /\ flight' = [flight EXCEPT ![x] = snap]
      /\ UNCHANGED <<inbox, task, space, recovering, overlapped>>
  BY DEF begin_complete
<1>2. DOMAIN flight' = TaskId /\ \A y \in TaskId : flight'[y] = IF y = x THEN snap ELSE flight[y]
  BY <1>1 DEF IInv, Types
<1>3. /\ inbox \in Seq(Message) /\ space \in Space /\ SoundFor(space, inbox)
      /\ Blocked \in SUBSET TaskId
  BY DEF IInv, Types, Blocked
<1>4. x[2] \in 1..Len(inbox)
  BY <1>1, TaskOf
<1>5. Later(inbox, inbox)
  BY <1>3, LenProperties DEF Later
<1>6. snap \in FLIGHT /\ snap.inbox = inbox /\ snap.space = space
  BY <1>3 DEF FLIGHT
<1> HIDE DEF snap
<1>7. Snapshots'
  <2> SUFFICES ASSUME NEW y \in TaskId, flight'[y] # NoFlight
               PROVE  /\ flight'[y] \in FLIGHT
                      /\ y[2] \in 1..Len(flight'[y].inbox)
                      /\ SoundFor(flight'[y].space, flight'[y].inbox)
                      /\ Later(flight'[y].inbox, inbox)
    BY <1>1 DEF Snapshots
  <2>1. CASE y = x
    BY <1>2, <1>3, <1>4, <1>5, <1>6, <2>1
  <2>2. CASE y # x
    BY <1>2, <2>2 DEF IInv, Snapshots
  <2> QED  BY <2>1, <2>2
<1>8. Recovering'
  BY <1>1 DEF IInv, Recovering
<1> QED  BY <1>1, <1>2, <1>7, <1>8, BystanderStep

(* A dead task: the stages it leaves open are failed, unless the row was    *)
(* finalised before.                                                        *)
LEMMA FailStep ==
  ASSUME IInv, NEW x \in TaskId, fail_task(x)
  PROVE  IInv'
<1> DEFINE s == x[2]
           memory == x[1] = "memory"
           row == FinalizeFailed(s, memory).row
           sp == FinalizeFailed(s, memory).space
           box == [inbox EXCEPT ![s] = row]
           tasks == [task EXCEPT ![x] = "dead_letter"]
           open == inbox[s].status \notin {"processed", "failed"}
<1>1. /\ task[x] = "running" /\ Settle(box, tasks, sp)
      /\ UNCHANGED <<flight, recovering, overlapped>>
  BY DEF fail_task
<1>2. /\ s \in 1..Len(inbox) /\ inbox[s] \in Message
      /\ x = <<"root", s>> \/ x = <<"memory", s>>
      /\ <<"root", s>> \in TaskId /\ <<"memory", s>> \in TaskId
      /\ RowOK(inbox[s], task[<<"root", s>>], task[<<"memory", s>>])
  BY <1>1, TaskOf
<1>3. /\ inbox \in Seq(Message) /\ Len(inbox) <= MaxSeq /\ space \in Space
      /\ Len(inbox) \in Nat
  BY LenProperties DEF IInv, Types
<1>4. /\ tasks \in TaskRows
      /\ \A y \in TaskId : tasks[y] = IF y = x THEN "dead_letter" ELSE task[y]
      /\ \A y \in TaskId : y[2] # s => tasks[y] = task[y]
  BY SetTask DEF Settled
<1> HIDE DEF tasks
<1>5. /\ row.kind = inbox[s].kind
      /\ row.note_status = IF open /\ inbox[s].note_status = "pending" THEN "failed"
                           ELSE inbox[s].note_status
      /\ row.memory_status = IF memory \/ (open /\ inbox[s].memory_status = "pending")
                             THEN "failed" ELSE inbox[s].memory_status
      /\ row.status = IF open THEN "failed" ELSE inbox[s].status
  BY DEF FinalizeFailed
<1>6. row \in Message
  <2>1. row = [kind |-> row.kind, note_status |-> row.note_status,
               memory_status |-> row.memory_status, status |-> row.status]
    BY DEF FinalizeFailed
  <2> HIDE DEF row
  <2> QED  BY <1>2, <1>5, <2>1 DEF Message, Finished
<1>7. /\ sp \in Space /\ sp.note_watermark = space.note_watermark
      /\ sp.memory_watermark = space.memory_watermark
  <2>1. s \in 0..MaxSeq /\ space.processed_sequence_no \in 0..MaxSeq
    BY <1>2, <1>3, DispatchAssumption DEF Space
  <2>2. Max({space.processed_sequence_no, s}) \in 0..MaxSeq
    <3> HIDE DEF s
    <3> QED  BY <2>1, MaxOfTwo, DispatchAssumption
  <2> QED  BY <1>3, <2>1, <2>2 DEF FinalizeFailed, Space
<1> HIDE DEF row, sp
<1>8. /\ box \in Seq(Message) /\ Len(box) = Len(inbox) /\ box[s] = row
      /\ \A t \in 1..Len(inbox) : t # s => box[t] = inbox[t]
  BY <1>2, <1>3, <1>6, ExceptSeq
<1> HIDE DEF box
<1>9. /\ inbox[s].note_status \in Finished => box[s].note_status \in Finished
      /\ inbox[s].memory_status \in Finished => box[s].memory_status \in Finished
      /\ box[s].kind = inbox[s].kind
  BY <1>5, <1>8 DEF Finished
<1>10. /\ inbox[s].note_status \in {"pending"} \cup Finished
       /\ inbox[s].memory_status \in {"pending"} \cup Finished
  BY <1>2 DEF Message
<1>11. RowOK(box[s], tasks[<<"root", s>>], tasks[<<"memory", s>>])
  <2>1. CASE x = <<"root", s>>
    <3>1. tasks[<<"root", s>>] = "dead_letter" /\ tasks[<<"memory", s>>] = task[<<"memory", s>>]
      BY <1>2, <1>4, <2>1
    <3>2. ~memory
      BY <2>1
    <3> HIDE DEF s, memory
    <3> QED  BY <1>1, <1>2, <1>5, <1>8, <1>10, <2>1, <3>1, <3>2
             DEF RowOK, GivenUp, Settled, Finished, Ingest
  <2>2. CASE x = <<"memory", s>>
    <3>1. tasks[<<"memory", s>>] = "dead_letter" /\ tasks[<<"root", s>>] = task[<<"root", s>>]
      BY <1>2, <1>4, <2>2
    <3>2. memory
      BY <2>2
    <3> HIDE DEF s, memory
    <3> QED  BY <1>1, <1>2, <1>5, <1>8, <1>10, <2>2, <3>1, <3>2
             DEF RowOK, GivenUp, Settled, Finished, Ingest
  <2> QED  BY <1>2, <2>1, <2>2
<1>12. tasks[<<"root", s>>] \in {"queued", "running", "completed"}
         => task[<<"root", s>>] \in {"queued", "running", "completed"}
  BY <1>2, <1>4
<1>13. Later(inbox, box) /\ RowsOK(box, tasks) /\ ReleasedOK(box, tasks)
  <2> HIDE DEF s
  <2> QED  BY <1>2, <1>4, <1>8, <1>9, <1>11, <1>12, OneMessage
<1>14. \A t \in 1..Len(inbox) : box[t].kind = inbox[t].kind
  BY <1>8, <1>9
<1> QED  BY <1>1, <1>3, <1>4, <1>7, <1>8, <1>13, <1>14, SettleStep

(* The row a completion writes: only ever more stages finished, and the     *)
(* message with its tasks is in order.                                      *)
LEMMA CompletedRow ==
  ASSUME IInv, NEW x \in TaskId, task[x] = "running", NEW row,
         row = [kind |-> inbox[x[2]].kind,
                note_status |-> IF Outcome(x).note THEN "completed"
                                                   ELSE inbox[x[2]].note_status,
                memory_status |-> IF Outcome(x).memory THEN "completed"
                                                       ELSE inbox[x[2]].memory_status,
                status |-> IF Outcome(x).finalize
                              /\ inbox[x[2]].status \notin {"processed", "failed"}
                           THEN "processed" ELSE inbox[x[2]].status]
  PROVE  /\ row \in Message /\ row.kind = inbox[x[2]].kind
         /\ inbox[x[2]].note_status \in Finished => row.note_status \in Finished
         /\ inbox[x[2]].memory_status \in Finished => row.memory_status \in Finished
         /\ RowOK(row, [task EXCEPT ![x] = "completed"][<<"root", x[2]>>],
                       [task EXCEPT ![x] = "completed"][<<"memory", x[2]>>])
<1> DEFINE s == x[2]
           tasks == [task EXCEPT ![x] = "completed"]
           root == task[<<"root", s>>]
           extract == task[<<"memory", s>>]
           ingest == x[1] = "root" /\ inbox[s].kind \in Ingest
<1>1. /\ s \in 1..Len(inbox) /\ inbox[s] \in Message
      /\ x = <<"root", s>> \/ x = <<"memory", s>>
      /\ <<"root", s>> \in TaskId /\ <<"memory", s>> \in TaskId
      /\ RowOK(inbox[s], root, extract)
  BY TaskOf
<1>2. \A y \in TaskId : tasks[y] = IF y = x THEN "completed" ELSE task[y]
  BY SetTask DEF Settled
<1> HIDE DEF tasks
<1>3. /\ Outcome(x).note <=> ingest
      /\ Outcome(x).memory <=> (x[1] = "memory" \/ (ingest /\ extract = "none"))
      /\ Outcome(x).finalize <=> ~(ingest /\ extract # "none")
  BY DEF Outcome
<1>4. /\ row.kind = inbox[s].kind
      /\ row.note_status = IF Outcome(x).note THEN "completed" ELSE inbox[s].note_status
      /\ row.memory_status = IF Outcome(x).memory THEN "completed" ELSE inbox[s].memory_status
      /\ row.status = IF Outcome(x).finalize /\ inbox[s].status \notin {"processed", "failed"}
                      THEN "processed" ELSE inbox[s].status
      /\ row = [kind |-> row.kind, note_status |-> row.note_status,
                memory_status |-> row.memory_status, status |-> row.status]
  OBVIOUS
<1>5. row \in Message
  <2>1. /\ row.kind \in Kind /\ row.note_status \in {"pending"} \cup Finished
        /\ row.memory_status \in {"pending"} \cup Finished
        /\ row.status \in {"pending", "processed", "failed",
                           "blocked_sensitive", "skipped_command"}
    BY <1>1, <1>4 DEF Message, Finished
  <2> QED  BY <1>4, <2>1 DEF Message
<1>6. /\ inbox[s].note_status \in Finished => row.note_status \in Finished
      /\ inbox[s].memory_status \in Finished => row.memory_status \in Finished
  BY <1>4 DEF Finished
<1>7. RowOK(row, tasks[<<"root", s>>], tasks[<<"memory", s>>])
  <2>1. CASE x = <<"root", s>>
    <3>1. /\ tasks[<<"root", s>>] = "completed" /\ tasks[<<"memory", s>>] = extract
          /\ root = "running"
      BY <1>1, <1>2, <2>1
    <3>2. x[1] = "root" /\ x[1] # "memory"
      BY <2>1
    <3>3. CASE ~ingest
      <4>1. inbox[s].kind \notin Ingest
        BY <3>2, <3>3
      <4>2. row.note_status = inbox[s].note_status /\ row.memory_status = inbox[s].memory_status
        BY <1>3, <1>4, <3>2, <3>3
      <4>3. inbox[s].kind # "sensitive"
        BY <1>1, <3>1 DEF RowOK
      <4>4. row.status = "blocked_sensitive" => inbox[s].status = "blocked_sensitive"
        BY <1>4
      <4> HIDE DEF ingest, s, root, extract
      <4> QED  BY <1>1, <1>4, <3>1, <4>1, <4>2, <4>3, <4>4 DEF RowOK
    <3>4. CASE ingest /\ extract = "none"
      <4>1. /\ row.note_status = "completed" /\ row.memory_status = "completed"
            /\ row.kind \in Ingest
        BY <1>3, <1>4, <3>2, <3>4
      <4>2. row.status = "blocked_sensitive" => inbox[s].status = "blocked_sensitive"
        BY <1>4
      <4> HIDE DEF ingest, s, root, extract
      <4> QED  BY <1>1, <1>4, <3>1, <3>4, <4>1, <4>2
               DEF RowOK, GivenUp, Settled, Finished, Ingest
    <3>5. CASE ingest /\ extract # "none"
      <4>1. /\ row.note_status = "completed" /\ row.memory_status = inbox[s].memory_status
            /\ row.kind \in Ingest /\ row.status = inbox[s].status
        BY <1>3, <1>4, <3>2, <3>5
      <4>2. extract \in Settled \cup {"blocked", "queued", "running"}
        BY <1>1 DEF IInv, Types, TaskRows
      <4> HIDE DEF ingest, s, root, extract
      <4> QED  BY <1>1, <1>4, <3>1, <3>5, <4>1, <4>2
               DEF RowOK, GivenUp, Settled, Finished, Ingest
    <3> QED  BY <3>3, <3>4, <3>5
  <2>2. CASE x = <<"memory", s>>
    <3>1. /\ tasks[<<"memory", s>>] = "completed" /\ tasks[<<"root", s>>] = root
          /\ extract = "running"
      BY <1>1, <1>2, <2>2
    <3>2. x[1] = "memory" /\ x[1] # "root"
      BY <2>2
    <3>3. /\ row.note_status = inbox[s].note_status /\ row.memory_status = "completed"
          /\ row.status = IF inbox[s].status \notin {"processed", "failed"}
                          THEN "processed" ELSE inbox[s].status
      BY <1>3, <1>4, <3>2
    <3> HIDE DEF ingest, s, root, extract
    <3> QED  BY <1>1, <1>4, <3>1, <3>3 DEF RowOK, GivenUp, Settled, Finished, Ingest
  <2> QED  BY <1>1, <2>1, <2>2
<1> QED  BY <1>4, <1>5, <1>6, <1>7 DEF tasks

(* The completion statement.  Its progress is that of the snapshot with the *)
(* own row put in; as the inbox has only moved on since, it is sound for    *)
(* the inbox of now, and it is exact when the snapshot is the state of now. *)
LEMMA EndCompleteStep ==
  ASSUME IInv, NEW x \in TaskId, end_complete(x)
  PROVE  IInv'
<1> DEFINE s == x[2]
           out == Outcome(x)
           snap == flight[x]
           row == [kind |-> inbox[s].kind,
                   note_status |-> IF out.note THEN "completed" ELSE inbox[s].note_status,
                   memory_status |-> IF out.memory THEN "completed"
                                                   ELSE inbox[s].memory_status,
                   status |-> IF out.finalize /\ inbox[s].status \notin {"processed", "failed"}
                              THEN "processed" ELSE inbox[s].status]
           before == [snap.inbox EXCEPT ![s] = row]
           progress == Progress(snap.space, before)
           done == IF out.finalize THEN Max({space.processed_sequence_no, s})
                                   ELSE space.processed_sequence_no
           sp == [note_watermark |-> progress.note_watermark,
                  memory_watermark |-> progress.memory_watermark,
                  processed_sequence_no |-> done,
                  memory_gap_sequence_no |-> space.memory_gap_sequence_no]
           box == [inbox EXCEPT ![s] = row]
           tasks == [task EXCEPT ![x] = "completed"]
           act == Activated(tasks, inbox, sp, snap.blocked)
<1>1. /\ flight[x] # NoFlight /\ task[x] = "running"
      /\ inbox' = box /\ space' = sp /\ task' = act
      /\ overlapped' = (overlapped \/ snap.inbox # inbox \/ snap.space # space
                                   \/ snap.blocked # Blocked)
      /\ flight' = [flight EXCEPT ![x] = NoFlight] /\ recovering' = recovering
  BY DEF end_complete
<1>2. /\ inbox \in Seq(Message) /\ Len(inbox) <= MaxSeq /\ Len(inbox) \in Nat
      /\ space \in Space /\ overlapped \in BOOLEAN /\ DOMAIN flight = TaskId
  BY LenProperties DEF IInv, Types
<1>3. /\ s \in 1..Len(inbox) /\ <<"root", s>> \in TaskId /\ <<"memory", s>> \in TaskId
      /\ x = <<"root", s>> \/ x = <<"memory", s>>
  BY <1>1, TaskOf
<1>4. /\ row \in Message /\ row.kind = inbox[s].kind
      /\ inbox[s].note_status \in Finished => row.note_status \in Finished
      /\ inbox[s].memory_status \in Finished => row.memory_status \in Finished
      /\ RowOK(row, tasks[<<"root", s>>], tasks[<<"memory", s>>])
  BY <1>1, CompletedRow
<1>5. /\ snap \in FLIGHT /\ s \in 1..Len(snap.inbox)
      /\ SoundFor(snap.space, snap.inbox) /\ Later(snap.inbox, inbox)
  BY <1>1 DEF IInv, Snapshots
<1> HIDE DEF row, snap
<1>6. /\ snap.inbox \in Seq(Message) /\ snap.space \in Space
      /\ snap.blocked \in SUBSET TaskId /\ Len(snap.inbox) \in Nat
  <2>1. /\ snap.inbox \in Seq(Message) /\ snap.space \in Space
        /\ snap.blocked \in SUBSET TaskId
    BY <1>5 DEF FLIGHT
  <2> QED  BY <2>1, LenProperties
<1>7. /\ before \in Seq(Message) /\ Len(before) = Len(snap.inbox) /\ before[s] = row
      /\ \A t \in 1..Len(snap.inbox) : t # s => before[t] = snap.inbox[t]
  BY <1>4, <1>5, <1>6, ExceptSeq
<1>8. /\ box \in Seq(Message) /\ Len(box) = Len(inbox) /\ box[s] = row
      /\ \A t \in 1..Len(inbox) : t # s => box[t] = inbox[t]
  BY <1>2, <1>3, <1>4, ExceptSeq
<1>9. snap.inbox = inbox => before = box
  OBVIOUS
<1> HIDE DEF before, box, s
<1>10. Later(snap.inbox, before)
  BY <1>4, <1>5, <1>6, <1>7 DEF Later
<1>11. Later(before, box)
  BY <1>2, <1>3, <1>5, <1>6, <1>7, <1>8 DEF Later
<1>12. SoundFor(snap.space, before)
  BY <1>5, <1>6, <1>7, <1>10, SoundLater
<1>13. Len(before) <= MaxSeq
  BY <1>2, <1>5, <1>6, <1>7, DispatchAssumption DEF Later
<1>14. progress \in Space /\ SoundFor(progress, before) /\ ExactFor(progress, before)
  BY <1>6, <1>7, <1>12, <1>13, ProgressIsExact
<1> HIDE DEF progress
<1>15. /\ sp \in Space /\ sp.note_watermark = progress.note_watermark
       /\ sp.memory_watermark = progress.memory_watermark
  <2>1. s \in 0..MaxSeq /\ space.processed_sequence_no \in 0..MaxSeq
    BY <1>2, <1>3, DispatchAssumption DEF Space
  <2>2. done \in 0..MaxSeq
    BY <2>1, MaxOfTwo, DispatchAssumption
  <2> HIDE DEF done
  <2> QED  BY <1>2, <1>14, <2>2 DEF Space
<1> HIDE DEF sp
<1>16. SoundFor(sp, box)
  BY <1>7, <1>8, <1>11, <1>14, <1>15, SoundLater
<1>17. /\ tasks \in TaskRows
       /\ \A y \in TaskId : tasks[y] = IF y = x THEN "completed" ELSE task[y]
       /\ \A y \in TaskId : y[2] # s => tasks[y] = task[y]
  BY SetTask DEF Settled, s
<1> HIDE DEF tasks
<1>18. tasks[<<"root", s>>] \in {"queued", "running", "completed"}
         => task[<<"root", s>>] \in {"queued", "running", "completed"}
  BY <1>1, <1>3, <1>17
<1>19. Later(inbox, box) /\ RowsOK(box, tasks) /\ ReleasedOK(box, tasks)
  BY <1>3, <1>4, <1>8, <1>17, <1>18, OneMessage
<1>20. \A t \in 1..Len(inbox) : box[t].kind = inbox[t].kind
  BY <1>4, <1>8
<1>21. /\ act \in TaskRows /\ RowsOK(box, act) /\ ReleasedOK(box, act)
       /\ (\A y \in TaskId : tasks[y] = "blocked" => y \in snap.blocked)
          => Unreached(sp, box, act)
  BY <1>2, <1>6, <1>8, <1>15, <1>16, <1>17, <1>19, <1>20, Releasing
<1> HIDE DEF act
<1>22. ASSUME ~overlapped'
       PROVE  ExactFor(sp, box) /\ Unreached(sp, box, act)
  <2>1. snap.inbox = inbox /\ snap.blocked = Blocked
    BY <1>1, <1>22
  <2>2. ExactFor(sp, box)
    BY <1>9, <1>14, <1>15, <2>1 DEF ExactFor
  <2>3. \A y \in TaskId : tasks[y] = "blocked" => y \in snap.blocked
    BY <1>17, <2>1 DEF Blocked
  <2> QED  BY <1>21, <2>2, <2>3
<1>23. /\ overlapped' \in BOOLEAN /\ DOMAIN flight' = TaskId
       /\ \A y \in TaskId : flight'[y] = flight[y] \/ flight'[y] = NoFlight
  BY <1>1, <1>2
<1> QED  BY <1>1, <1>2, <1>8, <1>15, <1>16, <1>19, <1>20, <1>21, <1>22, <1>23, Preserved

-----------------------------------------------------------------------------
LEMMA InitEstablishes ==
  ASSUME Init
  PROVE  IInv
<1>1. Len(inbox) = 0 /\ inbox \in Seq(Message) /\ DOMAIN inbox = 1..0
  BY EmptySeq, LenProperties DEF Init
<1>2. /\ space \in Space /\ space.note_watermark = 0 /\ space.memory_watermark = 0
      /\ task \in TaskRows /\ \A x \in TaskId : task[x] = "none"
      /\ DOMAIN flight = TaskId /\ \A x \in TaskId : flight[x] = NoFlight
      /\ recovering = {} /\ overlapped = FALSE
  BY DispatchAssumption DEF Init, Space, TaskRows, Settled
<1>3. Types /\ Snapshots /\ Recovering
  <2>1. Types
    <3>1. Len(inbox) <= MaxSeq
      BY <1>1, DispatchAssumption
    <3>2. overlapped \in BOOLEAN
      BY <1>2
    <3> QED  BY <1>1, <1>2, <3>1, <3>2 DEF Types
  <2>2. Snapshots
    BY <1>2 DEF Snapshots
  <2>3. Recovering
    BY <1>2 DEF Recovering
  <2> QED  BY <2>1, <2>2, <2>3
<1>4. SoundFor(space, inbox)
  BY <1>1, <1>2 DEF SoundFor
<1>5. RowsOK(inbox, task) /\ ReleasedOK(inbox, task) /\ Unreached(space, inbox, task)
  BY <1>1, <1>2 DEF RowsOK, ReleasedOK, Unreached
<1>6. ExactFor(space, inbox)
  BY <1>1, <1>2 DEF ExactFor
<1> QED  BY <1>3, <1>4, <1>5, <1>6 DEF IInv

LEMMA NextPreserves ==
  ASSUME IInv, [Next]_vars
  PROVE  IInv'
<1>1. ASSUME NEW kind \in Kind, receive_command(kind) PROVE IInv'
  BY <1>1, ReceiveStep
<1>2. CASE append_sensitive
  BY <1>2, AppendSensitiveStep
<1>3. CASE recover_select
  BY <1>3, RecoverSelectStep
<1>4. ASSUME NEW s \in DOMAIN inbox, complete_blocked_sensitive_inbox(s) PROVE IInv'
  BY <1>4, CompleteSensitiveStep
<1>5. ASSUME NEW s \in DOMAIN inbox, recover_skip(s) PROVE IInv'
  BY <1>5, RecoverSkipStep
<1>6. ASSUME NEW s \in DOMAIN inbox, handle_ingest(s) PROVE IInv'
  BY <1>6, IngestStep
<1>7. ASSUME NEW x \in TaskId, claim(x) PROVE IInv'
  BY <1>7, ClaimStep
<1>8. ASSUME NEW x \in TaskId, requeue(x) PROVE IInv'
  BY <1>8, RequeueStep
<1>9. ASSUME NEW x \in TaskId, begin_complete(x) PROVE IInv'
  BY <1>9, BeginCompleteStep
<1>10. ASSUME NEW x \in TaskId, end_complete(x) PROVE IInv'
  BY <1>10, EndCompleteStep
<1>11. ASSUME NEW x \in TaskId, fail_task(x) PROVE IInv'
  BY <1>11, FailStep
<1>12. CASE UNCHANGED vars
  <2>1. DOMAIN flight' = TaskId /\ Snapshots' /\ Recovering'
    BY <1>12 DEF vars, IInv, Types, Snapshots, Recovering
  <2> QED  BY <1>12, <2>1, BystanderStep DEF vars
<1> QED
  BY <1>1, <1>2, <1>3, <1>4, <1>5, <1>6, <1>7, <1>8, <1>9, <1>10, <1>11, <1>12 DEF Next

(* The order of a space is kept by every operation of dispatch.py and of    *)
(* the completion statement, snapshots of running statements included.      *)
THEOREM DispatchInvariant == Spec => []IInv
<1>1. Init => IInv
  BY InitEstablishes
<1>2. IInv /\ [Next]_vars => IInv'
  BY NextPreserves
<1> QED  BY <1>1, <1>2, PTL DEF Spec

(* The rows of the space and of its messages, and the snapshots of running  *)
(* completions, have their types.                                           *)
THEOREM DispatchTypes == Spec => []TypeOK
<1>1. IInv => TypeOK
  <2> SUFFICES ASSUME IInv PROVE TypeOK
    OBVIOUS
  <2>1. \A x \in TaskId : flight[x] # NoFlight =>
          /\ x[2] \in 1..Len(flight[x].inbox)
          /\ flight[x].space \in Space /\ flight[x].blocked \subseteq TaskId
    BY DEF IInv, Snapshots, FLIGHT
  <2>2. recovering \subseteq 1..Len(inbox)
    BY DEF IInv, Recovering
  <2> QED  BY <2>1, <2>2 DEF TypeOK, IInv, Types, TaskRows
<1> QED  BY <1>1, DispatchInvariant, PTL

(* No watermark passes an open stage, whatever completions overlap: the     *)
(* progress a completion writes from an old snapshot is behind, never ahead *)
(* of what is finished.                                                     *)
THEOREM WatermarksSound == Spec => []WatermarkSound
<1>1. IInv => WatermarkSound
  <2> SUFFICES ASSUME IInv PROVE WatermarkSound
    OBVIOUS
  <2>1. SoundFor(space, inbox) /\ DOMAIN inbox = 1..Len(inbox)
    BY LenProperties DEF IInv, Types
  <2> QED  BY <2>1 DEF WatermarkSound, SoundFor, NoteOpen, MemoryOpen
<1> QED  BY <1>1, DispatchInvariant, PTL

(* As long as no completion overlapped another writer of the space, the     *)
(* watermarks lag behind nothing: they end before the first open stage.     *)
THEOREM WatermarksExact == Spec => []WatermarkExact
<1>1. IInv => WatermarkExact
  BY DEF IInv, WatermarkExact, ExactFor
<1> QED  BY <1>1, DispatchInvariant, PTL

(* A released message never overtakes an earlier ingest whose note it must  *)
(* see, or whose memories, however claims, retries, recoveries and          *)
(* overlapping completions interleave.                                      *)
THEOREM MessagesInOrder == Spec => []NoOvertake
<1>1. IInv => NoOvertake
  <2> SUFFICES ASSUME IInv, NEW s \in DOMAIN inbox, NEW e \in 1..s-1,
                      task[<<"root", s>>] \in {"queued", "running", "completed"},
                      inbox[e].kind \in Ingest,
                      ~GivenUp(inbox[e], task[<<"root", e>>])
               PROVE  LET extracted == task[<<"memory", e>>]
                          stored == task[<<"root", e>>] \in Settled \/ extracted # "none"
                          consistency == task_consistency(inbox[s].kind)
                      IN /\ consistency = "note" => stored
                         /\ consistency = "memory" => stored /\ extracted \in Settled
    BY DEF NoOvertake, GivenUp
  <2>1. s \in 1..Len(inbox) /\ Len(inbox) \in Nat
    BY LenProperties DEF IInv, Types
  <2>2. e \in 1..Len(inbox)
    BY <2>1
  <2>3. Passed(inbox, inbox[s].kind, s)
    BY <2>1 DEF IInv, ReleasedOK
  <2>4. RowOK(inbox[e], task[<<"root", e>>], task[<<"memory", e>>])
    BY <2>2 DEF IInv, RowsOK
  <2>5. /\ inbox[e].note_status \in Finished =>
             task[<<"root", e>>] \in Settled \/ task[<<"memory", e>>] # "none"
        /\ inbox[e].memory_status \in Finished =>
             /\ task[<<"root", e>>] \in Settled \/ task[<<"memory", e>>] # "none"
             /\ task[<<"memory", e>>] \in Settled
    BY <2>4 DEF RowOK
  <2> QED  BY <2>3, <2>5 DEF Passed
<1> QED  BY <1>1, DispatchInvariant, PTL

(* A message blocked behind settled predecessors was left there by an       *)
(* overlapped completion, or waits for an ingest whose note stage stays     *)
(* open for good: there is no third way to strand one.                      *)
THEOREM NoOtherStrandings == Spec => []OnlyKnownStrandings
<1>1. IInv => OnlyKnownStrandings
  <2> SUFFICES ASSUME IInv, NEW s \in DOMAIN inbox, task[<<"root", s>>] = "blocked",
                      PredecessorsSettled(s), ~overlapped
               PROVE  \E e \in 1..s-1 : OpenForGood(e)
    BY DEF OnlyKnownStrandings
  <2>1. /\ s \in 1..Len(inbox) /\ Len(inbox) \in Nat /\ DOMAIN inbox = 1..Len(inbox)
        /\ inbox \in Seq(Message) /\ inbox[s] \in Message
        /\ space.note_watermark \in Nat /\ space.memory_watermark \in Nat
    BY LenProperties, DispatchAssumption DEF IInv, Types, Space
  <2>2. ~Reached(space, inbox[s].kind, s) /\ ExactFor(space, inbox)
    BY <2>1 DEF IInv, Unreached
  <2>3. PICK e \in 1..s-1 : e \in NoteOpen(inbox) \/ e \in MemoryOpen(inbox)
    <3>1. CASE task_consistency(inbox[s].kind) = "note"
      <4>1. space.note_watermark + 1 \in 1..s-1
        BY <2>1, <2>2, <3>1 DEF Reached
      <4>2. space.note_watermark + 1 # Len(inbox) + 1
        BY <2>1, <4>1
      <4> QED  BY <2>2, <4>1, <4>2 DEF ExactFor
    <3>2. CASE task_consistency(inbox[s].kind) = "memory"
      <4>1. space.memory_watermark + 1 \in 1..s-1
        BY <2>1, <2>2, <3>2 DEF Reached
      <4>2. space.memory_watermark + 1 # Len(inbox) + 1
        BY <2>1, <4>1
      <4> QED  BY <2>2, <4>1, <4>2 DEF ExactFor
    <3>3. CASE task_consistency(inbox[s].kind) \notin {"note", "memory"}
      BY <2>2, <3>3 DEF Reached
    <3> QED  BY <3>1, <3>2, <3>3
  <2>4. e \in 1..Len(inbox) /\ inbox[e] \in Message
    BY <2>1, LenProperties
  <2>5. RowOK(inbox[e], task[<<"root", e>>], task[<<"memory", e>>])
    BY <2>4 DEF IInv, RowsOK
  <2>6. /\ task[<<"root", e>>] \in Settled /\ task[<<"memory", e>>] \in Settled
        /\ inbox[e].status = "blocked_sensitive" => inbox[e].note_status # "pending"
    BY DEF PredecessorsSettled
  <2>7. inbox[e].note_status \notin Finished \/ inbox[e].memory_status \notin Finished
    BY <2>3 DEF NoteOpen, MemoryOpen
  <2>8. CASE inbox[e].kind \in {"note", "memory", "weak"}
    BY <2>5, <2>7, <2>8 DEF RowOK
  <2>9. CASE inbox[e].kind = "sensitive"
    <3>1. inbox[e].note_status = "pending"
      BY <2>4, <2>5, <2>7, <2>9 DEF RowOK, Message
    <3> QED  BY <2>5, <2>6, <2>9, <3>1 DEF RowOK, Finished
  <2>10. CASE inbox[e].kind \in Ingest
    <3>1. inbox[e].memory_status \in Finished
      BY <2>5, <2>6, <2>10 DEF RowOK, Settled
    <3>2. inbox[e].note_status \notin Finished
      BY <2>7, <3>1
    <3>3. inbox[e].note_status = "pending"
      BY <2>4, <3>2 DEF Message
    <3>4. task[<<"root", e>>] = "dead_letter" /\ inbox[e].status = "processed"
      BY <2>5, <2>6, <2>10, <3>2 DEF RowOK, Settled
    <3> QED  BY <3>3, <3>4 DEF OpenForGood
  <2> QED  BY <2>4, <2>8, <2>9, <2>10 DEF Message, Kind, Ingest
<1> QED  BY <1>1, DispatchInvariant, PTL
=============================================================================
