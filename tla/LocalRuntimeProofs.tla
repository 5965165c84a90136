--------------------------- MODULE LocalRuntimeProofs ---------------------------
(***************************************************************************)
(* Proofs about the runtime of one process and the entry of messages, for  *)
(* any messages, questions, handlers and slots: the executor accepts no    *)
(* more than it has slots for, and a message that is acknowledged is kept. *)
(***************************************************************************)
EXTENDS LocalRuntime, FiniteSetTheorems, SequenceTheorems, WellFoundedInduction, TLAPS

-----------------------------------------------------------------------------
(* The inductive invariant.                                                 *)

(* Who may have acknowledged m: it is kept, excused, or a receiver that     *)
(* took its key is still at it.                                             *)
Guarded(m) ==
  \/ m \in Logged \cup excused
  \/ \E g \in Handler : handler[g].message = m /\ handler[g].keyed

(* A handler at work: what it holds, and how far it is.                     *)
HandlerOK(h) ==
  /\ ~In(h, "idle") => handler[h].message \in Message
  /\ handler[h].keyed => handler[h].pc \in {"insert", "complete", "raised"}
  /\ handler[h].pc \in {"submit", "complete"} => handler[h].message \in Logged
  /\ backend = "local" => handler[h].pc \in {"idle", "append", "submit"}

(* Every message Feishu delivers no more, and every key that answers a      *)
(* later delivery, is guarded.                                              *)
Entries ==
  /\ \A h \in Handler : HandlerOK(h)
  /\ \A m \in Message : m \in acked \/ key[m] \in {"processing", "completed"} => Guarded(m)

(* The task that holds the lock of the space.                               *)
Runs ==
  /\ lock_free => running = Nothing
  /\ ~lock_free => running.task \in Task /\ running.todo # <<>>
  /\ running.pc = "index" => ~note_exists(Record)
  /\ running.pc = "mark" => note_exists(Record)

(* A task is in one place.                                                  *)
Places ==
  /\ IsFiniteSet(queued) /\ IsFiniteSet(done)
  /\ queued \cap done = {} /\ running.task \notin queued \cup done

(* What the log calls processed is a note; so is what is enriched, and no   *)
(* attempt was made at a note that is new.                                  *)
Notes ==
  /\ \A m \in Message : status[m] = "processed" => note_exists(m)
  /\ \A m \in Message : note[m].status \in {"none", "provisional"} => note[m].attempts = 0
  /\ enrichment.pc # "free" => enrichment.message \in Message /\ note_exists(enrichment.message)

(* The types, part by part.                                                 *)
HandlerRow == [pc: {"idle", "append", "submit", "get", "begin", "insert",
                    "complete", "raised"},
               message: Message \cup {None}, keyed: BOOLEAN]
RunningRow == [pc: {"free", "record", "index", "mark"}, task: Task \cup {None},
               todo: Seq(Message)]
NoteRow == [status: {"none", "provisional", "enriching", "failed", "ready"},
            attempts: 0..ENRICHMENT_MAX_ATTEMPTS]
ExecutorTypes ==
  /\ queued \subseteq Task /\ done \subseteq Task /\ inflight \subseteq Message
  /\ running \in RunningRow
  /\ Taken <= SLOTS
  /\ Message \cap (queued \cup done \cup {running.task}) = inflight
FileTypes ==
  /\ drainer \in Seq(Message) /\ indexed \in BOOLEAN
  /\ note \in [Message -> NoteRow]
  /\ enrichment \in [pc: {"free", "queued", "enrich"}, message: Message \cup {None}]

Entering == IntakeTypeOK /\ Entries
Executing == ExecutorTypes /\ Places /\ Runs
Noting == FileTypes /\ Notes

IInv == Entering /\ Executing /\ Noting

-----------------------------------------------------------------------------
(* Numbers and sequences.                                                   *)

(* A set of numbers that is not empty has a least element.                  *)
LEMMA LeastNumber ==
  ASSUME NEW S \in SUBSET Nat, S # {}
  PROVE  \E x \in S : \A y \in S : x <= y
<1> DEFINE R == {ss \in Nat \X Nat : ss[1] < ss[2]}
<1>1. R = OpToRel(<, Nat)
  BY DEF OpToRel
<1>2. IsWellFoundedOn(R, Nat)
  BY <1>1, NatLessThanWellFounded
<1>3. PICK x \in S : \A y \in S : ~(<<y, x>> \in R)
  <2> HIDE DEF R
  <2> QED  BY <1>2, WFMin
<1>4. \A y \in S : x <= y
  <2> TAKE y \in S
  <2>1. ~(<<y, x>> \in R)
    BY <1>3
  <2>2. y \in Nat /\ x \in Nat
    OBVIOUS
  <2>3. y < x => <<y, x>> \in R
    BY <2>2
  <2> HIDE DEF R
  <2> QED  BY <2>1, <2>2, <2>3
<1> QED  BY <1>4

LEMMA PositionsFinite ==
  ASSUME NEW n \in Nat, NEW open \in SUBSET (1..n)
  PROVE  IsFiniteSet(open) /\ Cardinality(open) \in Nat
<1>1. IsFiniteSet(1..n)
  BY FS_Interval
<1>2. IsFiniteSet(open)
  BY <1>1, FS_Subset
<1> QED  BY <1>2, FS_CardinalityType

(* A finite set of positions has a k-th one, for every k up to its size.    *)
LEMMA KthPlace ==
  ASSUME NEW n \in Nat, NEW open \in SUBSET (1..n), NEW k \in 1..Cardinality(open)
  PROVE  \E i \in open : Cardinality({j \in open : j <= i}) = k
<1> DEFINE Upto(i) == {j \in open : j <= i}
           S == {i \in 0..n : Cardinality(Upto(i)) >= k}
<1>1. IsFiniteSet(open) /\ Cardinality(open) \in Nat
  BY PositionsFinite
<1>2. ASSUME NEW i \in 0..n
      PROVE  IsFiniteSet(Upto(i)) /\ Cardinality(Upto(i)) \in Nat
  <2>1. Upto(i) \subseteq open
    OBVIOUS
  <2> HIDE DEF Upto
  <2> QED  BY <1>1, <2>1, FS_Subset, FS_CardinalityType
<1>3. Upto(n) = open /\ Upto(0) = {}
  <2>1. \A j \in open : j \in Nat /\ j <= n /\ ~(j <= 0)
    OBVIOUS
  <2> QED  BY <2>1
<1>4. n \in S /\ 0 \notin S
  <2>1. Cardinality(Upto(n)) >= k
    BY <1>1, <1>3
  <2>2. Cardinality(Upto(0)) = 0
    BY <1>3, FS_EmptySet
  <2> HIDE DEF Upto
  <2> QED  BY <2>1, <2>2
<1>5. PICK i \in S : \A y \in S : i <= y
  <2>1. S \in SUBSET Nat /\ S # {}
    <3> HIDE DEF Upto
    <3> QED  BY <1>4
  <2> HIDE DEF S
  <2> QED  BY <2>1, LeastNumber
<1>6. i \in 1..n /\ i - 1 \in 0..n /\ i - 1 \notin S /\ Cardinality(Upto(i)) >= k
  <2>1. i \in 0..n /\ i # 0 /\ Cardinality(Upto(i)) >= k
    BY <1>4
  <2> HIDE DEF S, Upto
  <2>2. i \in 1..n /\ i - 1 \in 0..n /\ i - 1 < i
    BY <2>1
  <2> QED  BY <1>5, <2>1, <2>2
<1>7. Cardinality(Upto(i - 1)) < k
  <2>1. ~(Cardinality(Upto(i - 1)) >= k)
    BY <1>6
  <2>2. Cardinality(Upto(i - 1)) \in Nat
    BY <1>2, <1>6
  <2> HIDE DEF Upto
  <2> QED  BY <1>1, <2>1, <2>2
<1>8. Upto(i) = IF i \in open THEN Upto(i - 1) \cup {i} ELSE Upto(i - 1)
  <2>1. i \in Nat /\ \A j \in open : j \in Nat
    BY <1>6
  <2>2. \A j \in open : j <= i <=> (j <= i - 1 \/ j = i)
    <3> HIDE DEF S
    <3> QED  BY <2>1
  <2> HIDE DEF S
  <2> QED  BY <2>1, <2>2
<1>9. i \notin Upto(i - 1)
  BY <1>6
<1>10. IsFiniteSet(Upto(i - 1)) /\ Cardinality(Upto(i - 1)) \in Nat
  BY <1>2, <1>6
<1>11. k \in Nat
  BY <1>1
<1> HIDE DEF Upto
<1>12. i \in open
  BY <1>6, <1>7, <1>8, <1>10, <1>11
<1>13. Cardinality(Upto(i)) = Cardinality(Upto(i - 1)) + 1
  BY <1>8, <1>9, <1>10, <1>12, FS_AddElement
<1>14. Cardinality(Upto(i)) = k
  BY <1>6, <1>7, <1>10, <1>11, <1>13
<1> QED  BY <1>12, <1>14 DEF Upto

(* The pending records are messages of the log.                             *)
LEMMA PendingRecords ==
  ASSUME log \in Seq(Message)
  PROVE  pending_records \in Seq(Message)
<1> DEFINE open == {i \in DOMAIN log : status[log[i]] = "pending"}
           place(k) == CHOOSE i \in open : Cardinality({j \in open : j <= i}) = k
<1>1. Len(log) \in Nat /\ DOMAIN log = 1..Len(log) /\ log \in [1..Len(log) -> Message]
  BY LenProperties
<1>2. open \in SUBSET (1..Len(log))
  BY <1>1
<1>3. Cardinality(open) \in Nat
  <2> HIDE DEF open
  <2> QED  BY <1>1, <1>2, PositionsFinite
<1>4. pending_records = [k \in 1..Cardinality(open) |-> log[place(k)]]
  BY DEF pending_records
<1>5. ASSUME NEW k \in 1..Cardinality(open)
      PROVE  place(k) \in open
  <2> HIDE DEF open
  <2>1. \E i \in open : Cardinality({j \in open : j <= i}) = k
    BY <1>1, <1>2, KthPlace
  <2> QED  BY <2>1
<1> HIDE DEF open, place
<1>6. pending_records \in [1..Cardinality(open) -> Message]
  BY <1>1, <1>2, <1>4, <1>5
<1> QED  BY <1>3, <1>6

(* The members of a sequence.                                               *)
LEMMA ElementsOf ==
  ASSUME NEW s \in Seq(Message)
  PROVE  /\ Elements(s) \in SUBSET Message
         /\ \A m \in Message : Elements(Append(s, m)) = Elements(s) \cup {m}
         /\ \A n \in 0..Len(s) : /\ SubSeq(s, 1, n) \in Seq(Message)
                                 /\ Elements(SubSeq(s, 1, n)) \subseteq Elements(s)
<1>1. Len(s) \in Nat /\ DOMAIN s = 1..Len(s) /\ \A i \in 1..Len(s) : s[i] \in Message
  BY LenProperties
<1>2. Elements(s) \in SUBSET Message
  BY <1>1 DEF Elements
<1>3. ASSUME NEW m \in Message
      PROVE  Elements(Append(s, m)) = Elements(s) \cup {m}
  <2> DEFINE a == Append(s, m)
  <2>1. /\ a \in Seq(Message) /\ Len(a) = Len(s) + 1 /\ a[Len(s) + 1] = m
        /\ \A i \in 1..Len(s) : a[i] = s[i]
    BY AppendProperties
  <2> HIDE DEF a
  <2>2. DOMAIN a = 1..(Len(s) + 1)
    BY <2>1, LenProperties
  <2>3. \A i \in 1..(Len(s) + 1) : i \in 1..Len(s) \/ i = Len(s) + 1
    BY <1>1
  <2>4. 1..Len(s) \subseteq 1..(Len(s) + 1) /\ Len(s) + 1 \in 1..(Len(s) + 1)
    BY <1>1
  <2>5. Elements(a) \subseteq Elements(s) \cup {m}
    BY <1>1, <2>1, <2>2, <2>3 DEF Elements
  <2>6. Elements(s) \cup {m} \subseteq Elements(a)
    BY <1>1, <2>1, <2>2, <2>4 DEF Elements
  <2> QED  BY <2>5, <2>6 DEF a
<1>4. ASSUME NEW n \in 0..Len(s)
      PROVE  /\ SubSeq(s, 1, n) \in Seq(Message)
             /\ Elements(SubSeq(s, 1, n)) \subseteq Elements(s)
  <2> DEFINE b == SubSeq(s, 1, n)
  <2>1. \A i \in 1..n : i \in 1..Len(s) /\ s[i] \in Message
    BY <1>1
  <2>2. /\ b \in Seq(Message) /\ Len(b) = n /\ \A i \in 1..n : b[i] = s[i]
    <3>1. /\ b \in Seq(Message) /\ Len(b) = IF 1 <= n THEN n - 1 + 1 ELSE 0
          /\ \A i \in 1..(n - 1 + 1) : b[i] = s[1 + i - 1]
      BY <1>1, <2>1, SubSeqProperties
    <3>2. n \in Nat /\ n - 1 + 1 = n /\ \A i \in 1..n : 1 + i - 1 = i
      BY <1>1
    <3> HIDE DEF b
    <3>3. \A i \in 1..n : b[i] = s[i]
      BY <3>1, <3>2
    <3> QED  BY <3>1, <3>2, <3>3
  <2> HIDE DEF b
  <2>3. DOMAIN b = 1..n
    BY <2>2, LenProperties
  <2>4. Elements(b) \subseteq Elements(s)
    BY <1>1, <2>1, <2>2, <2>3 DEF Elements
  <2> QED  BY <2>2, <2>4 DEF b
<1> QED  BY <1>2, <1>3, <1>4

-----------------------------------------------------------------------------
(* What a step has to show of the parts it does not touch.                  *)
LEMMA EnteringKept ==
  ASSUME Entering,
         UNCHANGED <<backend, sensitive, log, readable, key, handler, acked, excused>>,
         status' \in [Message -> {"none", "pending", "processed", "blocked_sensitive"}],
         events' \in 0..MaxEvents
  PROVE  Entering'
<1>1. IntakeTypeOK'
  BY DEF Entering, IntakeTypeOK
<1>2. Entries'
  BY DEF Entering, Entries, HandlerOK, Guarded, In, Logged, Elements
<1> QED  BY <1>1, <1>2 DEF Entering

LEMMA ExecutingKept ==
  ASSUME Executing, UNCHANGED <<queued, running, done, inflight>>,
         \A m \in Message : note_exists(m)' <=> note_exists(m)
  PROVE  Executing'
<1>1. ExecutorTypes' /\ Places'
  BY DEF Executing, ExecutorTypes, Places, Taken, lock_free
<1>2. ASSUME running.pc \in {"index", "mark"}
      PROVE  Record \in Message /\ Record' = Record
  <2>1. running.todo \in Seq(Message) /\ running.todo # <<>>
    BY <1>2 DEF Executing, ExecutorTypes, RunningRow, Runs, lock_free
  <2> QED  BY <2>1, HeadTailProperties DEF Record
<1>3. Runs'
  BY <1>2 DEF Executing, Runs, lock_free, note_exists
<1> QED  BY <1>1, <1>3 DEF Executing

LEMMA NotingKept ==
  ASSUME Noting, UNCHANGED <<note, indexed, enrichment>>, drainer' \in Seq(Message),
         \A m \in Message : status'[m] = "processed" => note_exists(m)
  PROVE  Noting'
<1>1. FileTypes'
  BY DEF Noting, FileTypes
<1>2. Notes'
  BY DEF Noting, Notes, note_exists
<1> QED  BY <1>1, <1>2 DEF Noting

(* One more event, within the bound.                                        *)
LEMMA EventCounted ==
  ASSUME Entering, Event \/ UNCHANGED events
  PROVE  events' \in 0..MaxEvents
<1>1. events \in 0..MaxEvents /\ MaxEvents \in Nat
  BY IntakeAssumption DEF Entering, IntakeTypeOK
<1> QED  BY <1>1 DEF Event

-----------------------------------------------------------------------------
(* The entry of messages.                                                   *)

(* One handler moves on.  A receiver that took a key lets go of it only     *)
(* when the message is kept or excused.                                     *)
LEMMA HandlerStep ==
  ASSUME Entering, NEW h \in Handler, NEW e \in HandlerRow,
         handler' = [handler EXCEPT ![h] = e], backend' = backend,
         Logged \subseteq Logged', excused \subseteq excused',
         e.pc # "idle" => e.message \in Message,
         e.keyed => e.pc \in {"insert", "complete", "raised"},
         e.pc \in {"submit", "complete"} => e.message \in Logged',
         backend = "local" => e.pc \in {"idle", "append", "submit"},
         handler[h].keyed => \/ e.keyed /\ e.message = handler[h].message
                             \/ handler[h].message \in Logged' \cup excused'
  PROVE  /\ handler' \in [Handler -> HandlerRow]
         /\ \A g \in Handler : HandlerOK(g)'
         /\ \A m \in Message : Guarded(m) => Guarded(m)'
<1>1. handler \in [Handler -> HandlerRow] /\ \A g \in Handler : HandlerOK(g)
  BY DEF Entering, IntakeTypeOK, HandlerRow, Entries
<1>2. /\ handler' \in [Handler -> HandlerRow]
      /\ \A g \in Handler : handler'[g] = IF g = h THEN e ELSE handler[g]
  BY <1>1
<1>3. ASSUME NEW g \in Handler
      PROVE  HandlerOK(g)'
  <2>1. CASE g = h
    BY <1>2, <2>1 DEF HandlerOK, In
  <2>2. CASE g # h
    BY <1>1, <1>2, <2>2 DEF HandlerOK, In
  <2> QED  BY <2>1, <2>2
<1>4. ASSUME NEW m \in Message, Guarded(m)
      PROVE  Guarded(m)'
  <2>1. CASE m \in Logged \cup excused
    BY <2>1 DEF Guarded
  <2>2. CASE \E g \in Handler : handler[g].message = m /\ handler[g].keyed
    <3>1. PICK g \in Handler : handler[g].message = m /\ handler[g].keyed
      BY <2>2
    <3>2. CASE g # h
      BY <1>2, <3>1, <3>2 DEF Guarded
    <3>3. CASE g = h
      <4>1. CASE e.keyed /\ e.message = m
        BY <1>2, <3>3, <4>1 DEF Guarded
      <4>2. CASE m \in Logged' \cup excused'
        BY <4>2 DEF Guarded
      <4> QED  BY <3>1, <3>3, <4>1, <4>2
    <3> QED  BY <3>2, <3>3
  <2> QED  BY <1>4, <2>1, <2>2 DEF Guarded
<1> QED  BY <1>2, <1>3, <1>4

(* The message of an event that is handled, and where the handler is.       *)
LEMMA AtWork ==
  ASSUME Entering, NEW h \in Handler
  PROVE  /\ HandlerOK(h) /\ handler[h] \in HandlerRow
         /\ ~In(h, "idle") => handler[h].message \in Message
         /\ Unhandled \in HandlerRow
         /\ Unhandled.pc = "idle" /\ Unhandled.keyed = FALSE
BY DEF Entering, IntakeTypeOK, HandlerRow, Entries, HandlerOK, Unhandled

(* A handler returns, with its message guarded.                             *)
LEMMA ReturnStep ==
  ASSUME Entering, NEW h \in Handler, ~In(h, "idle"), Returns(h),
         backend' = backend, Logged \subseteq Logged', excused \subseteq excused',
         \/ handler[h].message \in Logged' \cup excused'
         \/ ~handler[h].keyed /\ Guarded(handler[h].message)
  PROVE  /\ handler' \in [Handler -> HandlerRow] /\ acked' \subseteq Message
         /\ \A g \in Handler : HandlerOK(g)'
         /\ \A m \in Message : Guarded(m) => Guarded(m)'
         /\ \A m \in Message : m \in acked' => m \in acked \/ Guarded(m)'
<1>1. /\ handler' = [handler EXCEPT ![h] = Unhandled]
      /\ acked' = acked \cup {handler[h].message}
  BY DEF Returns
<1>2. /\ handler[h].message \in Message /\ Unhandled \in HandlerRow
      /\ Unhandled.pc = "idle" /\ Unhandled.keyed = FALSE
  BY AtWork
<1>3. /\ handler' \in [Handler -> HandlerRow]
      /\ \A g \in Handler : HandlerOK(g)'
      /\ \A m \in Message : Guarded(m) => Guarded(m)'
  BY <1>1, <1>2, HandlerStep
<1>4. ASSUME NEW m \in Message, m = handler[h].message
      PROVE  Guarded(m)'
  <2>1. CASE m \in Logged' \cup excused'
    BY <2>1 DEF Guarded
  <2>2. CASE Guarded(m)
    BY <1>3, <2>2
  <2> QED  BY <1>4, <2>1, <2>2
<1>5. acked' \subseteq Message
  BY <1>1, <1>2 DEF Entering, IntakeTypeOK
<1> QED  BY <1>1, <1>2, <1>3, <1>4, <1>5

LEMMA EnteringFrom ==
  ASSUME Entering, UNCHANGED <<backend, sensitive, readable>>, log' \in Seq(Message),
         status' \in [Message -> {"none", "pending", "processed", "blocked_sensitive"}],
         key' \in [Message -> {"none", "processing", "completed", "failed"}],
         handler' \in [Handler -> HandlerRow], acked' \subseteq Message,
         events' \in 0..MaxEvents, excused' \subseteq Message,
         \A g \in Handler : HandlerOK(g)',
         \A m \in Message : Guarded(m) => Guarded(m)',
         \A m \in Message : m \in acked' => m \in acked \/ Guarded(m)',
         \A m \in Message : key'[m] \in {"processing", "completed"}
           => key[m] \in {"processing", "completed"} \/ Guarded(m)'
  PROVE  Entering'
<1>1. IntakeTypeOK'
  BY DEF Entering, IntakeTypeOK, HandlerRow
<1>2. \A m \in Message : m \in acked \/ key[m] \in {"processing", "completed"} => Guarded(m)
  BY DEF Entering, Entries
<1>3. Entries'
  BY <1>2 DEF Entries
<1> QED  BY <1>1, <1>3 DEF Entering

(* What is needed of the variables a step of the entry leaves alone.        *)
LEMMA IntakeTypes ==
  ASSUME Entering
  PROVE  /\ log \in Seq(Message) /\ acked \subseteq Message /\ excused \subseteq Message
         /\ status \in [Message -> {"none", "pending", "processed", "blocked_sensitive"}]
         /\ key \in [Message -> {"none", "processing", "completed", "failed"}]
         /\ handler \in [Handler -> HandlerRow]
         /\ events \in 0..MaxEvents
         /\ log' = log => Logged' = Logged
BY DEF Entering, IntakeTypeOK, HandlerRow, Logged, Elements

LEMMA HandleStep ==
  ASSUME Entering, NEW h \in Handler, NEW m \in Message, handle_text_message(h, m)
  PROVE  Entering' /\ status' = status
<1> DEFINE e == [pc |-> IF backend = "local" \/ m \in sensitive THEN "append" ELSE "get",
                 message |-> m, keyed |-> FALSE]
<1>1. /\ In(h, "idle") /\ handler' = [handler EXCEPT ![h] = e]
      /\ UNCHANGED <<backend, sensitive, log, status, readable, key, acked, excused>>
      /\ Event \/ UNCHANGED events
  BY DEF handle_text_message
<1>2. /\ e \in HandlerRow /\ e.message = m /\ e.keyed = FALSE /\ e.pc \in {"append", "get"}
      /\ backend = "local" => e.pc = "append"
  BY DEF HandlerRow
<1> HIDE DEF e
<1>3. ~handler[h].keyed
  BY <1>1, AtWork DEF HandlerOK, In
<1>4. Logged' = Logged
  BY <1>1, IntakeTypes
<1>5. /\ handler' \in [Handler -> HandlerRow] /\ \A g \in Handler : HandlerOK(g)'
      /\ \A n \in Message : Guarded(n) => Guarded(n)'
  BY <1>1, <1>2, <1>3, <1>4, HandlerStep
<1>6. events' \in 0..MaxEvents
  BY <1>1, EventCounted
<1> QED  BY <1>1, <1>5, <1>6, IntakeTypes, EnteringFrom

(* The record of m is in the log after receive_command, or after            *)
(* append_message_once on a log that can be parsed.                         *)
LEMMA LogAppended ==
  ASSUME Entering, NEW m \in Message, NEW v \in {"pending", "blocked_sensitive"},
         m \in Logged => UNCHANGED <<log, status>>,
         m \notin Logged => log' = Append(log, m) /\ status' = [status EXCEPT ![m] = v]
  PROVE  /\ log' \in Seq(Message) /\ Logged' = Logged \cup {m}
         /\ status' \in [Message -> {"none", "pending", "processed", "blocked_sensitive"}]
         /\ \A n \in Message : status'[n] = "processed" => status[n] = "processed"
<1>1. /\ log \in Seq(Message)
      /\ status \in [Message -> {"none", "pending", "processed", "blocked_sensitive"}]
  BY IntakeTypes
<1>2. CASE m \in Logged
  BY <1>1, <1>2, IntakeTypes
<1>3. CASE m \notin Logged
  <2>1. log' \in Seq(Message)
    BY <1>1, <1>3, AppendProperties
  <2>2. Logged' = Logged \cup {m}
    BY <1>1, <1>3, ElementsOf DEF Logged
  <2> QED  BY <1>1, <1>3, <2>1, <2>2
<1> QED  BY <1>2, <1>3

LEMMA AppendOnceStep ==
  ASSUME Entering, NEW h \in Handler, append_message_once(h)
  PROVE  Entering' /\ \A n \in Message : status'[n] = "processed" => status[n] = "processed"
<1> DEFINE m == handler[h].message
<1>1. In(h, "append") /\ UNCHANGED <<backend, sensitive, readable, key, events>>
  BY DEF append_message_once
<1>2. m \in Message /\ ~handler[h].keyed /\ ~In(h, "idle")
  BY <1>1, AtWork DEF HandlerOK, In
<1>3. CASE ~readable
  <2>1. /\ Returns(h) /\ excused' = excused \cup ({m} \ Logged) /\ UNCHANGED <<log, status>>
    BY <1>3 DEF append_message_once, Swallows
  <2>2. Logged' = Logged /\ m \in Logged' \cup excused' /\ excused' \subseteq Message
    BY <1>2, <2>1, IntakeTypes
  <2>3. /\ handler' \in [Handler -> HandlerRow] /\ acked' \subseteq Message
        /\ \A g \in Handler : HandlerOK(g)'
        /\ \A n \in Message : Guarded(n) => Guarded(n)'
        /\ \A n \in Message : n \in acked' => n \in acked \/ Guarded(n)'
    BY <1>1, <1>2, <2>1, <2>2, ReturnStep
  <2> QED  BY <1>1, <2>1, <2>2, <2>3, IntakeTypes, EnteringFrom
<1>4. CASE readable
  <2> DEFINE v == IF m \in sensitive THEN "blocked_sensitive" ELSE "pending"
  <2>1. /\ m \in Logged => UNCHANGED <<log, status>>
        /\ m \notin Logged => log' = Append(log, m) /\ status' = [status EXCEPT ![m] = v]
        /\ IF m \notin Logged /\ m \notin sensitive THEN Continues(h, "submit") ELSE Returns(h)
        /\ UNCHANGED excused
    BY <1>4 DEF append_message_once
  <2>2. v \in {"pending", "blocked_sensitive"}
    OBVIOUS
  <2> HIDE DEF v
  <2>3. /\ log' \in Seq(Message) /\ Logged' = Logged \cup {m}
        /\ status' \in [Message -> {"none", "pending", "processed", "blocked_sensitive"}]
        /\ \A n \in Message : status'[n] = "processed" => status[n] = "processed"
    BY <1>2, <2>1, <2>2, LogAppended
  <2>4. CASE Returns(h)
    <3>1. /\ handler' \in [Handler -> HandlerRow] /\ acked' \subseteq Message
          /\ \A g \in Handler : HandlerOK(g)'
          /\ \A n \in Message : Guarded(n) => Guarded(n)'
          /\ \A n \in Message : n \in acked' => n \in acked \/ Guarded(n)'
      BY <1>1, <1>2, <2>1, <2>3, <2>4, ReturnStep
    <3> QED  BY <1>1, <2>1, <2>3, <3>1, IntakeTypes, EnteringFrom
  <2>5. CASE Continues(h, "submit")
    <3> DEFINE e == [handler[h] EXCEPT !.pc = "submit"]
    <3>1. handler' = [handler EXCEPT ![h] = e] /\ acked' = acked
      BY <2>5 DEF Continues
    <3>2. e \in HandlerRow /\ e.pc = "submit" /\ e.message = m /\ ~e.keyed
      BY <1>2, AtWork DEF HandlerRow
    <3> HIDE DEF e
    <3>3. /\ handler' \in [Handler -> HandlerRow] /\ \A g \in Handler : HandlerOK(g)'
          /\ \A n \in Message : Guarded(n) => Guarded(n)'
      BY <1>1, <1>2, <2>1, <2>3, <3>1, <3>2, HandlerStep
    <3> QED  BY <1>1, <2>1, <2>3, <3>1, <3>3, IntakeTypes, EnteringFrom
  <2> QED  BY <2>1, <2>4, <2>5
<1> QED  BY <1>3, <1>4

(* A handler goes on to the next step, having changed nothing else.         *)
LEMMA ContinueStep ==
  ASSUME Entering, NEW h \in Handler, NEW pc \in {"begin", "insert", "raised", "complete"},
         Continues(h, pc), handler[h].pc \in {"get", "begin", "insert"},
         handler[h].keyed => pc # "begin",
         UNCHANGED <<backend, excused>>, Logged \subseteq Logged',
         pc = "complete" => handler[h].message \in Logged'
  PROVE  /\ acked' = acked
         /\ handler' \in [Handler -> HandlerRow] /\ \A g \in Handler : HandlerOK(g)'
         /\ \A n \in Message : Guarded(n) => Guarded(n)'
<1> DEFINE e == [handler[h] EXCEPT !.pc = pc]
<1>1. handler' = [handler EXCEPT ![h] = e] /\ acked' = acked
  BY DEF Continues
<1>2. /\ e \in HandlerRow /\ e.pc = pc /\ e.message = handler[h].message
      /\ e.keyed = handler[h].keyed
  BY AtWork DEF HandlerRow
<1> HIDE DEF e
<1>3. handler[h].message \in Message /\ backend # "local"
  BY AtWork DEF HandlerOK, In
<1> QED  BY <1>1, <1>2, <1>3, HandlerStep

LEMMA GetStep ==
  ASSUME Entering, NEW h \in Handler, idempotency_get(h)
  PROVE  Entering' /\ status' = status
<1> DEFINE m == handler[h].message
<1>1. /\ In(h, "get")
      /\ UNCHANGED <<backend, sensitive, log, status, readable, key, events, excused>>
      /\ IF key[m] \in {"completed", "processing"} THEN Returns(h) ELSE Continues(h, "begin")
  BY DEF idempotency_get
<1>2. m \in Message /\ ~handler[h].keyed /\ ~In(h, "idle") /\ handler[h].pc = "get"
  BY <1>1, AtWork DEF HandlerOK, In
<1>3. Logged' = Logged
  BY <1>1, IntakeTypes
<1>4. CASE key[m] \in {"completed", "processing"}
  <2>1. Guarded(m)
    BY <1>2, <1>4 DEF Entering, Entries
  <2>2. /\ handler' \in [Handler -> HandlerRow] /\ acked' \subseteq Message
        /\ \A g \in Handler : HandlerOK(g)'
        /\ \A n \in Message : Guarded(n) => Guarded(n)'
        /\ \A n \in Message : n \in acked' => n \in acked \/ Guarded(n)'
    BY <1>1, <1>2, <1>3, <1>4, <2>1, ReturnStep
  <2> QED  BY <1>1, <2>2, IntakeTypes, EnteringFrom
<1>5. CASE key[m] \notin {"completed", "processing"}
  <2>1. /\ acked' = acked
        /\ handler' \in [Handler -> HandlerRow] /\ \A g \in Handler : HandlerOK(g)'
        /\ \A n \in Message : Guarded(n) => Guarded(n)'
    BY <1>1, <1>2, <1>3, <1>5, ContinueStep
  <2> QED  BY <1>1, <2>1, IntakeTypes, EnteringFrom
<1> QED  BY <1>4, <1>5

LEMMA BeginStep ==
  ASSUME Entering, NEW h \in Handler, idempotency_begin(h)
  PROVE  Entering' /\ status' = status
<1> DEFINE m == handler[h].message
           free == key[m] \in {"none", "failed"}
<1>1. /\ In(h, "begin")
      /\ UNCHANGED <<backend, sensitive, log, status, readable, events, excused>>
  BY DEF idempotency_begin
<1>2. m \in Message /\ ~handler[h].keyed /\ ~In(h, "idle") /\ backend # "local"
  BY <1>1, AtWork DEF HandlerOK, In
<1>3. Logged' = Logged
  BY <1>1, IntakeTypes
<1>4. key[m] \in {"none", "processing", "completed", "failed"}
  BY <1>2, IntakeTypes
<1>5. CASE ~free
  <2>1. Returns(h) /\ key' = key
    BY <1>5 DEF idempotency_begin
  <2>2. Guarded(m)
    BY <1>2, <1>4, <1>5 DEF Entering, Entries
  <2>3. /\ handler' \in [Handler -> HandlerRow] /\ acked' \subseteq Message
        /\ \A g \in Handler : HandlerOK(g)'
        /\ \A n \in Message : Guarded(n) => Guarded(n)'
        /\ \A n \in Message : n \in acked' => n \in acked \/ Guarded(n)'
    BY <1>1, <1>2, <1>3, <2>1, <2>2, ReturnStep
  <2> QED  BY <1>1, <2>1, <2>3, IntakeTypes, EnteringFrom
<1>6. CASE free
  <2> DEFINE e == [handler[h] EXCEPT !.pc = "insert", !.keyed = TRUE]
  <2>1. /\ handler' = [handler EXCEPT ![h].pc = "insert", ![h].keyed = TRUE]
        /\ acked' = acked /\ key' = [key EXCEPT ![m] = "processing"]
    BY <1>6 DEF idempotency_begin
  <2>2. handler' = [handler EXCEPT ![h] = e]
    BY <2>1, IntakeTypes DEF HandlerRow
  <2>3. e \in HandlerRow /\ e.pc = "insert" /\ e.message = m /\ e.keyed
    BY AtWork DEF HandlerRow
  <2> HIDE DEF e
  <2>4. /\ handler' \in [Handler -> HandlerRow] /\ \A g \in Handler : HandlerOK(g)'
        /\ \A n \in Message : Guarded(n) => Guarded(n)'
    BY <1>1, <1>2, <1>3, <2>2, <2>3, HandlerStep
  <2>5. /\ key' \in [Message -> {"none", "processing", "completed", "failed"}]
        /\ \A n \in Message : n # m => key'[n] = key[n]
    BY <1>2, <2>1, IntakeTypes
  <2>6. handler'[h].message = m /\ handler'[h].keyed
    BY <2>2, <2>3, IntakeTypes
  <2>7. \A n \in Message : n = m => Guarded(n)'
    BY <2>6 DEF Guarded
  <2> QED  BY <1>1, <2>1, <2>4, <2>5, <2>7, IntakeTypes, EnteringFrom
<1> QED  BY <1>5, <1>6

LEMMA UnavailableStep ==
  ASSUME Entering, NEW h \in Handler, idempotency_unavailable(h)
  PROVE  Entering' /\ status' = status
<1>1. /\ Event /\ handler[h].pc \in {"get", "begin"} /\ Continues(h, "insert")
      /\ UNCHANGED <<backend, sensitive, log, status, readable, key, excused>>
  BY DEF idempotency_unavailable
<1>2. Logged' = Logged
  BY <1>1, IntakeTypes
<1>3. /\ acked' = acked
      /\ handler' \in [Handler -> HandlerRow] /\ \A g \in Handler : HandlerOK(g)'
      /\ \A n \in Message : Guarded(n) => Guarded(n)'
  BY <1>1, <1>2, ContinueStep
<1>4. events' \in 0..MaxEvents
  BY <1>1, EventCounted
<1> QED  BY <1>1, <1>3, <1>4, IntakeTypes, EnteringFrom

LEMMA RaisesStep ==
  ASSUME Entering, NEW h \in Handler, receive_raises(h)
  PROVE  Entering' /\ status' = status
<1>1. /\ Event /\ handler[h].pc = "insert" /\ Continues(h, "raised")
      /\ UNCHANGED <<backend, sensitive, log, status, readable, key, excused>>
  BY DEF receive_raises, In
<1>2. Logged' = Logged
  BY <1>1, IntakeTypes
<1>3. /\ acked' = acked
      /\ handler' \in [Handler -> HandlerRow] /\ \A g \in Handler : HandlerOK(g)'
      /\ \A n \in Message : Guarded(n) => Guarded(n)'
  BY <1>1, <1>2, ContinueStep
<1>4. events' \in 0..MaxEvents
  BY <1>1, EventCounted
<1> QED  BY <1>1, <1>3, <1>4, IntakeTypes, EnteringFrom

LEMMA ReceiveStep ==
  ASSUME Entering, NEW h \in Handler, receive(h)
  PROVE  Entering' /\ \A n \in Message : status'[n] = "processed" => status[n] = "processed"
<1> DEFINE m == handler[h].message
<1>1. /\ In(h, "insert") /\ UNCHANGED <<backend, sensitive, readable, key, events, excused>>
      /\ m \in Logged => UNCHANGED <<log, status>>
      /\ m \notin Logged => log' = Append(log, m) /\ status' = [status EXCEPT ![m] = "pending"]
      /\ IF handler[h].keyed THEN Continues(h, "complete") ELSE Returns(h)
  BY DEF receive, receive_command
<1>2. m \in Message /\ ~In(h, "idle") /\ handler[h].pc = "insert"
  BY <1>1, AtWork DEF HandlerOK, In
<1>3. /\ log' \in Seq(Message) /\ Logged' = Logged \cup {m}
      /\ status' \in [Message -> {"none", "pending", "processed", "blocked_sensitive"}]
      /\ \A n \in Message : status'[n] = "processed" => status[n] = "processed"
  BY <1>1, <1>2, LogAppended
<1>4. CASE Returns(h)
  <2>1. /\ handler' \in [Handler -> HandlerRow] /\ acked' \subseteq Message
        /\ \A g \in Handler : HandlerOK(g)'
        /\ \A n \in Message : Guarded(n) => Guarded(n)'
        /\ \A n \in Message : n \in acked' => n \in acked \/ Guarded(n)'
    BY <1>1, <1>2, <1>3, <1>4, ReturnStep
  <2> QED  BY <1>1, <1>3, <2>1, IntakeTypes, EnteringFrom
<1>5. CASE Continues(h, "complete")
  <2>1. /\ acked' = acked
        /\ handler' \in [Handler -> HandlerRow] /\ \A g \in Handler : HandlerOK(g)'
        /\ \A n \in Message : Guarded(n) => Guarded(n)'
    BY <1>1, <1>2, <1>3, <1>5, ContinueStep
  <2> QED  BY <1>1, <1>3, <2>1, IntakeTypes, EnteringFrom
<1> QED  BY <1>1, <1>4, <1>5

LEMMA IdempotencyFailStep ==
  ASSUME Entering, NEW h \in Handler, idempotency_fail(h)
  PROVE  Entering' /\ status' = status
<1> DEFINE m == handler[h].message
<1>1. /\ In(h, "raised") /\ Returns(h) /\ excused' = excused \cup ({m} \ Logged)
      /\ key' = IF handler[h].keyed THEN [key EXCEPT ![m] = "failed"] ELSE key
      /\ UNCHANGED <<backend, sensitive, log, status, readable, events>>
  BY DEF idempotency_fail, Swallows
<1>2. m \in Message /\ ~In(h, "idle")
  BY <1>1, AtWork DEF In
<1>3. Logged' = Logged /\ m \in Logged' \cup excused' /\ excused' \subseteq Message
  BY <1>1, <1>2, IntakeTypes
<1>4. /\ handler' \in [Handler -> HandlerRow] /\ acked' \subseteq Message
      /\ \A g \in Handler : HandlerOK(g)'
      /\ \A n \in Message : Guarded(n) => Guarded(n)'
      /\ \A n \in Message : n \in acked' => n \in acked \/ Guarded(n)'
  BY <1>1, <1>2, <1>3, ReturnStep
<1>5. /\ key' \in [Message -> {"none", "processing", "completed", "failed"}]
      /\ \A n \in Message : key'[n] \in {"processing", "completed"} => key'[n] = key[n]
  BY <1>1, <1>2, IntakeTypes
<1> QED  BY <1>1, <1>3, <1>4, <1>5, IntakeTypes, EnteringFrom

LEMMA IdempotencyCompleteStep ==
  ASSUME Entering, NEW h \in Handler, idempotency_complete(h)
  PROVE  Entering' /\ status' = status
<1> DEFINE m == handler[h].message
<1>1. /\ In(h, "complete") /\ Returns(h) /\ key' = [key EXCEPT ![m] = "completed"]
      /\ UNCHANGED <<backend, sensitive, log, status, readable, events, excused>>
  BY DEF idempotency_complete
<1>2. m \in Message /\ ~In(h, "idle") /\ m \in Logged
  BY <1>1, AtWork DEF HandlerOK, In
<1>3. Logged' = Logged
  BY <1>1, IntakeTypes
<1>4. /\ handler' \in [Handler -> HandlerRow] /\ acked' \subseteq Message
      /\ \A g \in Handler : HandlerOK(g)'
      /\ \A n \in Message : Guarded(n) => Guarded(n)'
      /\ \A n \in Message : n \in acked' => n \in acked \/ Guarded(n)'
  BY <1>1, <1>2, <1>3, ReturnStep
<1>5. /\ key' \in [Message -> {"none", "processing", "completed", "failed"}]
      /\ \A n \in Message : n # m => key'[n] = key[n]
  BY <1>1, <1>2, IntakeTypes
<1>6. \A n \in Message : n = m => Guarded(n)'
  BY <1>2, <1>3 DEF Guarded
<1> QED  BY <1>1, <1>4, <1>5, <1>6, IntakeTypes, EnteringFrom

LEMMA ExpiresStep ==
  ASSUME Entering, NEW m \in Message, key_expires(m)
  PROVE  Entering' /\ status' = status
<1>1. /\ key' = [key EXCEPT ![m] = "none"] /\ (Event \/ UNCHANGED events)
      /\ UNCHANGED <<backend, sensitive, log, status, readable, handler, acked, excused>>
  BY DEF key_expires
<1>2. events' \in 0..MaxEvents
  BY <1>1, EventCounted
<1>3. /\ key' \in [Message -> {"none", "processing", "completed", "failed"}]
      /\ \A n \in Message : key'[n] \in {"processing", "completed"} => key'[n] = key[n]
  BY <1>1, IntakeTypes
<1>4. /\ \A n \in Message : Guarded(n) => Guarded(n)'
      /\ \A g \in Handler : HandlerOK(g)'
  BY <1>1, AtWork DEF Guarded, HandlerOK, In, Logged, Elements
<1> QED  BY <1>1, <1>2, <1>3, <1>4, IntakeTypes, EnteringFrom

LEMMA DiesStep ==
  ASSUME Entering, NEW h \in Handler, receiver_dies(h)
  PROVE  Entering' /\ status' = status
<1> DEFINE m == handler[h].message
<1>1. /\ Event /\ ~In(h, "idle") /\ handler' = [handler EXCEPT ![h] = Unhandled]
      /\ excused' = IF handler[h].keyed /\ m \notin Logged THEN excused \cup {m} ELSE excused
      /\ UNCHANGED <<backend, sensitive, log, status, readable, key, acked>>
  BY DEF receiver_dies
<1>2. /\ m \in Message /\ Unhandled \in HandlerRow
      /\ Unhandled.pc = "idle" /\ Unhandled.keyed = FALSE
  BY <1>1, AtWork
<1>3. /\ Logged' = Logged /\ excused \subseteq excused' /\ excused' \subseteq Message
      /\ handler[h].keyed => m \in Logged' \cup excused'
  BY <1>1, <1>2, IntakeTypes
<1>4. /\ handler' \in [Handler -> HandlerRow] /\ \A g \in Handler : HandlerOK(g)'
      /\ \A n \in Message : Guarded(n) => Guarded(n)'
  BY <1>1, <1>2, <1>3, HandlerStep
<1>5. events' \in 0..MaxEvents
  BY <1>1, EventCounted
<1> QED  BY <1>1, <1>3, <1>4, <1>5, IntakeTypes, EnteringFrom

-----------------------------------------------------------------------------
(* The executor.                                                            *)

LEMMA ExecutorFacts ==
  ASSUME Executing
  PROVE  /\ running \in RunningRow /\ queued \subseteq Task /\ done \subseteq Task
         /\ inflight \subseteq Message /\ Message \subseteq Task /\ None \notin Task
         /\ Cardinality(queued) \in Nat /\ Cardinality(done) \in Nat
         /\ lock_free <=> running.task \notin Task
         /\ lock_free => running = Nothing /\ running.task = None
         /\ SLOTS \in Nat
<1>1. Message \subseteq Task /\ None \notin Task /\ SLOTS \in Nat
  BY IntakeAssumption, RuntimeAssumption DEF Task
<1>2. Cardinality(queued) \in Nat /\ Cardinality(done) \in Nat
  BY FS_CardinalityType DEF Executing, Places
<1>3. lock_free => running = Nothing /\ running.task = None
  BY DEF Executing, Runs, Nothing
<1>4. ~lock_free => running.task \in Task
  BY DEF Executing, Runs
<1> QED  BY <1>1, <1>2, <1>3, <1>4 DEF Executing, ExecutorTypes

(* _submit accepts a task that is nowhere in the executor.                  *)
LEMMA AcceptStep ==
  ASSUME Executing, NEW t \in Task, t \notin queued \cup done \cup {running.task},
         Taken < SLOTS, queued' = queued \cup {t},
         inflight' = inflight \cup (Message \cap {t}),
         UNCHANGED <<running, done, note>>
  PROVE  Executing'
<1>1. IsFiniteSet(queued') /\ Cardinality(queued') = Cardinality(queued) + 1
  BY FS_AddElement DEF Executing, Places
<1>2. Taken' = Taken + 1 /\ Taken \in Nat
  <2>1. /\ Cardinality(queued) \in Nat /\ Cardinality(done) \in Nat
    BY ExecutorFacts
  <2>2. /\ Taken = Cardinality(queued) + Cardinality(done) + (IF lock_free THEN 0 ELSE 1)
        /\ Taken' = Cardinality(queued') + Cardinality(done) + (IF lock_free THEN 0 ELSE 1)
    BY DEF Taken, lock_free
  <2> QED  BY <1>1, <2>1, <2>2
<1>3. Taken' <= SLOTS
  BY <1>2, ExecutorFacts
<1>4. ExecutorTypes'
  BY <1>3, ExecutorFacts DEF Executing, ExecutorTypes
<1>5. Places'
  BY <1>1 DEF Executing, Places
<1>6. Runs'
  BY DEF Executing, Runs, lock_free, Record, note_exists
<1> QED  BY <1>4, <1>5, <1>6 DEF Executing

(* A task has the lock of the space, or has left it again.                  *)
LEMMA HoldsStep ==
  ASSUME Executing, NEW t \in Task, NEW todo \in Seq(Message), Holds(t, todo),
         \/ lock_free /\ t \in queued /\ queued' = queued \ {t}
         \/ ~lock_free /\ t = running.task /\ queued' = queued,
         inflight' = inflight
  PROVE  Executing'
<1>1. /\ IsFiniteSet(queued) /\ IsFiniteSet(done) /\ queued \cap done = {}
      /\ running.task \notin queued \cup done
      /\ Cardinality(queued) \in Nat /\ Cardinality(done) \in Nat
  BY ExecutorFacts DEF Executing, Places
<1>2. /\ t \notin done /\ t \notin queued' /\ IsFiniteSet(queued') /\ queued' \subseteq queued
      /\ Cardinality(queued') \in Nat
      /\ Cardinality(queued') + 1 = Cardinality(queued) + (IF lock_free THEN 0 ELSE 1)
  <2>1. CASE lock_free /\ t \in queued /\ queued' = queued \ {t}
    <3>1. IsFiniteSet(queued') /\ Cardinality(queued') = Cardinality(queued) - 1
      BY <1>1, <2>1, FS_RemoveElement
    <3>2. Cardinality(queued') \in Nat
      BY <3>1, FS_CardinalityType
    <3> QED  BY <1>1, <2>1, <3>1, <3>2
  <2>2. CASE ~lock_free /\ t = running.task /\ queued' = queued
    BY <1>1, <2>2
  <2> QED  BY <2>1, <2>2
<1>3. Taken = Cardinality(queued) + Cardinality(done) + (IF lock_free THEN 0 ELSE 1)
  BY DEF Taken
<1>4. Taken <= SLOTS /\ SLOTS \in Nat
  BY ExecutorFacts DEF Executing, ExecutorTypes
<1>5. Message \cap (queued \cup done \cup {running.task}) = inflight
  BY DEF Executing, ExecutorTypes
<1>6. queued' \cup done \cup {t} = (queued \cup done \cup {running.task}) \cap Task
  BY <1>1, <1>2, ExecutorFacts
<1>7. CASE todo = <<>>
  <2>1. running' = Nothing /\ done' = done \cup {t}
    BY <1>7 DEF Holds
  <2>2. running' \in RunningRow /\ running'.task = None /\ running'.pc = "free"
    BY <2>1, EmptySeq DEF RunningRow, Nothing
  <2>3. IsFiniteSet(done') /\ Cardinality(done') = Cardinality(done) + 1
    BY <1>1, <1>2, <2>1, FS_AddElement
  <2>4. Taken' = Cardinality(queued') + Cardinality(done') + 0
    BY <2>2 DEF Taken, lock_free
  <2>5. Taken' <= SLOTS
    BY <1>1, <1>2, <1>3, <1>4, <2>3, <2>4
  <2>6. Message \cap (queued' \cup done' \cup {running'.task}) = inflight'
    BY <1>5, <1>6, <2>1, <2>2, IntakeAssumption, ExecutorFacts
  <2>7. ExecutorTypes'
    BY <1>2, <2>1, <2>2, <2>5, <2>6, ExecutorFacts DEF ExecutorTypes
  <2>8. Places'
    BY <1>1, <1>2, <2>1, <2>2, <2>3, ExecutorFacts DEF Places
  <2>9. Runs'
    BY <2>1, <2>2 DEF Runs, lock_free
  <2> QED  BY <2>7, <2>8, <2>9 DEF Executing
<1>8. CASE todo # <<>>
  <2>1. running' = [pc |-> "record", task |-> t, todo |-> todo] /\ done' = done
    BY <1>8 DEF Holds
  <2>2. /\ running' \in RunningRow /\ running'.task = t /\ running'.pc = "record"
        /\ running'.todo = todo
    BY <2>1 DEF RunningRow
  <2>3. Taken' = Cardinality(queued') + Cardinality(done) + 1
    BY <2>1, <2>2 DEF Taken, lock_free
  <2>4. Taken' <= SLOTS
    BY <1>1, <1>2, <1>3, <1>4, <2>3
  <2>5. Message \cap (queued' \cup done' \cup {running'.task}) = inflight'
    BY <1>5, <1>6, <2>1, <2>2, ExecutorFacts
  <2>6. ExecutorTypes'
    BY <1>2, <2>1, <2>2, <2>4, <2>5, ExecutorFacts DEF ExecutorTypes
  <2>7. Places'
    BY <1>1, <1>2, <2>1, <2>2 DEF Places
  <2>8. Runs'
    BY <1>8, <2>2 DEF Runs, lock_free
  <2> QED  BY <2>6, <2>7, <2>8 DEF Executing
<1> QED  BY <1>7, <1>8

(* finally: the task leaves the executor, its message is no longer in       *)
(* flight.                                                                  *)
LEMMA LeaveStep ==
  ASSUME Executing, NEW t \in done, done' = done \ {t}, inflight' = inflight \ {t},
         UNCHANGED <<queued, running, note>>
  PROVE  Executing'
<1>1. /\ IsFiniteSet(queued) /\ IsFiniteSet(done) /\ queued \cap done = {}
      /\ running.task \notin queued \cup done
      /\ Cardinality(queued) \in Nat /\ Cardinality(done) \in Nat
  BY ExecutorFacts DEF Executing, Places
<1>2. /\ IsFiniteSet(done') /\ Cardinality(done') = Cardinality(done) - 1
  BY <1>1, FS_RemoveElement
<1>3. Cardinality(done') \in Nat
  BY <1>2, FS_CardinalityType
<1>4. /\ Taken = Cardinality(queued) + Cardinality(done) + (IF lock_free THEN 0 ELSE 1)
      /\ Taken' = Cardinality(queued) + Cardinality(done') + (IF lock_free THEN 0 ELSE 1)
  BY DEF Taken, lock_free
<1>5. Taken <= SLOTS /\ SLOTS \in Nat
  BY ExecutorFacts DEF Executing, ExecutorTypes
<1>6. Taken' <= SLOTS
  BY <1>1, <1>2, <1>3, <1>4, <1>5
<1>7. ExecutorTypes'
  BY <1>1, <1>6 DEF Executing, ExecutorTypes
<1>8. Places'
  BY <1>1, <1>2 DEF Places
<1>9. Runs'
  BY DEF Executing, Runs, lock_free, Record, note_exists
<1> QED  BY <1>7, <1>8, <1>9 DEF Executing

(* process_record goes on with the record.                                  *)
LEMMA GoesStep ==
  ASSUME Executing, ~lock_free, NEW pc \in {"index", "mark"}, Goes(pc),
         UNCHANGED <<queued, done, inflight>>,
         pc = "index" => note'[Record].status = "none",
         pc = "mark" => note'[Record].status # "none"
  PROVE  Executing'
<1>1. running \in RunningRow /\ running.task \in Task /\ running.todo # <<>>
  BY ExecutorFacts DEF Executing, Runs
<1>2. /\ running' \in RunningRow /\ running'.pc = pc
      /\ running'.task = running.task /\ running'.todo = running.todo
  BY <1>1 DEF Goes, RunningRow
<1>3. Taken' = Taken
  BY <1>2 DEF Taken, lock_free
<1>4. ExecutorTypes' /\ Places'
  BY <1>2, <1>3 DEF Executing, ExecutorTypes, Places
<1>5. Record' = Record /\ ~lock_free'
  BY <1>2 DEF Record, lock_free
<1>6. Runs'
  BY <1>1, <1>2, <1>5 DEF Runs, note_exists
<1> QED  BY <1>4, <1>6 DEF Executing

(* The record that is processed.                                            *)
LEMMA RecordIn ==
  ASSUME Executing, running.pc \in {"record", "index", "mark"}
  PROVE  /\ Record \in Message /\ Tail(running.todo) \in Seq(Message)
         /\ running.task \in Task /\ ~lock_free
<1>1. ~lock_free
  BY DEF lock_free
<1>2. running.todo \in Seq(Message) /\ running.todo # <<>> /\ running.task \in Task
  BY <1>1 DEF Executing, ExecutorTypes, RunningRow, Runs
<1> QED  BY <1>1, <1>2, HeadTailProperties DEF Record

(* A step that touches neither the entry nor the executor, except events.   *)
LEMMA NoIntakeKept ==
  ASSUME Entering, NoIntake, excused' = excused, Event \/ UNCHANGED events
  PROVE  Entering' /\ UNCHANGED <<log, status>>
<1>1. events' \in 0..MaxEvents
  BY EventCounted
<1>2. UNCHANGED <<backend, sensitive, log, readable, key, handler, acked, excused, status>>
  BY DEF NoIntake
<1> QED  BY <1>1, <1>2, IntakeTypes, EnteringKept

LEMMA NoteFacts ==
  ASSUME Noting
  PROVE  /\ note \in [Message -> NoteRow] /\ drainer \in Seq(Message) /\ indexed \in BOOLEAN
         /\ enrichment \in [pc: {"free", "queued", "enrich"}, message: Message \cup {None}]
         /\ \A m \in Message : status[m] = "processed" => note_exists(m)
         /\ \A m \in Message : note[m].status \in {"none", "provisional"} => note[m].attempts = 0
         /\ enrichment.pc # "free" =>
              enrichment.message \in Message /\ note_exists(enrichment.message)
         /\ ENRICHMENT_MAX_ATTEMPTS \in Nat
BY RuntimeAssumption DEF Noting, FileTypes, Notes

-----------------------------------------------------------------------------
(* The operations of the executor, one by one.                              *)

LEMMA SubmitIngest ==
  ASSUME Executing, NEW m \in Message, submit_ingest(m), UNCHANGED <<running, done, note>>
  PROVE  Executing'
<1>1. CASE rejected(m)
  <2>1. UNCHANGED <<queued, inflight>>
    BY <1>1 DEF submit_ingest
  <2> QED  BY <2>1, ExecutingKept DEF note_exists
<1>2. CASE ~rejected(m)
  <2>1. queued' = queued \cup {m} /\ inflight' = inflight \cup {m}
    BY <1>2 DEF submit_ingest
  <2>2. m \notin inflight /\ Taken # SLOTS
    BY <1>2 DEF rejected
  <2>3. m \notin queued \cup done \cup {running.task} /\ Taken <= SLOTS
    BY <2>2 DEF Executing, ExecutorTypes
  <2>4. Taken < SLOTS
    <3>1. Taken \in Nat /\ SLOTS \in Nat
      BY ExecutorFacts DEF Taken
    <3> QED  BY <2>2, <2>3, <3>1
  <2>5. m \in Task /\ inflight' = inflight \cup (Message \cap {m})
    BY <2>1, ExecutorFacts
  <2> QED  BY <2>1, <2>3, <2>4, <2>5, AcceptStep
<1> QED  BY <1>1, <1>2

LEMMA SubmitMessageStep ==
  ASSUME IInv, NEW h \in Handler, submit_message(h)
  PROVE  IInv'
<1>1. /\ In(h, "submit") /\ submit_ingest(handler[h].message) /\ Returns(h)
      /\ UNCHANGED <<backend, sensitive, log, status, readable, key, events, excused,
                     running, done, drainer, note, indexed, enrichment>>
  BY DEF submit_message
<1>2. Entering /\ Executing /\ Noting
  BY DEF IInv
<1>3. handler[h].message \in Message /\ handler[h].message \in Logged /\ ~In(h, "idle")
  BY <1>1, <1>2, AtWork DEF HandlerOK, In
<1>4. Logged' = Logged
  BY <1>1, <1>2, IntakeTypes
<1>5. /\ handler' \in [Handler -> HandlerRow] /\ acked' \subseteq Message
      /\ \A g \in Handler : HandlerOK(g)'
      /\ \A n \in Message : Guarded(n) => Guarded(n)'
      /\ \A n \in Message : n \in acked' => n \in acked \/ Guarded(n)'
  BY <1>1, <1>2, <1>3, <1>4, ReturnStep
<1>6. Entering'
  BY <1>1, <1>2, <1>5, IntakeTypes, EnteringFrom
<1>7. Executing'
  BY <1>1, <1>2, <1>3, SubmitIngest
<1>8. Noting'
  BY <1>1, <1>2, NoteFacts, NotingKept
<1> QED  BY <1>6, <1>7, <1>8 DEF IInv

LEMMA SubmitQueryStep ==
  ASSUME IInv, NEW q \in Query, submit_query(q)
  PROVE  IInv'
<1>1. /\ Event /\ q \notin queued \cup done \cup {running.task} /\ Taken < SLOTS
      /\ queued' = queued \cup {q} /\ NoIntake
      /\ UNCHANGED <<excused, running, done, inflight, drainer, note, indexed, enrichment>>
  BY DEF submit_query
<1>2. Entering /\ Executing /\ Noting
  BY DEF IInv
<1>3. Entering' /\ UNCHANGED <<log, status>>
  BY <1>1, <1>2, NoIntakeKept
<1>4. q \in Task /\ inflight' = inflight \cup (Message \cap {q})
  BY <1>1, RuntimeAssumption DEF Task
<1>5. Executing'
  BY <1>1, <1>2, <1>4, AcceptStep
<1>6. Noting'
  BY <1>1, <1>2, <1>3, NoteFacts, NotingKept
<1> QED  BY <1>3, <1>5, <1>6 DEF IInv

LEMMA RunTaskStep ==
  ASSUME IInv, NEW t \in Task, run_task(t)
  PROVE  IInv'
<1> DEFINE todo == CASE t \in Message -> <<t>>
                     [] t \in Query /\ readable -> pending_records
                     [] OTHER -> <<>>
<1>1. /\ t \in queued /\ lock_free /\ queued' = queued \ {t} /\ Holds(t, todo) /\ NoIntake
      /\ UNCHANGED <<events, excused, inflight, drainer, note, indexed, enrichment>>
  BY DEF run_task
<1>2. Entering /\ Executing /\ Noting
  BY DEF IInv
<1>3. Entering' /\ UNCHANGED <<log, status>>
  BY <1>1, <1>2, NoIntakeKept
<1>4. todo \in Seq(Message)
  <2>1. CASE t \in Message
    <3>1. todo = <<t>>
      BY <2>1, RuntimeAssumption
    <3> HIDE DEF todo
    <3> QED  BY <2>1, <3>1
  <2>2. pending_records \in Seq(Message) /\ <<>> \in Seq(Message)
    BY <1>2, IntakeTypes, PendingRecords, EmptySeq
  <2>3. CASE t \notin Message
    <3>1. todo = pending_records \/ todo = <<>>
      BY <2>3
    <3> HIDE DEF todo
    <3> QED  BY <2>2, <3>1
  <2> QED  BY <2>1, <2>3
<1> HIDE DEF todo
<1>5. Executing'
  BY <1>1, <1>2, <1>4, HoldsStep
<1>6. Noting'
  BY <1>1, <1>2, <1>3, NoteFacts, NotingKept
<1> QED  BY <1>3, <1>5, <1>6 DEF IInv

LEMMA BeginRecordStep ==
  ASSUME IInv, begin_record
  PROVE  IInv'
<1>1. /\ running.pc = "record" /\ process_record
      /\ UNCHANGED <<backend, sensitive, log, readable, key, handler, acked, events, excused,
                     queued, done, inflight, drainer, note, indexed, enrichment>>
  BY DEF begin_record
<1>2. Entering /\ Executing /\ Noting
  BY DEF IInv
<1>3. status' = status /\ (note_exists(Record) => Goes("mark"))
      /\ (~note_exists(Record) => Goes("index"))
  BY <1>1 DEF process_record
<1>4. Entering'
  BY <1>1, <1>2, <1>3, IntakeTypes, EnteringKept
<1>5. ~lock_free
  BY <1>1 DEF lock_free
<1>6. Executing'
  <2>1. CASE note_exists(Record)
    <3>1. note'[Record].status # "none" /\ Goes("mark")
      BY <1>1, <1>3, <2>1 DEF note_exists
    <3> QED  BY <1>1, <1>2, <1>5, <3>1, GoesStep
  <2>2. CASE ~note_exists(Record)
    <3>1. note'[Record].status = "none" /\ Goes("index")
      BY <1>1, <1>3, <2>2 DEF note_exists
    <3> QED  BY <1>1, <1>2, <1>5, <3>1, GoesStep
  <2> QED  BY <2>1, <2>2
<1>7. Noting'
  BY <1>1, <1>2, <1>3, NoteFacts, NotingKept
<1> QED  BY <1>4, <1>6, <1>7 DEF IInv

LEMMA SaveNoteStep ==
  ASSUME IInv, save_note
  PROVE  IInv'
<1> DEFINE row == [note[Record] EXCEPT !.status = "provisional"]
<1>1. /\ running.pc = "index" /\ note' = [note EXCEPT ![Record].status = "provisional"]
      /\ Goes("mark") /\ NoIntake
      /\ UNCHANGED <<events, excused, queued, done, inflight, drainer, indexed, enrichment>>
  BY DEF save_note
<1>2. Entering /\ Executing /\ Noting
  BY DEF IInv
<1>3. Entering' /\ UNCHANGED <<log, status>>
  BY <1>1, <1>2, NoIntakeKept
<1>4. Record \in Message /\ ~lock_free /\ note[Record].status = "none"
  BY <1>1, <1>2, RecordIn DEF Executing, Runs, note_exists
<1>5. row \in NoteRow /\ row.status = "provisional" /\ row.attempts = 0
  BY <1>2, <1>4, NoteFacts DEF NoteRow
<1>6. note' = [note EXCEPT ![Record] = row]
  BY <1>1
<1> HIDE DEF row
<1>7. /\ note' \in [Message -> NoteRow]
      /\ \A m \in Message : note'[m] = IF m = Record THEN row ELSE note[m]
  BY <1>2, <1>4, <1>5, <1>6, NoteFacts
<1>8. Executing'
  BY <1>1, <1>2, <1>4, <1>5, <1>7, GoesStep
<1>9. FileTypes'
  BY <1>1, <1>2, <1>7, NoteFacts DEF FileTypes
<1>10. \A m \in Message : note_exists(m) => note_exists(m)'
  BY <1>5, <1>7 DEF note_exists
<1>11. Notes'
  BY <1>1, <1>2, <1>3, <1>5, <1>7, <1>10, NoteFacts DEF Notes
<1>12. Noting'
  BY <1>9, <1>11 DEF Noting
<1> QED  BY <1>3, <1>8, <1>12 DEF IInv

LEMMA MarkProcessedStep ==
  ASSUME IInv, mark_processed
  PROVE  IInv'
<1>1. /\ running.pc = "mark" /\ Holds(running.task, Tail(running.todo))
      /\ status' = IF Record \in Logged THEN [status EXCEPT ![Record] = "processed"] ELSE status
      /\ UNCHANGED <<backend, sensitive, log, readable, key, handler, acked, events, excused,
                     queued, inflight, drainer, note, indexed, enrichment>>
  BY DEF mark_processed, NextRecord
<1>2. Entering /\ Executing /\ Noting
  BY DEF IInv
<1>3. /\ Record \in Message /\ Tail(running.todo) \in Seq(Message)
      /\ running.task \in Task /\ ~lock_free
  BY <1>1, <1>2, RecordIn
<1>4. note_exists(Record)
  BY <1>1, <1>2 DEF Executing, Runs
<1>5. /\ status' \in [Message -> {"none", "pending", "processed", "blocked_sensitive"}]
      /\ \A m \in Message : m # Record => status'[m] = status[m]
  BY <1>1, <1>2, <1>3, IntakeTypes
<1>6. Entering'
  BY <1>1, <1>2, <1>5, IntakeTypes, EnteringKept
<1>7. Executing'
  BY <1>1, <1>2, <1>3, HoldsStep
<1>8. \A m \in Message : status'[m] = "processed" => note_exists(m)
  BY <1>2, <1>4, <1>5, NoteFacts
<1>9. Noting'
  BY <1>1, <1>2, <1>8, NoteFacts, NotingKept
<1> QED  BY <1>6, <1>7, <1>9 DEF IInv

LEMMA RecordRaisesStep ==
  ASSUME IInv, record_raises
  PROVE  IInv'
<1>1. /\ running.pc \in {"record", "index", "mark"} /\ (Event \/ UNCHANGED events)
      /\ Holds(running.task, Tail(running.todo)) /\ NoIntake
      /\ UNCHANGED <<excused, queued, inflight, drainer, note, indexed, enrichment>>
  BY DEF record_raises, NextRecord
<1>2. Entering /\ Executing /\ Noting
  BY DEF IInv
<1>3. Entering' /\ UNCHANGED <<log, status>>
  BY <1>1, <1>2, NoIntakeKept
<1>4. Executing'
  BY <1>1, <1>2, RecordIn, HoldsStep
<1>5. Noting'
  BY <1>1, <1>2, <1>3, NoteFacts, NotingKept
<1> QED  BY <1>3, <1>4, <1>5 DEF IInv

LEMMA FinishTaskStep ==
  ASSUME IInv, NEW t \in Task, finish_task(t)
  PROVE  IInv'
<1>1. /\ t \in done /\ done' = done \ {t} /\ inflight' = inflight \ {t} /\ NoIntake
      /\ \/ t \in Message /\ note_exists(t) /\ submit_enrichment(t)
         \/ UNCHANGED enrichment
      /\ UNCHANGED <<events, excused, queued, running, drainer, note, indexed>>
  BY DEF finish_task, on_finished
<1>2. Entering /\ Executing /\ Noting
  BY DEF IInv
<1>3. Entering' /\ UNCHANGED <<log, status>>
  BY <1>1, <1>2, NoIntakeKept
<1>4. Executing'
  BY <1>1, <1>2, LeaveStep
<1>5. CASE UNCHANGED enrichment
  <2>1. Noting'
    BY <1>1, <1>2, <1>3, <1>5, NoteFacts, NotingKept
  <2> QED  BY <1>3, <1>4, <2>1 DEF IInv
<1>6. CASE t \in Message /\ note_exists(t) /\ enrichment' = [pc |-> "queued", message |-> t]
  <2>1. /\ enrichment' \in [pc: {"free", "queued", "enrich"}, message: Message \cup {None}]
        /\ enrichment'.message = t
    BY <1>6
  <2>2. FileTypes'
    BY <1>1, <1>2, <2>1, NoteFacts DEF FileTypes
  <2>3. Notes'
    BY <1>1, <1>2, <1>3, <1>6, <2>1, NoteFacts DEF Notes, note_exists
  <2> QED  BY <1>3, <1>4, <2>2, <2>3 DEF IInv, Noting
<1> QED  BY <1>1, <1>5, <1>6 DEF submit_enrichment

-----------------------------------------------------------------------------
(* The drainers, and the enrichment of notes.                               *)

LEMMA LoadPendingStep ==
  ASSUME IInv, load_pending_records
  PROVE  IInv'
<1>1. /\ drainer' = FirstOf(pending_records, PENDING_DRAIN_BATCH_SIZE) /\ NoIntake
      /\ UNCHANGED <<events, excused, queued, running, done, inflight, note, indexed, enrichment>>
  BY DEF load_pending_records, executor
<1>2. Entering /\ Executing /\ Noting
  BY DEF IInv
<1>3. Entering' /\ UNCHANGED <<log, status>>
  BY <1>1, <1>2, NoIntakeKept
<1>4. Executing'
  BY <1>1, <1>2, ExecutingKept DEF note_exists
<1>5. drainer' \in Seq(Message)
  <2> DEFINE n == IF Len(pending_records) < PENDING_DRAIN_BATCH_SIZE
                  THEN Len(pending_records) ELSE PENDING_DRAIN_BATCH_SIZE
  <2>1. pending_records \in Seq(Message)
    BY <1>2, IntakeTypes, PendingRecords
  <2>2. Len(pending_records) \in Nat /\ PENDING_DRAIN_BATCH_SIZE \in Nat
    BY <2>1, LenProperties, RuntimeAssumption
  <2>3. n \in 0..Len(pending_records)
    BY <2>2
  <2>4. drainer' = SubSeq(pending_records, 1, n)
    BY <1>1 DEF FirstOf
  <2> HIDE DEF n
  <2> QED  BY <2>1, <2>3, <2>4, ElementsOf
<1>6. Noting'
  BY <1>1, <1>2, <1>3, <1>5, NoteFacts, NotingKept
<1> QED  BY <1>3, <1>4, <1>6 DEF IInv

LEMMA DrainOnceStep ==
  ASSUME IInv, drain_once
  PROVE  IInv'
<1> DEFINE m == Head(drainer)
<1>1. /\ drainer # <<>> /\ NoIntake
      /\ UNCHANGED <<events, excused, running, done, note, indexed, enrichment>>
      /\ drainer' = Tail(drainer) \/ drainer' = <<>>
      /\ UNCHANGED <<queued, inflight>> \/ submit_ingest(m)
  BY DEF drain_once
<1>2. Entering /\ Executing /\ Noting
  BY DEF IInv
<1>3. Entering' /\ UNCHANGED <<log, status>>
  BY <1>1, <1>2, NoIntakeKept
<1>4. drainer \in Seq(Message)
  BY <1>2, NoteFacts
<1>5. m \in Message /\ Tail(drainer) \in Seq(Message) /\ <<>> \in Seq(Message)
  BY <1>1, <1>4, HeadTailProperties, EmptySeq
<1>6. Executing'
  <2>1. CASE UNCHANGED <<queued, inflight>>
    BY <1>1, <1>2, <2>1, ExecutingKept DEF note_exists
  <2>2. CASE submit_ingest(m)
    <3> HIDE DEF m
    <3> QED  BY <1>1, <1>2, <1>5, <2>2, SubmitIngest
  <2> QED  BY <1>1, <2>1, <2>2
<1>7. Noting'
  BY <1>1, <1>2, <1>3, <1>5, NoteFacts, NotingKept
<1> QED  BY <1>3, <1>6, <1>7 DEF IInv

LEMMA DrainEnrichmentStep ==
  ASSUME IInv, NEW m \in Message, drain_enrichment(m)
  PROVE  IInv'
<1>1. /\ m \in list_pending_enrichments /\ enrichment' = [pc |-> "queued", message |-> m]
      /\ NoIntake
      /\ UNCHANGED <<events, excused, queued, running, done, inflight, drainer, note, indexed>>
  BY DEF drain_enrichment, submit_enrichment, executor
<1>2. Entering /\ Executing /\ Noting
  BY DEF IInv
<1>3. Entering' /\ UNCHANGED <<log, status>>
  BY <1>1, <1>2, NoIntakeKept
<1>4. Executing'
  BY <1>1, <1>2, ExecutingKept DEF note_exists
<1>5. note_exists(m)
  BY <1>1 DEF list_pending_enrichments, note_exists
<1>6. /\ enrichment' \in [pc: {"free", "queued", "enrich"}, message: Message \cup {None}]
      /\ enrichment'.message = m
  BY <1>1
<1>7. FileTypes'
  BY <1>1, <1>2, <1>6, NoteFacts DEF FileTypes
<1>8. Notes'
  BY <1>1, <1>2, <1>3, <1>5, <1>6, NoteFacts DEF Notes, note_exists
<1> QED  BY <1>3, <1>4, <1>7, <1>8 DEF IInv, Noting

(* A note that exists is written again, and stays a note.                   *)
LEMMA RewriteNote ==
  ASSUME Entering, Executing, Noting, NEW m \in Message, note_exists(m), NEW row \in NoteRow,
         row.status \in {"enriching", "failed", "ready"},
         note' = [note EXCEPT ![m] = row],
         enrichment' \in [pc: {"free", "queued", "enrich"}, message: Message \cup {None}],
         enrichment'.pc # "free" => enrichment'.message = m,
         UNCHANGED <<status, queued, running, done, inflight, drainer, indexed>>
  PROVE  Executing' /\ Noting'
<1>1. /\ note' \in [Message -> NoteRow]
      /\ \A n \in Message : note'[n] = IF n = m THEN row ELSE note[n]
  BY NoteFacts
<1>2. \A n \in Message : note_exists(n)' <=> note_exists(n)
  BY <1>1 DEF note_exists
<1>3. Executing'
  BY <1>2, ExecutingKept
<1>4. FileTypes'
  BY <1>1, NoteFacts DEF FileTypes
<1>5. \A n \in Message : status'[n] = "processed" => note_exists(n)'
  BY <1>2, NoteFacts
<1>6. \A n \in Message : note'[n].status \in {"none", "provisional"} => note'[n].attempts = 0
  BY <1>1, NoteFacts
<1>7. enrichment'.pc # "free" => enrichment'.message \in Message /\ note'[m].status # "none"
  BY <1>1
<1>8. Notes'
  BY <1>5, <1>6, <1>7 DEF Notes, note_exists
<1> QED  BY <1>3, <1>4, <1>8 DEF Noting

LEMMA StartEnrichmentStep ==
  ASSUME IInv, start_enrichment
  PROVE  IInv'
<1> DEFINE m == enrichment.message
           over == ~indexed \/ nothing_to_enrich(m)
           row == [status |-> "enriching", attempts |-> note[m].attempts + 1]
<1>1. /\ enrichment.pc = "queued" /\ NoIntake
      /\ enrichment' = IF over THEN NoEnrichment ELSE [enrichment EXCEPT !.pc = "enrich"]
      /\ note' = IF over THEN note ELSE [note EXCEPT ![m] = row]
      /\ UNCHANGED <<events, excused, queued, running, done, inflight, drainer, indexed>>
  BY DEF start_enrichment, executor
<1>2. Entering /\ Executing /\ Noting
  BY DEF IInv
<1>3. Entering' /\ UNCHANGED <<log, status>>
  BY <1>1, <1>2, NoIntakeKept
<1>4. m \in Message /\ note_exists(m) /\ note[m] \in NoteRow
  BY <1>1, <1>2, NoteFacts
<1>5. CASE over
  <2>1. note' = note /\ enrichment' = NoEnrichment
    BY <1>1, <1>5
  <2>2. Executing'
    BY <1>1, <1>2, <2>1, ExecutingKept DEF note_exists
  <2>3. /\ enrichment' \in [pc: {"free", "queued", "enrich"}, message: Message \cup {None}]
        /\ enrichment'.pc = "free"
    BY <2>1 DEF NoEnrichment
  <2>4. FileTypes'
    BY <1>1, <1>2, <2>1, <2>3, NoteFacts DEF FileTypes
  <2>5. Notes'
    BY <1>2, <1>3, <2>1, <2>3, NoteFacts DEF Notes, note_exists
  <2> QED  BY <1>3, <2>2, <2>4, <2>5 DEF IInv, Noting
<1>6. CASE ~over
  <2>1. note' = [note EXCEPT ![m] = row] /\ enrichment' = [enrichment EXCEPT !.pc = "enrich"]
    BY <1>1, <1>6
  <2>2. /\ note[m].status \in {"none", "provisional", "enriching", "failed", "ready"}
        /\ note[m].attempts \in 0..ENRICHMENT_MAX_ATTEMPTS /\ ENRICHMENT_MAX_ATTEMPTS \in Nat
        /\ note[m].status # "none" /\ note[m].status # "ready"
        /\ note[m].status = "provisional" => note[m].attempts = 0
        /\ note[m].status \in {"failed", "enriching"}
             => ~(note[m].attempts >= ENRICHMENT_MAX_ATTEMPTS)
    BY <1>2, <1>4, <1>6, NoteFacts DEF nothing_to_enrich, note_exists, NoteRow
  <2>3. ENRICHMENT_MAX_ATTEMPTS >= 1
    BY RuntimeAssumption
  <2>4. row \in NoteRow /\ row.status = "enriching"
    <3>1. note[m].attempts + 1 \in 0..ENRICHMENT_MAX_ATTEMPTS
      BY <2>2, <2>3
    <3> QED  BY <3>1 DEF NoteRow
  <2>5. /\ enrichment' \in [pc: {"free", "queued", "enrich"}, message: Message \cup {None}]
        /\ enrichment'.message = m
    BY <1>2, <2>1, NoteFacts
  <2> HIDE DEF row, m
  <2>6. Executing' /\ Noting'
    BY <1>1, <1>2, <1>3, <1>4, <2>1, <2>4, <2>5, RewriteNote
  <2> QED  BY <1>3, <2>6 DEF IInv
<1> QED  BY <1>5, <1>6

LEMMA EnrichNoteStep ==
  ASSUME IInv, NEW result \in {"ready", "failed"}, enrich_note(result)
  PROVE  IInv'
<1> DEFINE m == enrichment.message
           row == [note[m] EXCEPT !.status = result]
<1>1. /\ enrichment.pc = "enrich" /\ (Event \/ UNCHANGED events) /\ NoIntake
      /\ note' = [note EXCEPT ![m].status = result] /\ enrichment' = NoEnrichment
      /\ UNCHANGED <<excused, queued, running, done, inflight, drainer, indexed>>
  BY DEF enrich_note, executor
<1>2. Entering /\ Executing /\ Noting
  BY DEF IInv
<1>3. Entering' /\ UNCHANGED <<log, status>>
  BY <1>1, <1>2, NoIntakeKept
<1>4. m \in Message /\ note_exists(m) /\ note[m] \in NoteRow
  BY <1>1, <1>2, NoteFacts
<1>5. row \in NoteRow /\ row.status = result
  BY <1>4 DEF NoteRow
<1>6. note' = [note EXCEPT ![m] = row]
  BY <1>1
<1>7. /\ enrichment' \in [pc: {"free", "queued", "enrich"}, message: Message \cup {None}]
      /\ enrichment'.pc = "free"
  BY <1>1 DEF NoEnrichment
<1> HIDE DEF row, m
<1>8. Executing' /\ Noting'
  BY <1>1, <1>2, <1>3, <1>4, <1>5, <1>6, <1>7, RewriteNote
<1> QED  BY <1>3, <1>8 DEF IInv

-----------------------------------------------------------------------------
(* The process dies.  Only the local runtime does so as a whole, where no   *)
(* handler ever holds a key: what was acknowledged is in the log, and what  *)
(* the cut takes from the log is excused.                                   *)
LEMMA CrashStep ==
  ASSUME IInv, NEW left \in 0..Len(log), NEW parsed \in BOOLEAN, NEW index \in BOOLEAN,
         crash(left, parsed, index)
  PROVE  IInv'
<1>1. /\ Event /\ backend = "local" /\ (left = Len(log) \/ Rewriting)
      /\ log' = SubSeq(log, 1, left)
      /\ status' = [m \in Message |->
           CASE m \notin Elements(log') -> "none"
             [] m \in Elements(log') /\ left < Len(log) /\ m = Record -> "processed"
             [] OTHER -> status[m]]
      /\ readable' = parsed /\ indexed' = index
      /\ handler' = [h \in Handler |-> Unhandled]
      /\ queued' = {} /\ done' = {} /\ running' = Nothing /\ inflight' = {}
      /\ drainer' = <<>> /\ enrichment' = NoEnrichment
      /\ UNCHANGED <<backend, sensitive, key, acked, note>>
  BY DEF crash
<1>2. excused' = excused \cup (Logged \ Elements(log'))
                  \cup (IF indexed /\ ~index THEN {m \in Message : note_exists(m)} ELSE {})
  BY DEF crash
<1>3. Entering /\ Executing /\ Noting
  BY DEF IInv
<1>4. log \in Seq(Message) /\ Len(log) \in Nat /\ Logged \subseteq Message
  BY <1>3, IntakeTypes, LenProperties, ElementsOf DEF Logged
<1>5. log' \in Seq(Message)
  BY <1>1, <1>4, ElementsOf
<1>6. ASSUME NEW m \in Message
      PROVE  \/ status'[m] = "none" \/ status'[m] = status[m]
             \/ status'[m] = "processed" /\ m = Record /\ left < Len(log)
  BY <1>1
<1>7. left < Len(log) => running.pc = "mark"
  BY <1>1, <1>4 DEF Rewriting
<1>8. \A m \in Message : status'[m] = "processed" => note_exists(m)
  <2>1. left < Len(log) => note_exists(Record)
    BY <1>3, <1>7 DEF Executing, Runs
  <2> QED  BY <1>3, <1>6, <2>1, NoteFacts
<1>9. status' \in [Message -> {"none", "pending", "processed", "blocked_sensitive"}]
  <2>1. \A m \in Message : status'[m] \in {"none", "pending", "processed", "blocked_sensitive"}
    BY <1>3, <1>6, IntakeTypes
  <2>2. status' = [m \in Message |-> status'[m]]
    BY <1>1
  <2> QED  BY <2>1, <2>2
<1>10. excused' \subseteq Message /\ excused \subseteq excused'
  BY <1>2, <1>3, <1>4, IntakeTypes
<1>11. /\ handler' \in [Handler -> HandlerRow]
       /\ \A h \in Handler : handler'[h].pc = "idle" /\ ~handler'[h].keyed
  <2>1. Unhandled \in HandlerRow /\ Unhandled.pc = "idle" /\ Unhandled.keyed = FALSE
    BY DEF Unhandled, HandlerRow
  <2> QED  BY <1>1, <2>1
<1>12. IntakeTypeOK'
  <2>1. events' \in 0..MaxEvents
    BY <1>1, <1>3, EventCounted
  <2>2. readable' \in BOOLEAN
    BY <1>1
  <2> QED  BY <1>1, <1>3, <1>5, <1>9, <1>10, <1>11, <2>1, <2>2
           DEF Entering, IntakeTypeOK, HandlerRow
<1>13. \A h \in Handler : HandlerOK(h)'
  BY <1>1, <1>11 DEF HandlerOK, In
<1>14. ASSUME NEW m \in Message, m \in acked \/ key[m] \in {"processing", "completed"}
       PROVE  Guarded(m)'
  <2>1. Guarded(m)
    BY <1>3, <1>14 DEF Entering, Entries
  <2>2. \A h \in Handler : ~handler[h].keyed
    BY <1>1, <1>3, AtWork DEF HandlerOK
  <2>3. m \in Logged \cup excused
    BY <2>1, <2>2 DEF Guarded
  <2>4. m \in Logged' \cup excused'
    BY <1>2, <2>3 DEF Logged
  <2> QED  BY <2>4 DEF Guarded
<1>15. Entering'
  BY <1>1, <1>12, <1>13, <1>14 DEF Entering, Entries
<1>16. /\ running' \in RunningRow /\ running'.pc = "free" /\ running'.task = None
  BY <1>1, EmptySeq DEF Nothing, RunningRow
<1>17. Taken' = 0 + 0 + 0
  BY <1>1, <1>16, FS_EmptySet DEF Taken, lock_free
<1>18. ExecutorTypes'
  BY <1>1, <1>16, <1>17, IntakeAssumption, RuntimeAssumption DEF ExecutorTypes
<1>19. Places' /\ Runs'
  BY <1>1, <1>16, FS_EmptySet DEF Places, Runs, lock_free
<1>20. /\ enrichment' \in [pc: {"free", "queued", "enrich"}, message: Message \cup {None}]
       /\ enrichment'.pc = "free" /\ drainer' \in Seq(Message) /\ indexed' \in BOOLEAN
  BY <1>1, EmptySeq DEF NoEnrichment
<1>21. FileTypes'
  BY <1>1, <1>3, <1>20, NoteFacts DEF FileTypes
<1>22. Notes'
  BY <1>1, <1>3, <1>8, <1>20, NoteFacts DEF Notes, note_exists
<1> QED  BY <1>15, <1>18, <1>19, <1>21, <1>22 DEF IInv, Executing, Noting

(* A step of the entry alone.                                               *)
LEMMA EntryStep ==
  ASSUME IInv, Entering', UNCHANGED <<runtime, note, indexed>>,
         \A m \in Message : status'[m] = "processed" => status[m] = "processed"
  PROVE  IInv'
<1>1. UNCHANGED <<queued, running, done, inflight, drainer, enrichment, note, indexed>>
  BY DEF runtime, executor
<1>2. Executing'
  BY <1>1, ExecutingKept DEF IInv, note_exists
<1>3. \A m \in Message : status'[m] = "processed" => note_exists(m)
  BY NoteFacts DEF IInv
<1>4. drainer' \in Seq(Message)
  BY <1>1, NoteFacts DEF IInv
<1>5. Noting'
  BY <1>1, <1>3, <1>4, NotingKept DEF IInv
<1> QED  BY <1>2, <1>5 DEF IInv

LEMMA InitEstablishes ==
  ASSUME Init
  PROVE  IInv
<1>1. /\ log = <<>> /\ status = [m \in Message |-> "none"] /\ readable = TRUE
      /\ backend \in Backend /\ sensitive \in Sensitive
      /\ key = [m \in Message |-> "none"] /\ handler = [h \in Handler |-> Unhandled]
      /\ acked = {} /\ events = 0 /\ excused = {}
      /\ queued = {} /\ done = {} /\ running = Nothing /\ inflight = {} /\ drainer = <<>>
      /\ note = [m \in Message |-> [status |-> "none", attempts |-> 0]]
      /\ indexed = TRUE /\ enrichment = NoEnrichment
  BY DEF Init, IntakeInit
<1>2. /\ handler \in [Handler -> HandlerRow]
      /\ \A h \in Handler : handler[h].pc = "idle" /\ ~handler[h].keyed
  <2>1. Unhandled \in HandlerRow /\ Unhandled.pc = "idle" /\ Unhandled.keyed = FALSE
    BY DEF Unhandled, HandlerRow
  <2> QED  BY <1>1, <2>1
<1>3. IntakeTypeOK
  <2>1. readable \in BOOLEAN /\ log \in Seq(Message) /\ events \in 0..MaxEvents
    BY <1>1, EmptySeq, IntakeAssumption
  <2>2. /\ status \in [Message -> {"none", "pending", "processed", "blocked_sensitive"}]
        /\ key \in [Message -> {"none", "processing", "completed", "failed"}]
        /\ acked \subseteq Message /\ excused \subseteq Message
    BY <1>1
  <2> QED  BY <1>1, <1>2, <2>1, <2>2 DEF IntakeTypeOK, HandlerRow
<1>4. Entries
  BY <1>1, <1>2 DEF Entries, HandlerOK, In
<1>5. running \in RunningRow /\ running.pc = "free" /\ running.task = None
  BY <1>1, EmptySeq DEF Nothing, RunningRow
<1>6. Taken = 0 + 0 + 0
  BY <1>1, <1>5, FS_EmptySet DEF Taken, lock_free
<1>7. ExecutorTypes
  BY <1>1, <1>5, <1>6, IntakeAssumption, RuntimeAssumption DEF ExecutorTypes
<1>8. Places /\ Runs
  BY <1>1, <1>5, FS_EmptySet DEF Places, Runs, lock_free
<1>9. /\ enrichment \in [pc: {"free", "queued", "enrich"}, message: Message \cup {None}]
      /\ enrichment.pc = "free" /\ drainer \in Seq(Message) /\ indexed \in BOOLEAN
  BY <1>1, EmptySeq DEF NoEnrichment
<1>10. /\ note \in [Message -> NoteRow]
       /\ \A m \in Message : note[m].attempts = 0
  BY <1>1, RuntimeAssumption DEF NoteRow
<1>11. FileTypes /\ Notes
  BY <1>1, <1>9, <1>10 DEF FileTypes, Notes
<1> QED  BY <1>3, <1>4, <1>7, <1>8, <1>11 DEF IInv, Entering, Executing, Noting

LEMMA NextPreserves ==
  ASSUME IInv, [Next]_vars
  PROVE  IInv'
<1>1. ASSUME NEW t \in Task, run_task(t) \/ finish_task(t) PROVE IInv'
  BY <1>1, RunTaskStep, FinishTaskStep
<1>2. CASE begin_record \/ save_note \/ mark_processed \/ record_raises
  BY <1>2, BeginRecordStep, SaveNoteStep, MarkProcessedStep, RecordRaisesStep
<1>3. CASE Drain
  BY <1>3, LoadPendingStep, DrainOnceStep DEF Drain
<1>4. CASE Enrich
  BY <1>4, StartEnrichmentStep, EnrichNoteStep DEF Enrich
<1>5. CASE DrainEnrichment
  BY <1>5, DrainEnrichmentStep DEF DrainEnrichment
<1>6. ASSUME NEW h \in Handler, Receive(h), UNCHANGED <<runtime, note, indexed>> PROVE IInv'
  <2>1. /\ Entering'
        /\ \A n \in Message : status'[n] = "processed" => status[n] = "processed"
    BY <1>6, AppendOnceStep, GetStep, BeginStep, ReceiveStep, IdempotencyFailStep,
       IdempotencyCompleteStep DEF Receive, IInv
  <2> QED  BY <1>6, <2>1, EntryStep
<1>7. ASSUME NEW h \in Handler, submit_message(h) PROVE IInv'
  BY <1>7, SubmitMessageStep
<1>8. ASSUME NEW h \in Handler, NEW m \in Message, handle_text_message(h, m),
             UNCHANGED <<runtime, note, indexed>>
      PROVE  IInv'
  <2>1. Entering' /\ status' = status
    BY <1>8, HandleStep DEF IInv
  <2> QED  BY <1>8, <2>1, EntryStep
<1>9. ASSUME IntakeFaults, UNCHANGED <<runtime, note, indexed>> PROVE IInv'
  <2>1. Entering' /\ status' = status
    BY <1>9, UnavailableStep, RaisesStep, DiesStep, ExpiresStep DEF IntakeFaults, IInv
  <2> QED  BY <1>9, <2>1, EntryStep
<1>10. ASSUME NEW q \in Query, submit_query(q) PROVE IInv'
  BY <1>10, SubmitQueryStep
<1>11. CASE Crash
  BY <1>11, CrashStep DEF Crash
<1>12. CASE UNCHANGED vars
  <2>1. UNCHANGED <<runtime, note, indexed>> /\ status' = status
    BY <1>12 DEF vars, intakeVars
  <2>2. Entering'
    BY <1>12, IntakeTypes, EnteringKept DEF vars, intakeVars, IInv
  <2> QED  BY <2>1, <2>2, EntryStep
<1>13. CASE Run
  BY <1>1, <1>2, <1>13 DEF Run
<1>14. ASSUME NEW h \in Handler, Handle(h) PROVE IInv'
  BY <1>6, <1>7, <1>14 DEF Handle
<1>15. ASSUME Deliver, UNCHANGED <<runtime, note, indexed>> PROVE IInv'
  BY <1>8, <1>15 DEF Deliver
<1> QED
  BY <1>3, <1>4, <1>5, <1>9, <1>10, <1>11, <1>12, <1>13, <1>14, <1>15 DEF Next

-----------------------------------------------------------------------------
(* The runtime of one process and its entry keep their order, whatever is   *)
(* delivered twice, refused, raises or dies.                                *)
THEOREM RuntimeInvariant == Spec => []IInv
<1>1. Init => IInv
  BY InitEstablishes
<1>2. IInv /\ [Next]_vars => IInv'
  BY NextPreserves
<1> QED  BY <1>1, <1>2, PTL DEF Spec

(* Types; the executor never has more tasks than its semaphore has slots,   *)
(* and _inflight_ingest_keys is exactly the messages it has.                *)
THEOREM RuntimeTypes == Spec => []TypeOK
<1>1. IInv => TypeOK
  BY DEF IInv, Entering, Executing, Noting, ExecutorTypes, FileTypes, TypeOK, RunningRow, NoteRow
<1> QED  BY <1>1, RuntimeInvariant, PTL

(* A message Feishu delivers no more is in the log or still handled, and    *)
(* what the log calls processed is a note, but for the exceptions excused   *)
(* records.                                                                 *)
THEOREM MessagesKept == Spec => []NothingLost
<1>1. IInv => NothingLost
  <2> SUFFICES ASSUME IInv, NEW m \in Message \ excused
               PROVE  /\ m \in acked => m \in Logged \/ Handling(m) # {}
                      /\ status[m] = "processed" => note_exists(m)
    BY DEF NothingLost
  <2>1. m \in acked => Guarded(m)
    BY DEF IInv, Entering, Entries
  <2>2. Guarded(m) => m \in Logged \/ Handling(m) # {}
    BY DEF Guarded, Handling
  <2>3. status[m] = "processed" => note_exists(m)
    BY NoteFacts DEF IInv
  <2> QED  BY <2>1, <2>2, <2>3
<1> QED  BY <1>1, RuntimeInvariant, PTL
=============================================================================
