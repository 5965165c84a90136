---------------------------- MODULE SpaceDispatch ----------------------------
(***************************************************************************)
(* The order of the messages of one space: repositories/postgres/          *)
(* dispatch.py and the completion statement of tasks.py.  A message gets   *)
(* the next sequence number; its root task waits, blocked, until the note  *)
(* or memory watermark of the space reaches its predecessor; a finished    *)
(* stage advances the watermarks and releases the tasks they reach.        *)
(*                                                                         *)
(* receive_command, fail_task and skip_inbox_record read the space after   *)
(* they have its row lock, so each is one step.  The success path is not:  *)
(* _complete_task_with_inbox_outcome is a single READ COMMITTED statement, *)
(* which fixes its snapshot when it starts and only then waits for the     *)
(* advisory lock.  It is two steps here: begin_complete takes the          *)
(* snapshot, end_complete applies the statement to what is there by then.  *)
(* Rows it updates are re-read (the task, its own inbox row, a blocked     *)
(* task); the progress it computes comes from the snapshot.                *)
(*                                                                         *)
(* Claims and leases are those of TaskLease; "queued" stands here for      *)
(* queued and retry.                                                       *)
(***************************************************************************)
EXTENDS Naturals, Sequences, FiniteSetsExt

CONSTANTS
  MaxSeq,      \* bound: messages the space receives
  Arrivals,    \* bound: the sequences of message kinds that are followed
  NoFlight     \* no completion statement is running

ASSUME DispatchAssumption == MaxSeq \in Nat

VARIABLES
  inbox,       \* inbox_messages of the space; the index is sequence_no
  task,        \* task[<<"root", s>>], task[<<"memory", s>>]: tasks.status
  space,       \* the row of `spaces`
  flight,      \* flight[x]: the snapshot of the completion of x, if it runs
  recovering,  \* what recover_skipped_ingress selected and has yet to skip
  overlapped   \* history: a completion wrote progress from an old snapshot

vars == <<inbox, task, space, flight, recovering, overlapped>>

(* What a message asks for: an ingest, an ingest of a text that begins with *)
(* "/" (written by a version that did not reject unknown commands), a query *)
(* or summary of each consistency, or a text rejected as sensitive.         *)
Kind == {"ingest", "slash", "note", "memory", "weak", "sensitive"}
Ingest == {"ingest", "slash"}
Finished == {"completed", "failed"}
Settled == {"none", "completed", "dead_letter", "cancelled"}
Seqs == 1..MaxSeq
TaskId == {"root", "memory"} \X Seqs
Message == [kind: Kind,
            note_status: {"pending"} \cup Finished,
            memory_status: {"pending"} \cup Finished,
            status: {"pending", "processed", "failed",
                     "blocked_sensitive", "skipped_command"}]
Space == [note_watermark: 0..MaxSeq, memory_watermark: 0..MaxSeq,
          processed_sequence_no: 0..MaxSeq, memory_gap_sequence_no: 0..MaxSeq]

TypeOK ==
  /\ inbox \in Seq(Message) /\ Len(inbox) <= MaxSeq
  /\ task \in [TaskId -> Settled \cup {"blocked", "queued", "running"}]
  /\ space \in Space
  /\ \A x \in TaskId : flight[x] # NoFlight =>
       /\ x[2] \in 1..Len(flight[x].inbox)
       /\ flight[x].space \in Space
       /\ flight[x].blocked \subseteq TaskId
  /\ recovering \subseteq 1..Len(inbox)
  /\ overlapped \in BOOLEAN

Init ==
  /\ inbox = <<>>
  /\ task = [x \in TaskId |-> "none"]
  /\ space = [note_watermark |-> 0, memory_watermark |-> 0,
              processed_sequence_no |-> 0, memory_gap_sequence_no |-> 0]
  /\ flight = [x \in TaskId |-> NoFlight]
  /\ recovering = {}
  /\ overlapped = FALSE
-----------------------------------------------------------------------------
(* runtime/consistency.py: task_consistency.                                *)
task_consistency(kind) == IF kind \in Ingest THEN "note" ELSE kind

NoteOpen(box) == {s \in DOMAIN box : box[s].note_status \notin Finished}
MemoryOpen(box) == {s \in DOMAIN box : box[s].memory_status \notin Finished}

(* An advance that stops on the open message and not before it.             *)
AdvancedOnto(current, open, last) ==
  LET above == {s \in open : s > current}
  IN IF above # {} THEN Max({current, Min(above)}) ELSE Max({current, last})

(* An advance past the last message when none is open.                      *)
AdvancedPast(current, open, last) ==
  LET above == {s \in open : s > current}
  IN IF above # {} THEN Max({current, Min(above) - 1}) ELSE Max({current, last + 1})

(* The watermark moves to just before the first open message above it, or   *)
(* to the last message when none is open.                                   *)
Advanced(current, open, last) ==
  LET above == {s \in open : s > current}
  IN IF above # {} THEN Max({current, Min(above) - 1}) ELSE Max({current, last})

(* An advance of the note watermark only.                                   *)
ProgressOfNotes(sp, box) ==
  [sp EXCEPT
     !.note_watermark = Advanced(sp.note_watermark, NoteOpen(box), Len(box))]

(* _advance_watermarks_in_session, on the inbox rows box.                   *)
Progress(sp, box) ==
  [sp EXCEPT
     !.note_watermark = Advanced(sp.note_watermark, NoteOpen(box), Len(box)),
     !.memory_watermark = Advanced(sp.memory_watermark, MemoryOpen(box), Len(box))]

Reached(sp, kind, s) ==
  CASE task_consistency(kind) = "note" -> s - 1 <= sp.note_watermark
    [] task_consistency(kind) = "memory" -> s - 1 <= sp.memory_watermark
    [] OTHER -> TRUE

(* _activate_ready_tasks_in_session: the blocked roots of among that the    *)
(* watermarks reach are queued, with an outbox event each.  Only roots are  *)
(* ever blocked: handle_ingest enqueues its memory task queued.             *)
Activated(tasks, box, sp, among) ==
  [x \in TaskId |->
     IF x \in among /\ tasks[x] = "blocked" /\ Reached(sp, box[x[2]].kind, x[2])
     THEN "queued" ELSE tasks[x]]

(* The end of every operation: advance, then release.                       *)
Settle(box, tasks, sp) ==
  /\ inbox' = box
  /\ space' = Progress(sp, box)
  /\ task' = Activated(tasks, box, Progress(sp, box), TaskId)

(* Within the bounds, a message of this kind may come next.                 *)
Arrives(kind) ==
  /\ Len(inbox) < MaxSeq
  /\ \E a \in Arrivals :
       /\ Len(a) > Len(inbox)
       /\ a[Len(inbox) + 1] = kind
       /\ \A s \in DOMAIN inbox : a[s] = inbox[s].kind

(* receive_command for a message that is not a duplicate.  An ingest opens  *)
(* both stages and does not advance; anything else is born with its stages  *)
(* completed and advances at once.                                          *)
receive_command(kind) ==
  LET s == Len(inbox) + 1
      stage == IF kind \in Ingest THEN "pending" ELSE "completed"
      box == Append(inbox, [kind |-> kind, note_status |-> stage,
                            memory_status |-> stage, status |-> "pending"])
      tasks == [task EXCEPT ![<<"root", s>>] =
                  IF Reached(space, kind, s) THEN "queued" ELSE "blocked"]
  IN /\ Arrives(kind)
     /\ kind # "sensitive"
     /\ IF kind \in Ingest
        THEN inbox' = box /\ task' = tasks /\ UNCHANGED space
        ELSE Settle(box, tasks, space)
     /\ UNCHANGED <<flight, recovering, overlapped>>

(* append_message_once for a sensitive text: a row with open stages and no  *)
(* task, in a transaction of its own.                                       *)
append_sensitive ==
  /\ Arrives("sensitive")
  /\ inbox' = Append(inbox, [kind |-> "sensitive", note_status |-> "pending",
                             memory_status |-> "pending",
                             status |-> "blocked_sensitive"])
  /\ UNCHANGED <<task, space, flight, recovering, overlapped>>

(* skip_inbox_record; a slash ingest that is not running is cancelled.      *)
skip_inbox_record(s, final_status, cancel_root_task) ==
  LET box == [inbox EXCEPT ![s].note_status = "completed",
                           ![s].memory_status = "completed",
                           ![s].status = final_status]
      root == <<"root", s>>
      tasks == IF cancel_root_task /\ task[root] \in {"blocked", "queued"}
               THEN [task EXCEPT ![root] = "cancelled"] ELSE task
  IN Settle(box, tasks, space)

(* complete_blocked_sensitive_inbox, called by the bot right after it       *)
(* appended the row, or by the recovery.                                    *)
complete_blocked_sensitive_inbox(s) ==
  /\ inbox[s].status = "blocked_sensitive"
  /\ inbox[s].note_status = "pending"
  /\ skip_inbox_record(s, "blocked_sensitive", FALSE)
  /\ UNCHANGED <<flight, recovering, overlapped>>

(* recover_skipped_ingress at the start of the bot: it selects, commits,    *)
(* and skips what it selected one transaction at a time, while the workers  *)
(* go on.                                                                   *)
recover_select ==
  /\ recovering = {}
  /\ recovering' =
       {s \in DOMAIN inbox :
          \/ inbox[s].status = "blocked_sensitive" /\ inbox[s].note_status = "pending"
          \/ /\ inbox[s].status = "pending"
             /\ inbox[s].kind = "slash"
             /\ task[<<"root", s>>] \in {"blocked", "queued"}}
  /\ recovering' # {}
  /\ UNCHANGED <<inbox, task, space, flight, overlapped>>

recover_skip(s) ==
  /\ s \in recovering
  /\ IF inbox[s].kind = "sensitive"
     THEN skip_inbox_record(s, "blocked_sensitive", FALSE)
     ELSE skip_inbox_record(s, "skipped_command", TRUE)
  /\ recovering' = recovering \ {s}
  /\ UNCHANGED <<flight, overlapped>>
-----------------------------------------------------------------------------
claim(x) ==
  /\ task[x] = "queued"
  /\ task' = [task EXCEPT ![x] = "running"]
  /\ UNCHANGED <<inbox, space, flight, recovering, overlapped>>

(* The attempt ends without a result, or its lease runs out: the task will  *)
(* be claimed again, and a completion still under way finds another lease.  *)
requeue(x) ==
  /\ task[x] = "running"
  /\ task' = [task EXCEPT ![x] = "queued"]
  /\ flight' = [flight EXCEPT ![x] = NoFlight]
  /\ UNCHANGED <<inbox, space, recovering, overlapped>>

(* handle_ingest stores the note and enqueues the memory task, queued, in a *)
(* transaction of its own; a second attempt finds both.                     *)
handle_ingest(s) ==
  /\ task[<<"root", s>>] = "running"
  /\ inbox[s].kind \in Ingest
  /\ flight[<<"root", s>>] = NoFlight
  /\ task[<<"memory", s>>] = "none"
  /\ task' = [task EXCEPT ![<<"memory", s>>] = "queued"]
  /\ UNCHANGED <<inbox, space, flight, recovering, overlapped>>

Blocked == {x \in TaskId : task[x] = "blocked"}

begin_complete(x) ==
  /\ task[x] = "running"
  /\ flight[x] = NoFlight
  /\ flight' = [flight EXCEPT ![x] =
                  [inbox |-> inbox, space |-> space, blocked |-> Blocked]]
  /\ UNCHANGED <<inbox, task, space, recovering, overlapped>>

(* The three outcomes of a handler: note_ready (the memory task will do the *)
(* rest), memory_ready or ingest_complete, and release (a query).           *)
Outcome(x) ==
  LET ingest == x[1] = "root" /\ inbox[x[2]].kind \in Ingest
      extracts == task[<<"memory", x[2]>>] # "none"
  IN [note |-> ingest,
      memory |-> x[1] = "memory" \/ (ingest /\ ~extracts),
      finalize |-> ~(ingest /\ extracts)]

(* A completion that releases the tasks without looking at the watermarks.  *)
end_complete_releasing_all(x) ==
  /\ flight[x] # NoFlight
  /\ task[x] = "running"
  /\ LET s == x[2]
         out == Outcome(x)
         snap == flight[x]
         row == [kind |-> inbox[s].kind,
                 note_status |-> IF out.note THEN "completed" ELSE inbox[s].note_status,
                 memory_status |-> IF out.memory THEN "completed"
                                                 ELSE inbox[s].memory_status,
                 status |-> IF out.finalize /\ inbox[s].status \notin {"processed", "failed"}
                            THEN "processed" ELSE inbox[s].status]
     IN /\ inbox' = [inbox EXCEPT ![s] = row]
        /\ space' = Progress(space, [inbox EXCEPT ![s] = row])
        /\ task' = [y \in TaskId |->
                      IF y = x THEN "completed"
                      ELSE IF y \in snap.blocked /\ task[y] = "blocked" THEN "queued"
                      ELSE task[y]]
  /\ flight' = [flight EXCEPT ![x] = NoFlight]
  /\ UNCHANGED <<recovering, overlapped>>

(* The statement with its locks: the task is still owned; its own inbox row *)
(* is the current one; the progress is that of the snapshot, with the own   *)
(* row put in, and replaces the watermarks; only tasks that were blocked in *)
(* the snapshot, and still are, can be released.                            *)
end_complete(x) ==
  /\ flight[x] # NoFlight
  /\ task[x] = "running"
  /\ LET s == x[2]
         out == Outcome(x)
         snap == flight[x]
         row == [kind |-> inbox[s].kind,
                 note_status |-> IF out.note THEN "completed" ELSE inbox[s].note_status,
                 memory_status |-> IF out.memory THEN "completed"
                                                 ELSE inbox[s].memory_status,
                 status |-> IF out.finalize /\ inbox[s].status \notin {"processed", "failed"}
                            THEN "processed" ELSE inbox[s].status]
         progress == Progress(snap.space, [snap.inbox EXCEPT ![s] = row])
         sp == [note_watermark |-> progress.note_watermark,
                memory_watermark |-> progress.memory_watermark,
                processed_sequence_no |->
                  IF out.finalize THEN Max({space.processed_sequence_no, s})
                                  ELSE space.processed_sequence_no,
                memory_gap_sequence_no |-> space.memory_gap_sequence_no]
     IN /\ inbox' = [inbox EXCEPT ![s] = row]
        /\ space' = sp
        /\ task' = Activated([task EXCEPT ![x] = "completed"], inbox, sp, snap.blocked)
        /\ overlapped' = (overlapped \/ snap.inbox # inbox \/ snap.space # space
                                     \/ snap.blocked # Blocked)
  /\ flight' = [flight EXCEPT ![x] = NoFlight]
  /\ UNCHANGED recovering

(* complete_inbox_stage_in_session(finalize=True, success=False), after     *)
(* the memory stage was failed when a memory task failed.  An inbox row     *)
(* that is processed or failed already keeps its open stages.               *)
FinalizeFailed(s, memory) ==
  LET row == inbox[s]
      open == row.status \notin {"processed", "failed"}
      note_status == IF open /\ row.note_status = "pending" THEN "failed"
                                                            ELSE row.note_status
      memory_status == IF memory \/ (open /\ row.memory_status = "pending")
                       THEN "failed" ELSE row.memory_status
  IN [row |-> [kind |-> row.kind, note_status |-> note_status,
               memory_status |-> memory_status,
               status |-> IF open THEN "failed" ELSE row.status],
      space |-> [note_watermark |-> space.note_watermark,
                 memory_watermark |-> space.memory_watermark,
                 processed_sequence_no |->
                   IF open THEN Max({space.processed_sequence_no, s})
                           ELSE space.processed_sequence_no,
                 memory_gap_sequence_no |->
                   IF memory \/ memory_status # row.memory_status
                   THEN s ELSE space.memory_gap_sequence_no]]

(* A dead task that only finalises the row, its stages left open.           *)
fail_task_leaving_stages(x) ==
  /\ task[x] = "running"
  /\ flight[x] = NoFlight
  /\ Settle([inbox EXCEPT ![x[2]].status = "failed"],
            [task EXCEPT ![x] = "dead_letter"], space)
  /\ UNCHANGED <<flight, recovering, overlapped>>

(* fail_task when the failure budget is used up.  The memory task of a dead *)
(* root is never blocked, so _cancel_blocked_dependents finds nothing.      *)
fail_task(x) ==
  LET s == x[2]
      failed == FinalizeFailed(s, x[1] = "memory")
  IN /\ task[x] = "running"
     /\ flight[x] = NoFlight
     /\ Settle([inbox EXCEPT ![s] = failed.row],
               [task EXCEPT ![x] = "dead_letter"], failed.space)
     /\ UNCHANGED <<flight, recovering, overlapped>>

Next ==
  \/ \E kind \in Kind : receive_command(kind)
  \/ append_sensitive
  \/ recover_select
  \/ \E s \in DOMAIN inbox :
       \/ complete_blocked_sensitive_inbox(s)
       \/ recover_skip(s)
       \/ handle_ingest(s)
  \/ \E x \in TaskId :
       \/ claim(x)
       \/ requeue(x)
       \/ begin_complete(x)
       \/ end_complete(x)
       \/ fail_task(x)

Spec == Init /\ [][Next]_vars
-----------------------------------------------------------------------------
(* No watermark passes an open stage, even when overlapping completions     *)
(* write progress of old snapshots: the reader of get_space_progress, and   *)
(* receive_command, may trust that what lies below it is finished.          *)
WatermarkSound ==
  /\ \A s \in NoteOpen(inbox) : space.note_watermark < s
  /\ \A s \in MemoryOpen(inbox) : space.memory_watermark < s

(* "a later message does not bypass an unfinished earlier one": a released  *)
(* root of note consistency finds the notes of all earlier ingests stored   *)
(* (the ingest settled, or its memory task exists), one of memory           *)
(* consistency their memories extracted, unless the ingest itself died or   *)
(* was skipped.                                                             *)
NoOvertake ==
  \A s \in DOMAIN inbox : \A e \in 1..s-1 :
    LET extracted == task[<<"memory", e>>]
        stored == task[<<"root", e>>] \in Settled \/ extracted # "none"
        given_up == \/ inbox[e].status = "skipped_command"
                    \/ task[<<"root", e>>] \in {"dead_letter", "cancelled"}
        consistency == task_consistency(inbox[s].kind)
    IN /\ task[<<"root", s>>] \in {"queued", "running", "completed"}
       /\ inbox[e].kind \in Ingest
       /\ ~given_up
       => /\ consistency = "note" => stored
          /\ consistency = "memory" => stored /\ extracted \in Settled

(* When no completion overlapped another writer of the space, both          *)
(* watermarks are exact: the next message is open, or there is none.        *)
WatermarkExact ==
  ~overlapped =>
    /\ space.note_watermark + 1 \in NoteOpen(inbox) \cup {Len(inbox) + 1}
    /\ space.memory_watermark + 1 \in MemoryOpen(inbox) \cup {Len(inbox) + 1}

(* The memory task finished the row before its ingest died: the note stage  *)
(* stays open for good, because finalize passes over a processed row.       *)
OpenForGood(e) ==
  /\ inbox[e].note_status = "pending"
  /\ inbox[e].status = "processed"
  /\ task[<<"root", e>>] = "dead_letter"

(* Nothing but the tasks of the messages before s will release s.           *)
PredecessorsSettled(s) ==
  \A e \in 1..s-1 :
    /\ task[<<"root", e>>] \in Settled
    /\ task[<<"memory", e>>] \in Settled
    /\ inbox[e].status = "blocked_sensitive" => inbox[e].note_status # "pending"

(* A message is left blocked behind finished predecessors only by an        *)
(* overlapped completion or behind an ingest that is open for good.         *)
OnlyKnownStrandings ==
  \A s \in DOMAIN inbox :
    task[<<"root", s>>] = "blocked" /\ PredecessorsSettled(s)
      => overlapped \/ \E e \in 1..s-1 : OpenForGood(e)

(* "completion releases the next": no message stays blocked behind          *)
(* predecessors that are all settled.                                       *)
CompletionReleasesNext ==
  \A s \in DOMAIN inbox :
    task[<<"root", s>>] = "blocked" => ~PredecessorsSettled(s)
=============================================================================
