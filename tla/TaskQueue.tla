----------------------------- MODULE TaskQueue -----------------------------
(***************************************************************************)
(* What the task queue promises to the rest of the system, without rows,   *)
(* leases, tokens, clocks or retries: a task is blocked, open, executing   *)
(* or settled; at most one worker is its owner; only the owner gives it a  *)
(* result, and MaxFailures failures end it.  An owner may be replaced or   *)
(* lost at any time, and what it does later has no effect.                 *)
(*                                                                         *)
(* TaskLease implements this specification.                                *)
(***************************************************************************)
EXTENDS Naturals

CONSTANTS Task, Worker, MaxFailures

VARIABLES
  state,      \* state[t]: what the task waits for
  owner,      \* owner[t]: the worker whose result counts, as a set
  failures    \* failures[t]: results that were failures

vars == <<state, owner, failures>>

State == {"blocked", "open", "executing", "completed", "dead_letter", "cancelled"}
Settled == {"completed", "dead_letter", "cancelled"}

Init ==
  /\ state \in [Task -> {"blocked", "open"}]
  /\ owner = [t \in Task |-> {}]
  /\ failures = [t \in Task |-> 0]

(* A free worker takes an open task, or one whose owner is given up.        *)
Claim(w, t) ==
  /\ state[t] \in {"open", "executing"}
  /\ \A u \in Task : w \notin owner[u]
  /\ state' = [state EXCEPT ![t] = "executing"]
  /\ owner' = [owner EXCEPT ![t] = {w}]
  /\ UNCHANGED failures

(* A worker is lost: the task waits for the next claim.                     *)
Lose(w) ==
  /\ owner' = [t \in Task |-> owner[t] \ {w}]
  /\ UNCHANGED <<state, failures>>

(* A result that counts ends the ownership.                                 *)
Result(w, t) ==
  /\ owner[t] = {w}
  /\ owner' = [owner EXCEPT ![t] = {}]

Waiting == {t \in Task : state[t] = "blocked"}

(* A completion may open tasks that waited for it.                          *)
Complete(w, t) ==
  /\ Result(w, t)
  /\ UNCHANGED failures
  /\ \E opened \in SUBSET Waiting :
       state' = [u \in Task |-> IF u = t THEN "completed"
                               ELSE IF u \in opened THEN "open" ELSE state[u]]

(* The last failure settles the task, and tasks that waited for it.         *)
Fail(w, t) ==
  LET last == failures[t] + 1 = MaxFailures
  IN /\ Result(w, t)
     /\ failures' = [failures EXCEPT ![t] = @ + 1]
     /\ \E cancelled \in SUBSET Waiting :
          /\ cancelled # {} => last
          /\ state' = [u \in Task |->
               IF u = t THEN (IF last THEN "dead_letter" ELSE "open")
               ELSE IF u \in cancelled THEN "cancelled" ELSE state[u]]

Defer(w, t) ==
  /\ Result(w, t)
  /\ state' = [state EXCEPT ![t] = "open"]
  /\ UNCHANGED failures

Activate(t) ==
  /\ state[t] = "blocked"
  /\ state' = [state EXCEPT ![t] = "open"]
  /\ UNCHANGED <<owner, failures>>

(* A task nobody executes can be called off.                                *)
Cancel(t) ==
  /\ state[t] \in {"blocked", "open"}
  /\ state' = [state EXCEPT ![t] = "cancelled"]
  /\ UNCHANGED <<owner, failures>>

Next ==
  \/ \E w \in Worker, t \in Task :
       Claim(w, t) \/ Complete(w, t) \/ Fail(w, t) \/ Defer(w, t)
  \/ \E w \in Worker : Lose(w)
  \/ \E t \in Task : Activate(t) \/ Cancel(t)

Spec == Init /\ [][Next]_vars
-----------------------------------------------------------------------------
(* What clients rely on: one owner at most, and only of a task that is      *)
(* being executed; a worker owns one task at most; the failure budget is    *)
(* used up exactly by the tasks that died of it.                            *)
Promise ==
  /\ \A t \in Task :
       /\ \A v, w \in owner[t] : v = w
       /\ owner[t] # {} => state[t] = "executing"
       /\ failures[t] <= MaxFailures
       /\ state[t] = "dead_letter" <=> failures[t] = MaxFailures
  /\ \A t, u \in Task : t # u => owner[t] \cap owner[u] = {}
=============================================================================
