----------------------------- MODULE MCTaskLease -----------------------------
(* TaskLease for TLC: a root task and a dependent of it, two workers.       *)
EXTENDS TaskLease, TLC

CONSTANTS root, dependent

MCTask == {root, dependent}
MCParent == [t \in MCTask |-> IF t = dependent THEN root ELSE NoTask]
MCSymmetry == Permutations(Worker)
=============================================================================
