---------------------------- MODULE MCFactMemory ----------------------------
EXTENDS FactMemory, TLC
CONSTANTS n1, q1, c1, a, b, c
(* The second revision of n1 quotes c, which contains b and not a.          *)
Facts == {<<n1, 1, a>>, <<n1, 1, b>>, <<n1, 2, c>>, <<q1, 1, a>>}
Contained == {<<a, a>>, <<b, b>>, <<c, c>>, <<b, c>>, <<c, b>>}
FirstFacts == {<<n1, 1, a>>, <<n1, 1, b>>}
FirstCards == c1 :> <<n1, 1, a>>
Symmetry == Permutations(Run) \cup Permutations(Worker)
=============================================================================
