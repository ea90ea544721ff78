------------------------------- MODULE MCJobs -------------------------------
(* Small instances of Jobs for TLC. *)
EXTENDS Jobs, TLC

CONSTANTS j1, j2, l1, l2, c1, c2, q1

OneQueue == [j \in Jobs |-> q1]
BothListen == [l \in Listeners |-> q1]

Symmetry == Permutations(Listeners) \cup Permutations(Callers)
=============================================================================
