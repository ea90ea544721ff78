------------------------------ MODULE MCLocks ------------------------------
(* Small instances of Locks for TLC. *)
EXTENDS Locks, TLC

CONSTANTS c1, c2, c3, k1, k2

Symmetry == Permutations(Clients)

(* OrphanIsInherited for one client, with fairness for this one alone; the *)
(* clients are interchangeable.                                            *)
FirstFairSpec == Spec /\ Fairness(c1)

FirstInherits == Inherits(c1)
=============================================================================
