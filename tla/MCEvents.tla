------------------------------ MODULE MCEvents ------------------------------
(* Small instances of Events for TLC. *)
EXTENDS Events

CONSTANTS p1, p2, s1, a, b

WantsA == [s \in Subscribers |-> {a}]
=============================================================================
