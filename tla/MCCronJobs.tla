----------------------------- MODULE MCCronJobs -----------------------------
(* Small instances of CronJobs for TLC. *)
EXTENDS CronJobs

CONSTANTS s1, s2, r1, r2, c1, c2

(* The first caller talks to the first server, the second to the second. *)
OwnServer == [r \in Callers |-> IF r = r1 THEN s1 ELSE s2]

(* DueIsScheduled for the first cronjob; the other one is its mirror image. *)
FirstIsScheduled == SomeServerStays => RunsScheduled(c1)
=============================================================================
