------------------------------- MODULE MCCtl -------------------------------
(* Small instances of Ctl for TLC: one process writes, the other one reads, *)
(* and a server lists its components in the default order or in a bad one. *)
EXTENDS Ctl

CONSTANTS p1, p2

MCServices == {"jobs", "cronjobs", "locks", "events"}
MCLists == {<<"jobs", "cronjobs", "locks", "events">>,
            <<"cronjobs", "cron", "jobs">>}

Writers == {"createJob", "createCronjob", "publish", "aquire", "hold"}
Readers == {"heartbeatJob", "deleteJobs", "deleteCronjobs", "listJobs",
            "listCronjobs", "listenJobs", "subscribe", "release"}
MCMenu  == [p \in Procs |-> IF p = p1 THEN Writers ELSE Readers]
=============================================================================
