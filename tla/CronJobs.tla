------------------------------ MODULE CronJobs ------------------------------
(***************************************************************************)
(* The cronjobs service, pkg/services/cronjobs/server.go.  Every server    *)
(* process has a backend goroutine that polls the table "cronjobs", and    *)
(* every Create schedules once more; all of them may run at the same time, *)
(* on one server or on several.                                            *)
(*                                                                         *)
(* A run of a cronjob is one passing of its next_run_at.  When the clock   *)
(* passes it, only matters to the code by making the row due, so there is  *)
(* no clock: a row becomes due at any time.  What a scheduler claims are   *)
(* pairs of a cronjob and the number of its run.                           *)
(***************************************************************************)
EXTENDS Integers, FiniteSets

CONSTANTS
  Crons,    \* cronjob ids that uuid.NewV4 can return
  Servers,  \* server processes; the name of one is also that of its backend
  Callers,  \* clients that call Create, one call at a time each
  At,       \* At[c]: the server that caller c talks to
  MaxRuns   \* bound on the runs of a cronjob

ASSUME CronAssumption ==
  /\ Servers \cap Callers = {}
  /\ At \in [Callers -> Servers]
  /\ MaxRuns \in Nat \ {0}

Runners == Servers \cup Callers
Run     == Crons \X (1 .. MaxRuns)

VARIABLES
  rows,       \* rows of the table
  due,        \* rows with next_run_at < now
  run,        \* run[c]: runs of c so far, 0 before it is created
  pc,         \* where each runner of scheduleJobs is
  todo,       \* the variable cronJobs of each runner, as runs
  overtaken,  \* open transactions whose rows were written after the snapshot
  jobs,       \* runs for which a job was created
  lost        \* runs that were claimed and given up, for the properties

vars == <<rows, due, run, pc, todo, overtaken, jobs, lost>>

TypeOK ==
  /\ rows \subseteq Crons
  /\ due \subseteq rows
  /\ run \in [Crons -> 0 .. MaxRuns]
  /\ pc \in [Runners -> {"down", "idle", "schedule", "selected", "creating"}]
  /\ todo \in [Runners -> SUBSET Run]
  /\ overtaken \subseteq Runners
  /\ jobs \subseteq Run
  /\ lost \subseteq Run

Init ==
  /\ rows = {} /\ due = {} /\ jobs = {} /\ lost = {} /\ overtaken = {}
  /\ run = [c \in Crons |-> 0]
  /\ pc = [r \in Runners |-> IF r \in Servers THEN "down" ELSE "idle"]
  /\ todo = [r \in Runners |-> {}]

-----------------------------------------------------------------------------
(* Helpers *)

(* After scheduleJobs a backend waits for its next tick, a Create answers. *)
After(r) == IF r \in Servers THEN "schedule" ELSE "idle"

(* The runs whose next_run_at was moved on and whose job is still to come. *)
Claimed(r) == IF pc[r] = "creating" THEN todo[r] ELSE {}

(* Open transactions of others that want to write a row of S. *)
Doomed(S) == {r \in Runners : /\ pc[r] = "selected"
                              /\ \E w \in todo[r] : w[1] \in S}

(* Mutant of CanCommit: at READ COMMITTED the UPDATE waits and goes on.    *)
ReadCommitted(r) == TRUE

(* What the isolation level of BeginTx is chosen for: an UPDATE of a row   *)
(* that changed or went away since the snapshot fails with "could not      *)
(* serialize access".                                                      *)
CanCommit(r) == r \notin overtaken

(* These runners stop where they are. *)
Stop(S, to) ==
  /\ pc' = [r \in Runners |-> IF r \in S THEN to[r] ELSE pc[r]]
  /\ todo' = [r \in Runners |-> IF r \in S THEN {} ELSE todo[r]]
  /\ overtaken' = overtaken \ S
  /\ lost' = lost \cup UNION {Claimed(r) : r \in S}

-----------------------------------------------------------------------------

(* NewServer starts the backend, whose first scheduleJobs comes at once. *)
ServerStarts(s) ==
  /\ pc[s] = "down"
  /\ pc' = [pc EXCEPT ![s] = "schedule"]
  /\ UNCHANGED <<rows, due, run, todo, overtaken, jobs, lost>>

(* The process ends.  One way is a BeginTx that fails in the backend: its  *)
(* error is not looked at and the nil transaction panics.                  *)
ServerDies(s) ==
  /\ pc[s] # "down"
  /\ Stop({s} \cup {c \in Callers : At[c] = s},
          [r \in Runners |-> IF r = s THEN "down" ELSE "idle"])
  /\ UNCHANGED <<rows, due, run, jobs>>

(* Create inserts the row with next_run_at = now, then schedules. *)
Create(r, c) ==
  /\ pc[r] = "idle"
  /\ pc[At[r]] # "down"
  /\ run[c] = 0
  /\ run' = [run EXCEPT ![c] = 1]
  /\ rows' = rows \cup {c}
  /\ due' = due \cup {c}
  /\ pc' = [pc EXCEPT ![r] = "schedule"]
  /\ UNCHANGED <<todo, overtaken, jobs, lost>>

(* The context of a Create ends, in the middle of what it schedules. *)
CreateDies(r) ==
  /\ pc[r] # "idle"
  /\ Stop({r}, [q \in Runners |-> "idle"])
  /\ UNCHANGED <<rows, due, run, jobs>>

(* Mutant of Delete: the row goes, its schedule stays. *)
DeleteKeepsSchedule(c) ==
  /\ c \in rows
  /\ rows' = rows \ {c}
  /\ overtaken' = overtaken \cup Doomed({c})
  /\ UNCHANGED <<due, run, pc, todo, jobs, lost>>

(* Delete; a job whose run is claimed already is created all the same. *)
Delete(c) ==
  /\ c \in rows
  /\ rows' = rows \ {c}
  /\ due' = due \ {c}
  /\ overtaken' = overtaken \cup Doomed({c})
  /\ UNCHANGED <<run, pc, todo, jobs, lost>>

(* The clock passes next_run_at. *)
BecomesDue(c) ==
  /\ c \in rows \ due
  /\ run[c] < MaxRuns
  /\ run' = [run EXCEPT ![c] = run[c] + 1]
  /\ due' = due \cup {c}
  /\ UNCHANGED <<rows, pc, todo, overtaken, jobs, lost>>

-----------------------------------------------------------------------------
(* scheduleJobs *)

(* BEGIN ISOLATION LEVEL SERIALIZABLE and the SELECT of the due rows.  A   *)
(* backend that finds none has nothing to do until its next tick.          *)
Select(r) ==
  /\ pc[r] = "schedule"
  /\ due # {}
  /\ pc' = [pc EXCEPT ![r] = "selected"]
  /\ todo' = [todo EXCEPT ![r] = {<<c, run[c]>> : c \in due}]
  /\ UNCHANGED <<rows, due, run, overtaken, jobs, lost>>

NothingDue(r) ==
  /\ r \in Callers
  /\ pc[r] = "schedule"
  /\ due = {}
  /\ pc' = [pc EXCEPT ![r] = "idle"]
  /\ UNCHANGED <<rows, due, run, todo, overtaken, jobs, lost>>

(* Mutants of Commit: one moves on every due row and not just the rows     *)
(* read, one moves on none.                                                *)
CommitAll(r) ==
  /\ pc[r] = "selected"
  /\ CanCommit(r)
  /\ due' = {}
  /\ overtaken' = overtaken \cup (Doomed(due) \ {r})
  /\ pc' = [pc EXCEPT ![r] = "creating"]
  /\ UNCHANGED <<rows, run, todo, jobs, lost>>

CommitNone(r) ==
  /\ pc[r] = "selected"
  /\ CanCommit(r)
  /\ pc' = [pc EXCEPT ![r] = "creating"]
  /\ UNCHANGED <<rows, due, run, todo, overtaken, jobs, lost>>

(* UPDATE next_run_at of every row that was read, and COMMIT. *)
Commit(r) ==
  LET S == {w[1] : w \in todo[r]} IN
  /\ pc[r] = "selected"
  /\ CanCommit(r)
  /\ due' = due \ S
  /\ overtaken' = overtaken \cup (Doomed(S) \ {r})
  /\ pc' = [pc EXCEPT ![r] = "creating"]
  /\ UNCHANGED <<rows, run, todo, jobs, lost>>

(* Mutant of Abort: the backend returns on an error. *)
AbortEndsBackend(r) ==
  /\ pc[r] = "selected"
  /\ Stop({r}, [q \in Runners |-> "idle"])
  /\ UNCHANGED <<rows, due, run, jobs>>

(* A statement fails, on a serialization conflict, a deadlock between two  *)
(* schedulers or a lost connection; scheduleJobs returns the error.        *)
Abort(r) ==
  /\ pc[r] = "selected"
  /\ Stop({r}, [q \in Runners |-> After(q)])
  /\ UNCHANGED <<rows, due, run, jobs>>

(* One iteration of the loop over what was read: jobsServer.Create.  Its   *)
(* error is logged and the loop goes on; the run is not made up for.       *)
CreateJob(r, w) ==
  /\ pc[r] = "creating"
  /\ w \in todo[r]
  /\ todo' = [todo EXCEPT ![r] = todo[r] \ {w}]
  /\ pc' = [pc EXCEPT ![r] = IF todo[r] = {w} THEN After(r) ELSE "creating"]
  /\ \/ jobs' = jobs \cup {w} /\ UNCHANGED lost
     \/ lost' = lost \cup {w} /\ UNCHANGED jobs
  /\ UNCHANGED <<rows, due, run, overtaken>>

-----------------------------------------------------------------------------

RunnerStep(r) ==
  \/ Select(r) \/ NothingDue(r) \/ Commit(r) \/ Abort(r)
  \/ \E w \in Run : CreateJob(r, w)

Next ==
  \/ \E s \in Servers : ServerStarts(s) \/ ServerDies(s)
  \/ \E r \in Callers : CreateDies(r) \/ \E c \in Crons : Create(r, c)
  \/ \E c \in Crons : Delete(c) \/ BecomesDue(c)
  \/ \E r \in Runners : RunnerStep(r)

Spec == Init /\ [][Next]_vars

(* Backends poll again and again, handlers run, a transaction that was     *)
(* overtaken aborts, and one that could commit again and again does.       *)
Fairness == \A r \in Runners :
  /\ WF_vars(Select(r)) /\ WF_vars(NothingDue(r)) /\ SF_vars(Commit(r))
  /\ WF_vars(r \in overtaken /\ Abort(r))
  /\ WF_vars(\E w \in Run : CreateJob(r, w))

FairSpec == Spec /\ Fairness

-----------------------------------------------------------------------------
(* Correctness *)

(* A run makes at most one job, whichever backends and Create calls        *)
(* schedule at the same time: once a scheduler claimed it nobody else      *)
(* claims it, and it is claimed only once.  This is what the serializable  *)
(* transaction around the SELECT and the UPDATEs (server.go:239-293) is    *)
(* for.                                                                    *)
OneJobPerRun ==
  /\ \A r, q \in Runners : Claimed(r) \cap Claimed(q) # {} => r = q
  /\ \A r \in Runners : Claimed(r) \cap (jobs \cup lost) = {}
  /\ jobs \cap lost = {}

(* No run of a cronjob that exists is passed over: it is due, claimed, has *)
(* its job, or was given up by a scheduler that had claimed it (a death or *)
(* an error between server.go:293 and server.go:306).                      *)
NoRunForgotten ==
  \A c \in rows : \A n \in 1 .. run[c] :
    \/ c \in due /\ n = run[c]
    \/ <<c, n>> \in jobs \cup lost
    \/ \E r \in Runners : <<c, n>> \in Claimed(r)

(* If one server stays up, a run that is due gets its job, or is given up, *)
(* whatever the other servers and the Create calls do to the schedule.     *)
SomeServerStays == \E s \in Servers : <>[](pc[s] # "down")

RunsScheduled(c) ==
  \A n \in 1 .. MaxRuns :
    c \in due /\ run[c] = n ~> <<c, n>> \in jobs \cup lost \/ c \notin rows

DueIsScheduled == SomeServerStays => \A c \in Crons : RunsScheduled(c)

(* The inductive invariant behind OneJobPerRun and NoRunForgotten. *)

(* What a transaction that was not overtaken has read is still true. *)
SnapshotTrue == \A r \in Runners : pc[r] = "selected" /\ r \notin overtaken =>
  \A w \in todo[r] : w[1] \in due /\ w[2] = run[w[1]]

(* A run that is due is new to everybody. *)
DueIsNew == \A c \in due :
  /\ run[c] # 0
  /\ <<c, run[c]>> \notin jobs \cup lost
  /\ \A r \in Runners : <<c, run[c]>> \notin Claimed(r)

(* Nobody has a run that did not come yet. *)
NoneAhead ==
  /\ \A c \in rows : run[c] # 0
  /\ \A w \in jobs \cup lost : w[2] <= run[w[1]]
  /\ \A r \in Runners : \A w \in todo[r] : w[2] <= run[w[1]]

IndInv == TypeOK /\ SnapshotTrue /\ DueIsNew /\ NoneAhead /\ OneJobPerRun /\ NoRunForgotten

(* All servers together implement CronLedger: every run that comes is      *)
(* claimed by one commit (server.go:239-293), leaves its claim once, with  *)
(* a job or lost, and a run that is due vanishes only with its cronjob.    *)

DueRuns == {<<c, run[c]>> : c \in due}

AllClaimed == UNION {Claimed(r) : r \in Runners}

Ledger == INSTANCE CronLedger
          WITH existing <- rows, last <- run, due <- DueRuns, claimed <- AllClaimed,
               made <- jobs

LedgerSpec == Ledger!Spec

=============================================================================
