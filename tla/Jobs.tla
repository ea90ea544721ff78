-------------------------------- MODULE Jobs --------------------------------
(***************************************************************************)
(* The jobs service, pkg/services/jobs/server.go, at the granularity of    *)
(* its SQL statements: the table "jobs", the Listen streams that hand jobs *)
(* to workers, and the unary calls Create, Heartbeat and Delete.           *)
(*                                                                         *)
(* Between two statements of one handler anything else may happen.  The    *)
(* UPDATE of a transaction and its COMMIT are one step: in between the row *)
(* is locked, so every other writer of the row waits.                      *)
(*                                                                         *)
(* A timestamp is kept as its age.  The code only compares updated_at with *)
(* "now - heartbeatDeadline", so an age stops growing one past Deadline    *)
(* and the clock needs no bound.                                           *)
(***************************************************************************)
EXTENDS Integers, FiniteSets

CONSTANTS
  Jobs,       \* job ids that uuid.NewV4 can return
  Queues,     \* queue names
  QueueOf,    \* QueueOf[j]: the queue given to the Create that makes j
  Listeners,  \* clients that call Listen, one stream each
  ListensOn,  \* ListensOn[l]: the queue that l listens on
  Callers,    \* clients of the unary calls, one call at a time each
  NoJob,      \* no job
  Deadline,   \* heartbeatDeadline
  Stall       \* longest time between time.Now() in Heartbeat and its UPDATE

ASSUME JobsAssumption ==
  /\ QueueOf \in [Jobs -> Queues]
  /\ ListensOn \in [Listeners -> Queues]
  /\ IsFiniteSet(Jobs)
  /\ NoJob \notin Jobs
  /\ Deadline \in Nat
  /\ Stall \in 0 .. Deadline

VARIABLES
  (* the table *)
  stored,     \* rows
  created,    \* rank of created_at among the ids handed out, 0 before
  started,    \* started_at, as an age, Null if NULL
  updated,    \* updated_at, likewise
  finished,   \* rows with finished_at NOT NULL
  (* Listen, one transaction per stream at a time *)
  pc,         \* where the handler of a stream is
  txJob,      \* the variable "job" of the handler
  txNow,      \* its variable "now", as an age
  overtaken,  \* streams whose row was written after their snapshot
  rivalled,   \* streams with another serializable commit after their snapshot
  inbox,      \* inbox[l][j]: StartedAt of the copy of j that l was sent
  (* the unary calls *)
  call        \* the call that each caller has in flight

table   == <<stored, created, started, updated, finished>>
streams == <<pc, txJob, txNow, overtaken, rivalled, inbox>>
vars    == <<stored, created, started, updated, finished,
             pc, txJob, txNow, overtaken, rivalled, inbox, call>>

Null == -1
Age  == 0 .. (Deadline + 1)

Older(a) == IF a = Null \/ a > Deadline THEN a ELSE a + 1

InFlight(op, j, fin, age) == [op |-> op, job |-> j, fin |-> fin, age |-> age]

Idle == InFlight("none", NoJob, FALSE, Null)

TypeOK ==
  /\ stored \subseteq Jobs
  /\ created \in [Jobs -> Nat]
  /\ started \in [Jobs -> Age \cup {Null}]
  /\ updated \in [Jobs -> Age \cup {Null}]
  /\ finished \subseteq stored
  /\ pc \in [Listeners -> {"off", "wait", "selected", "stamped", "send"}]
  /\ txJob \in [Listeners -> Jobs \cup {NoJob}]
  /\ txNow \in [Listeners -> Age \cup {Null}]
  /\ overtaken \subseteq Listeners
  /\ rivalled \subseteq Listeners
  /\ inbox \in [Listeners -> [Jobs -> Age \cup {Null}]]
  /\ call \in [Callers ->
       [op: {"none", "create", "notify", "heartbeat", "delete"},
        job: Jobs \cup {NoJob}, fin: BOOLEAN, age: Age \cup {Null}]]

Init ==
  /\ stored = {} /\ finished = {}
  /\ created = [j \in Jobs |-> 0]
  /\ started = [j \in Jobs |-> Null]
  /\ updated = [j \in Jobs |-> Null]
  /\ pc = [l \in Listeners |-> "off"]
  /\ txJob = [l \in Listeners |-> NoJob]
  /\ txNow = [l \in Listeners |-> Null]
  /\ overtaken = {} /\ rivalled = {}
  /\ inbox = [l \in Listeners |-> [j \in Jobs |-> Null]]
  /\ call = [c \in Callers |-> Idle]

-----------------------------------------------------------------------------
(* Helpers *)

InTx(l) == pc[l] \in {"selected", "stamped"}

(* A commit that wrote the row of j dooms the open snapshots that chose j. *)
Overtake(j, S) ==
  overtaken' = overtaken \cup {m \in S : InTx(m) /\ txJob[m] = j}

(* The handler goes back to the select, or ends; its transaction is over.  *)
LeaveTx(l, to) ==
  /\ pc' = [pc EXCEPT ![l] = to]
  /\ txJob' = [txJob EXCEPT ![l] = NoJob]
  /\ txNow' = [txNow EXCEPT ![l] = Null]
  /\ overtaken' = overtaken \ {l}
  /\ rivalled' = rivalled \ {l}

(* Mutants of Due: one compares with >= instead of >, one never gives an   *)
(* abandoned job out again, one gives out finished jobs too.               *)
DueTooEarly(q) == {j \in stored \ finished : /\ QueueOf[j] = q
                                             /\ started[j] = Null \/ updated[j] >= Deadline}

DueOnlyNew(q) == {j \in stored \ finished : QueueOf[j] = q /\ started[j] = Null}

DueFinished(q) == {j \in stored : /\ QueueOf[j] = q
                                  /\ started[j] = Null \/ updated[j] > Deadline}

(* The predicate of getJob: unfinished, and not started or without a       *)
(* heartbeat for too long.  A NULL updated_at is never too old.            *)
Due(q) == {j \in stored \ finished : /\ QueueOf[j] = q
                                     /\ started[j] = Null \/ updated[j] > Deadline}

(* ORDER BY created_at ASC LIMIT 1 *)
Earliest(S) == {j \in S : \A k \in S : created[j] <= created[k]}

(* Mutant of CanCommit: at READ COMMITTED the UPDATE waits and goes on.    *)
ReadCommitted(l) == TRUE

(* What the isolation level of BeginTx is chosen for: an UPDATE of a row   *)
(* that changed since the snapshot fails with "could not serialize access".*)
CanCommit(l) == l \notin overtaken

-----------------------------------------------------------------------------
(* Create: the id and created_at are taken, then the INSERT commits on its *)
(* own, then the queue is notified.                                        *)

CreateCall(c, j) ==
  /\ call[c] = Idle
  /\ created[j] = 0
  /\ created' = [created EXCEPT ![j] = Cardinality({k \in Jobs : created[k] > 0}) + 1]
  /\ call' = [call EXCEPT ![c] = InFlight("create", j, FALSE, Null)]
  /\ UNCHANGED <<stored, started, updated, finished, streams>>

CreateInsert(c) ==
  /\ call[c].op = "create"
  /\ stored' = stored \cup {call[c].job}
  /\ call' = [call EXCEPT ![c] = InFlight("notify", call[c].job, FALSE, Null)]
  /\ UNCHANGED <<created, started, updated, finished, streams>>

(* A tick of a stream may come at any time, so a notification has no       *)
(* effect of its own here; Ticker.tla models how it becomes a tick.        *)
CreateNotify(c) ==
  /\ call[c].op = "notify"
  /\ call' = [call EXCEPT ![c] = Idle]
  /\ UNCHANGED <<table, streams>>

(* Heartbeat and Delete run at READ COMMITTED.  Their Get ends the call    *)
(* with sql.ErrNoRows when the row is missing, which changes nothing.      *)
HeartbeatGet(c, j, fin) ==
  /\ call[c] = Idle
  /\ j \in stored
  /\ call' = [call EXCEPT ![c] = InFlight("heartbeat", j, fin, 0)]
  /\ UNCHANGED <<table, streams>>

(* Mutant of HeartbeatUpdate: the row is inserted when it is missing. *)
HeartbeatUpsert(c) ==
  LET j == call[c].job IN
  /\ call[c].op = "heartbeat"
  /\ updated' = [updated EXCEPT ![j] = call[c].age]
  /\ finished' = IF call[c].fin THEN finished \cup {j} ELSE finished
  /\ Overtake(j, Listeners)
  /\ call' = [call EXCEPT ![c] = Idle]
  /\ UNCHANGED <<stored, created, started, pc, txJob, txNow, rivalled, inbox>>

(* The UPDATE finds no row if a Delete came in between; the call succeeds. *)
HeartbeatUpdate(c) ==
  LET j == call[c].job IN
  /\ call[c].op = "heartbeat"
  /\ IF j \in stored
     THEN /\ updated' = [updated EXCEPT ![j] = call[c].age]
          /\ finished' = IF call[c].fin THEN finished \cup {j} ELSE finished
          /\ Overtake(j, Listeners)
     ELSE UNCHANGED <<updated, finished, overtaken>>
  /\ call' = [call EXCEPT ![c] = Idle]
  /\ UNCHANGED <<stored, created, started, pc, txJob, txNow, rivalled, inbox>>

DeleteGet(c, j) ==
  /\ call[c] = Idle
  /\ j \in stored
  /\ call' = [call EXCEPT ![c] = InFlight("delete", j, FALSE, Null)]
  /\ UNCHANGED <<table, streams>>

DeleteRow(c) ==
  LET j == call[c].job IN
  /\ call[c].op = "delete"
  /\ stored' = stored \ {j}
  /\ started' = [started EXCEPT ![j] = Null]
  /\ updated' = [updated EXCEPT ![j] = Null]
  /\ finished' = finished \ {j}
  /\ Overtake(j, Listeners)
  /\ call' = [call EXCEPT ![c] = Idle]
  /\ UNCHANGED <<created, pc, txJob, txNow, rivalled, inbox>>

(* The caller's context ends, a statement fails or the server dies: what   *)
(* was committed stays, an open transaction is rolled back.                *)
CallDies(c) ==
  /\ call[c] # Idle
  /\ call' = [call EXCEPT ![c] = Idle]
  /\ UNCHANGED <<table, streams>>

-----------------------------------------------------------------------------
(* Listen *)

(* Connect, LISTEN on the channel of the queue, start the ticker. *)
Listen(l) ==
  /\ pc[l] = "off"
  /\ pc' = [pc EXCEPT ![l] = "wait"]
  /\ UNCHANGED <<table, txJob, txNow, overtaken, rivalled, inbox, call>>

(* A tick: BEGIN ISOLATION LEVEL SERIALIZABLE and the SELECT, which takes  *)
(* the snapshot.  Without a row the handler rolls back and waits again.    *)
ListenSelect(l) ==
  /\ pc[l] = "wait"
  /\ \E j \in Earliest(Due(ListensOn[l])) :
       txJob' = [txJob EXCEPT ![l] = j]
  /\ pc' = [pc EXCEPT ![l] = "selected"]
  /\ UNCHANGED <<table, txNow, overtaken, rivalled, inbox, call>>

(* now := time.Now() *)
ListenStamp(l) ==
  /\ pc[l] = "selected"
  /\ pc' = [pc EXCEPT ![l] = "stamped"]
  /\ txNow' = [txNow EXCEPT ![l] = 0]
  /\ UNCHANGED <<table, txJob, overtaken, rivalled, inbox, call>>

(* UPDATE started_at, updated_at; COMMIT *)
ListenCommit(l) ==
  LET j == txJob[l] IN
  /\ pc[l] = "stamped"
  /\ CanCommit(l)
  /\ IF j \in stored
     THEN /\ started' = [started EXCEPT ![j] = txNow[l]]
          /\ updated' = [updated EXCEPT ![j] = txNow[l]]
     ELSE UNCHANGED <<started, updated>>
  /\ Overtake(j, Listeners \ {l})
  /\ rivalled' = rivalled \cup {m \in Listeners \ {l} : InTx(m)}
  /\ pc' = [pc EXCEPT ![l] = "send"]
  /\ UNCHANGED <<stored, created, finished, txJob, txNow, inbox, call>>

(* The UPDATE or the COMMIT fails with "could not serialize access": the   *)
(* row changed, or PostgreSQL suspects a cycle with another serializable   *)
(* transaction.  The handler continues; the tick is used up.               *)
ListenConflict(l) ==
  /\ pc[l] = "stamped"
  /\ l \in overtaken \cup rivalled
  /\ LeaveTx(l, "wait")
  /\ UNCHANGED <<table, inbox, call>>

(* resp.Send(job) *)
ListenSend(l) ==
  /\ pc[l] = "send"
  /\ inbox' = [inbox EXCEPT ![l][txJob[l]] = txNow[l]]
  /\ LeaveTx(l, "wait")
  /\ UNCHANGED <<table, call>>

(* The stream's context ends, Send or another statement fails, or the      *)
(* server dies.  A job already committed is not sent.                      *)
StreamBreaks(l) ==
  /\ pc[l] # "off"
  /\ LeaveTx(l, "off")
  /\ UNCHANGED <<table, inbox, call>>

-----------------------------------------------------------------------------
(* The surroundings *)

(* The client is done with copies, crashes, or never reads them. *)
Drop(l, S) ==
  /\ S # {}
  /\ \A j \in S : inbox[l][j] # Null
  /\ inbox' = [inbox EXCEPT ![l] = [j \in Jobs |-> IF j \in S THEN Null ELSE @[j]]]
  /\ UNCHANGED <<table, pc, txJob, txNow, overtaken, rivalled, call>>

(* A stream of a queue that this instance leaves out commits: it shares no *)
(* job with the others, but PostgreSQL may suspect a cycle all the same.   *)
OtherQueueCommits ==
  /\ rivalled' = rivalled \cup {l \in Listeners : InTx(l)}
  /\ UNCHANGED <<table, pc, txJob, txNow, overtaken, inbox, call>>

Tick ==
  /\ \A c \in Callers : call[c].op = "heartbeat" => call[c].age < Stall
  /\ started' = [j \in Jobs |-> Older(started[j])]
  /\ updated' = [j \in Jobs |-> Older(updated[j])]
  /\ txNow' = [l \in Listeners |-> Older(txNow[l])]
  /\ inbox' = [l \in Listeners |-> [j \in Jobs |-> Older(inbox[l][j])]]
  /\ call' = [c \in Callers |->
       InFlight(call[c].op, call[c].job, call[c].fin, Older(call[c].age))]
  /\ UNCHANGED <<stored, created, finished, pc, txJob, overtaken, rivalled>>

CallStep(c) ==
  \/ \E j \in Jobs : \/ CreateCall(c, j)
                     \/ DeleteGet(c, j)
                     \/ \E fin \in BOOLEAN : HeartbeatGet(c, j, fin)
  \/ CreateInsert(c) \/ CreateNotify(c)
  \/ HeartbeatUpdate(c) \/ DeleteRow(c) \/ CallDies(c)

ListenStep(l) ==
  \/ Listen(l) \/ ListenSelect(l) \/ ListenStamp(l) \/ ListenCommit(l)
  \/ ListenConflict(l) \/ ListenSend(l) \/ StreamBreaks(l)
  \/ \E S \in SUBSET Jobs : Drop(l, S)

Next == \/ \E c \in Callers : CallStep(c)
        \/ \E l \in Listeners : ListenStep(l)
        \/ OtherQueueCommits
        \/ Tick

Spec == Init /\ [][Next]_vars

(* The handlers run, and the ticker ticks again.  A transaction that could *)
(* commit again and again is not aborted forever on suspicion: the jitter  *)
(* of the ticker separates the streams.  Nothing makes a client call, drop *)
(* a copy or keep its stream, and time need not pass.                      *)
Fairness == \A l \in Listeners :
  /\ WF_vars(Listen(l)) /\ WF_vars(ListenSelect(l)) /\ WF_vars(ListenStamp(l))
  /\ SF_vars(ListenCommit(l))
  /\ WF_vars(ListenConflict(l)) /\ WF_vars(ListenSend(l))

FairSpec == Spec /\ Fairness

-----------------------------------------------------------------------------
(* Correctness *)

(* The ages of StartedAt in the copies of j that l was sent or is about to *)
(* be sent.                                                                *)
Held(l, j) == ({inbox[l][j]} \ {Null})
              \cup {txNow[m] : m \in {k \in {l} : pc[k] = "send" /\ txJob[k] = j}}

(* At most one client holds a copy of a job that was started less than     *)
(* Deadline - Stall ago: two workers never work on a job both believing    *)
(* that they were just given it.  This is what the serializable            *)
(* transaction in Listen (server.go:152-191) and the deadline in getJob    *)
(* (server.go:227-232) are for.  Stall is lost because Heartbeat may write *)
(* an updated_at that a takeover has already overwritten by a newer one.   *)
OneFreshHolder ==
  \A j \in Jobs : \A l, m \in Listeners :
    \A a \in Held(l, j), b \in Held(m, j) :
      a <= Deadline - Stall /\ b <= Deadline - Stall => l = m

(* The table read as leases implements JobLease: a commit of Listen takes  *)
(* a job only if, at the commit and not just at the SELECT, the job is     *)
(* unfinished and was never started or lost its heartbeats for Deadline.   *)
JobPhase == [j \in Jobs |-> IF j \notin stored THEN "absent"
                           ELSE IF j \in finished THEN "finished"
                           ELSE IF started[j] # Null THEN "running" ELSE "queued"]

Lease == INSTANCE JobLease WITH phase <- JobPhase, idle <- updated, held <- started

LeaseSpec == Lease!Spec

(* The inductive invariant behind both. *)

(* A snapshot that was not overtaken still tells the truth about its row.  *)
SnapshotTrue ==
  \A l \in Listeners : InTx(l) /\ l \notin overtaken =>
    /\ txJob[l] \in stored \ finished
    /\ started[txJob[l]] = Null \/ updated[txJob[l]] > Deadline

StampTaken == \A l \in Listeners :
  /\ pc[l] \in {"selected", "stamped", "send"} => txJob[l] \in Jobs
  /\ pc[l] \in {"stamped", "send"} => txNow[l] \in Age

CallsWellFormed == \A c \in Callers :
  /\ call[c].op # "none" => call[c].job \in Jobs
  /\ call[c].op = "heartbeat" => call[c].age \in 0 .. Stall

Creates(c, j) == call[c].op = "create" /\ call[c].job = j

(* An id that never made it into the table is known to nobody but its call.*)
IdsFresh == \A j \in Jobs :
  /\ created[j] = 0 \/ (\E c \in Callers : Creates(c, j)) =>
       j \notin stored /\ \A l \in Listeners : Held(l, j) = {}
  /\ \A c \in Callers : Creates(c, j) =>
       created[j] # 0 /\ \A d \in Callers : Creates(d, j) => c = d

RowsGone == \A j \in Jobs : j \notin stored => started[j] = Null /\ updated[j] = Null

(* updated_at lags behind the start of any copy by at most Stall. *)
LeaseCovers == \A l \in Listeners, j \in Jobs : \A d \in Held(l, j) :
  j \in stored => /\ started[j] # Null
                 /\ updated[j] # Null
                 /\ updated[j] <= d + Stall

IndInv == /\ TypeOK /\ SnapshotTrue /\ StampTaken /\ CallsWellFormed
          /\ IdsFresh /\ RowsGone /\ LeaseCovers /\ OneFreshHolder

(* An id that was in use and is not in the table any more. *)
Gone(j) == created[j] # 0 /\ j \notin stored /\ \A c \in Callers : ~Creates(c, j)

(* A deleted job never comes back, although a Heartbeat looks for the row  *)
(* before it writes it (server.go:272-302), a Listen chooses it before it  *)
(* commits (server.go:169-188), and both may meet the Delete in between.   *)
DeletedForGood == [][\A j \in Jobs : Gone(j) => Gone(j)']_vars

(* An open job waits for a worker: never given out, or abandoned. *)
Owed(j) == j \in stored \ finished /\ (started[j] = Null \/ updated[j] > Deadline)

(* No older job of the queue is open or still on its way into the table. *)
NextInLine(j) ==
  \A k \in Jobs : QueueOf[k] = QueueOf[j] /\ created[k] \in 1 .. created[j] - 1 =>
    /\ k \notin stored \ finished
    /\ \A c \in Callers : ~(call[c].op = "create" /\ call[c].job = k)

GivenOut(j) == \E l \in Listeners : pc[l] = "send" /\ txJob[l] = j

StreamsSettle == <>[][\A l \in Listeners : pc'[l] = "off" => pc[l] = "off"]_pc

HeartbeatEnds(c, j) ==
  call[c].op = "heartbeat" /\ call[c].job = j /\ call'[c] = Idle

Abandoned(j) == <>[][\A c \in Callers : ~HeartbeatEnds(c, j)]_call

Served(j) == StreamsSettle /\ Abandoned(j) =>
               (Owed(j) /\ NextInLine(j) ~> GivenOut(j) \/ ~Owed(j))

(* Once streams stay up and nobody sends heartbeats for it any more, the   *)
(* oldest open job that waits for a worker is given out, whatever the      *)
(* other streams and the other callers do: a crashed worker's job is not   *)
(* lost (server.go:230-231).  Younger jobs have no such promise: getJob    *)
(* starves them while older ones keep coming back.                         *)
OldestIsServed == \A j \in Jobs : Served(j)

=============================================================================
