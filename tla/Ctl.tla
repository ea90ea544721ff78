--------------------------------- MODULE Ctl ---------------------------------
(***************************************************************************)
(* The command line client, cmd/backbonectl/cmd: processes that connect to *)
(* the server of module Server, make one call, print what comes back and   *)
(* end, with exit code 0 or 1.                                             *)
(*                                                                         *)
(* The services are here as a command sees them, rows that appear in their *)
(* tables and go; how they get there is the matter of Jobs, CronJobs,      *)
(* Locks and Events.  A handler that is cut off has committed or it has    *)
(* not; its client gets an error either way, or an answer that was already *)
(* on its way.                                                             *)
(***************************************************************************)
EXTENDS Server

CONSTANTS
  Procs,   \* client processes; also the id of the row that one creates
  Old,     \* id of the rows that an earlier life of the database left
  None,    \* no --id given
  Menu     \* Menu[p]: the commands that process p may be

ASSUME CtlAssumption ==
  /\ Old \notin Procs /\ None \notin Procs \cup {Old}
  /\ Services = {"jobs", "cronjobs", "locks", "events"}

Ids    == Procs \cup {Old}
Tables == Services \X Ids

Inserts == {"Create", "Publish", "Aquire"}
Updates == {"Hold", "Release"}
Reads   == {"Heartbeat", "Delete"}     \* they Get their row before they write
Streams == {"Listen", "Subscribe"}

(* A request.  The flag tells an insert of a row that is larger than the   *)
(* largest message of the server, and a Heartbeat with --finished.         *)
Request == [service : Services,
            op : Inserts \cup Updates \cup Reads \cup Streams \cup {"List"},
            id : Ids \cup {None},
            flag : {"none", "large", "finished"}]

VARIABLES
  rows,      \* rows of all tables, as pairs of a service and an id
  gone,      \* those that were deleted, for the properties
  finished,  \* ids of jobs whose finished_at is set
  large,     \* ids of rows larger than the server's largest message
  proc,      \* where each process, and the handler of its call, is
  req,       \* its request
  got,       \* what the handler selected: ids
  out,       \* ids printed
  cut        \* lists whose query broke off

dbVars  == <<rows, gone, finished, large>>
ctlVars == <<rows, gone, finished, large, proc, req, got, out, cut>>
allVars == <<serverVars, ctlVars>>

NoRequest == [service |-> "jobs", op |-> "List", id |-> None, flag |-> "none"]

CtlTypeOK ==
  /\ TypeOK
  /\ rows \subseteq Tables /\ gone \subseteq Tables
  /\ finished \subseteq Ids /\ large \subseteq Ids
  /\ proc \in [Procs -> {"dial", "run", "handler", "read", "rows", "answered",
                         "stream", "ok", "failed"}]
  /\ req \in [Procs -> Request]
  /\ got \in [Procs -> SUBSET Ids] /\ out \in [Procs -> SUBSET Ids]
  /\ cut \subseteq Procs

CtlInit ==
  /\ Init
  /\ rows = tables \X {Old}
  /\ gone = {} /\ finished = {} /\ large = {} /\ cut = {}
  /\ proc = [p \in Procs |-> "dial"]
  /\ req = [p \in Procs |-> NoRequest]
  /\ got = [p \in Procs |-> {}] /\ out = [p \in Procs |-> {}]

-----------------------------------------------------------------------------
(* Helpers *)

InTable(s) == {i \in Ids : <<s, i>> \in rows}

(* Processes whose call is open at the server. *)
InServer == {"handler", "read", "rows", "stream"}
Open     == {p \in Procs : proc[p] \in InServer}

At(p, where) == proc[p] = where
Goes(p, to)  == proc' = [proc EXCEPT ![p] = to]

-----------------------------------------------------------------------------
(* Before the call *)

(* initLogging, initConfig or the credentials fail, the connection breaks  *)
(* or a label has no "=". *)
StartFails(p) ==
  /\ proc[p] \in {"dial", "run"}
  /\ Goes(p, "failed")
  /\ UNCHANGED <<rows, gone, finished, large, req, got, out, cut>>

(* Dial blocks until a server answers, however long it takes. *)
Dial(p) ==
  /\ At(p, "dial")
  /\ Serving
  /\ Goes(p, "run")
  /\ UNCHANGED <<rows, gone, finished, large, req, got, out, cut>>

(* The call reaches the server, which knows the service or does not.       *)
Call(p, service, op, id, flag) ==
  /\ At(p, "run")
  /\ Serving
  /\ req' = [req EXCEPT ![p] = [service |-> service, op |-> op, id |-> id,
                                flag |-> flag]]
  /\ Goes(p, IF service \notin registered THEN "failed"
             ELSE IF op \in Streams THEN "stream" ELSE "handler")
  /\ UNCHANGED <<rows, gone, finished, large, got, out, cut>>

-----------------------------------------------------------------------------
(* The commands *)

createJob(p) ==
  /\ "createJob" \in Menu[p]
  /\ \E flag \in {"none", "large"} : Call(p, "jobs", "Create", p, flag)

heartbeatJob(p) ==
  /\ "heartbeatJob" \in Menu[p]
  /\ \E id \in Ids, flag \in {"none", "finished"} :
       Call(p, "jobs", "Heartbeat", id, flag)

deleteJobs(p) ==
  /\ "deleteJobs" \in Menu[p]
  /\ \E id \in Ids \cup {None} : Call(p, "jobs", "Delete", id, "none")

listJobs(p) ==
  /\ "listJobs" \in Menu[p]
  /\ Call(p, "jobs", "List", None, "none")

listenJobs(p) ==
  /\ "listenJobs" \in Menu[p]
  /\ Call(p, "jobs", "Listen", None, "none")

createCronjob(p) ==
  /\ "createCronjob" \in Menu[p]
  /\ \E flag \in {"none", "large"} : Call(p, "cronjobs", "Create", p, flag)

deleteCronjobs(p) ==
  /\ "deleteCronjobs" \in Menu[p]
  /\ \E id \in Ids \cup {None} : Call(p, "cronjobs", "Delete", id, "none")

listCronjobs(p) ==
  /\ "listCronjobs" \in Menu[p]
  /\ Call(p, "cronjobs", "List", None, "none")

publish(p) ==
  /\ "publish" \in Menu[p]
  /\ \E flag \in {"none", "large"} : Call(p, "events", "Publish", p, flag)

subscribe(p) ==
  /\ "subscribe" \in Menu[p]
  /\ Call(p, "events", "Subscribe", None, "none")

aquire(p) ==
  /\ "aquire" \in Menu[p]
  /\ \E id \in Ids : Call(p, "locks", "Aquire", id, "none")

hold(p) ==
  /\ "hold" \in Menu[p]
  /\ \E id \in Ids : Call(p, "locks", "Hold", id, "none")

release(p) ==
  /\ "release" \in Menu[p]
  /\ \E id \in Ids : Call(p, "locks", "Release", id, "none")

Command(p) ==
  \/ createJob(p) \/ heartbeatJob(p) \/ deleteJobs(p) \/ listJobs(p)
  \/ listenJobs(p) \/ createCronjob(p) \/ deleteCronjobs(p)
  \/ listCronjobs(p) \/ publish(p) \/ subscribe(p) \/ aquire(p) \/ hold(p)
  \/ release(p)

-----------------------------------------------------------------------------
(* The handlers *)

(* Mutant of Insert: the error of the INSERT is not looked at. *)
InsertUnchecked(p) ==
  /\ At(p, "handler")
  /\ req[p].op \in Inserts
  /\ rows' \in {rows, rows \cup {<<req[p].service, req[p].id>>}}
  /\ large' = IF req[p].flag = "large" THEN large \cup {req[p].id} ELSE large
  /\ got' = [got EXCEPT ![p] = {req[p].id}]
  /\ Goes(p, "answered")
  /\ UNCHANGED <<gone, finished, req, out, cut>>

(* jobs and cronjobs Create, Publish, Aquire: the row is in its table.  A  *)
(* Create of a cronjob goes on to schedule it, which panics in the handler *)
(* when jobsServer is nil; that one is recovered.                          *)
Insert(p) ==
  /\ At(p, "handler")
  /\ req[p].op \in Inserts
  /\ rows' = rows \cup {<<req[p].service, req[p].id>>}
  /\ large' = IF req[p].flag = "large" THEN large \cup {req[p].id} ELSE large
  /\ got' = [got EXCEPT ![p] = {req[p].id}]
  /\ Goes(p, IF req[p].service = "cronjobs" /\ backend = "nil"
             THEN "failed" ELSE "answered")
  /\ UNCHANGED <<gone, finished, req, out, cut>>

(* Hold and Release write updated_at of every row; see Locks. *)
UpdateLocks(p) ==
  /\ At(p, "handler")
  /\ req[p].op \in Updates
  /\ Goes(p, "answered")
  /\ UNCHANGED <<rows, gone, finished, large, req, got, out, cut>>

(* The row of an id.  What an Or without conditions selects, for a cronjob *)
(* without one, is left to squirrel: some row or none.                     *)
Selects(p, i) ==
  \/ i = req[p].id
  \/ req[p].service = "cronjobs" /\ req[p].id = None

(* Mutant of Get: that there is no row is not an error. *)
GetUnchecked(p) ==
  /\ At(p, "handler")
  /\ req[p].op \in Reads
  /\ LET found == {i \in InTable(req[p].service) : Selects(p, i)} IN
       got' = [got EXCEPT ![p] = IF found = {} THEN {req[p].id} ELSE found]
  /\ Goes(p, "read")
  /\ UNCHANGED <<rows, gone, finished, large, req, out, cut>>

(* Heartbeat and Delete begin with a Get in their transaction. *)
Get(p) ==
  /\ At(p, "handler")
  /\ req[p].op \in Reads
  /\ \E i \in InTable(req[p].service) :
       /\ Selects(p, i)
       /\ got' = [got EXCEPT ![p] = {i}]
  /\ Goes(p, "read")
  /\ UNCHANGED <<rows, gone, finished, large, req, out, cut>>

(* Mutant of Commit: its error is not given to the caller. *)
CommitUnchecked(p) ==
  /\ At(p, "read")
  /\ LET mine == {req[p].service} \X got[p] IN
       \/ UNCHANGED <<rows, gone, finished>>
       \/ /\ req[p].op = "Delete"
          /\ rows' = rows \ mine
          /\ gone' = gone \cup mine
          /\ UNCHANGED finished
  /\ Goes(p, "answered")
  /\ UNCHANGED <<large, req, got, out, cut>>

(* The write and the commit.  Another Delete may have come first, then     *)
(* there is nothing left to write, and no error.                           *)
Commit(p) ==
  /\ At(p, "read")
  /\ LET mine == {req[p].service} \X got[p] IN
       \/ /\ req[p].op = "Delete"
          /\ rows' = rows \ mine
          /\ gone' = gone \cup mine
          /\ UNCHANGED finished
       \/ /\ req[p].op = "Heartbeat"
          /\ finished' = IF req[p].flag = "finished" /\ mine \subseteq rows
                         THEN finished \cup got[p] ELSE finished
          /\ UNCHANGED <<rows, gone>>
  /\ Goes(p, "answered")
  /\ UNCHANGED <<large, req, got, out, cut>>

(* A statement fails, or the commit. *)
HandlerFails(p) ==
  /\ proc[p] \in {"handler", "read"}
  /\ Goes(p, "failed")
  /\ UNCHANGED <<rows, gone, finished, large, req, got, out, cut>>

(* List: the rows of the query go out one by one. *)
Query(p) ==
  /\ At(p, "handler")
  /\ req[p].op = "List"
  /\ got' = [got EXCEPT ![p] = InTable(req[p].service)]
  /\ Goes(p, "rows")
  /\ UNCHANGED <<rows, gone, finished, large, req, out, cut>>

SendRow(p) ==
  /\ At(p, "rows")
  /\ \E i \in got[p] \ (out[p] \cup large) :
       out' = [out EXCEPT ![p] = @ \cup {i}]
  /\ UNCHANGED <<rows, gone, finished, large, proc, req, got, cut>>

(* Send returns an error for a row that is too large, or for any other. *)
SendFails(p) ==
  /\ At(p, "rows")
  /\ Goes(p, "failed")
  /\ UNCHANGED <<rows, gone, finished, large, req, got, out, cut>>

(* Mutant of ListEnds: the error of Send is not looked at. *)
ListEndsAnyway(p) ==
  /\ At(p, "rows")
  /\ got[p] \subseteq out[p] \cup large
  /\ Goes(p, "answered")
  /\ UNCHANGED <<rows, gone, finished, large, req, got, out, cut>>

ListEnds(p) ==
  /\ At(p, "rows")
  /\ got[p] \subseteq out[p]
  /\ Goes(p, "answered")
  /\ UNCHANGED <<rows, gone, finished, large, req, got, out, cut>>

(* The query breaks off: Next is false, and nobody asks rows.Err why. *)
QueryBreaks(p) ==
  /\ At(p, "rows")
  /\ cut' = cut \cup {p}
  /\ Goes(p, "answered")
  /\ UNCHANGED <<rows, gone, finished, large, req, got, out>>

(* A job or an event is committed to the stream, sent and printed. *)
StreamSends(p) ==
  /\ At(p, "stream")
  /\ \E i \in InTable(req[p].service) \ (out[p] \cup large) :
       /\ req[p].op = "Listen" => i \notin finished
       /\ out' = [out EXCEPT ![p] = @ \cup {i}]
  /\ UNCHANGED <<rows, gone, finished, large, proc, req, got, cut>>

(* A stream ends only with an error, that of a message too large included. *)
StreamFails(p) ==
  /\ At(p, "stream")
  /\ Goes(p, "failed")
  /\ UNCHANGED <<rows, gone, finished, large, req, got, out, cut>>

Handler(p) ==
  \/ Insert(p) \/ UpdateLocks(p) \/ Get(p) \/ Commit(p) \/ HandlerFails(p)
  \/ Query(p) \/ SendRow(p) \/ SendFails(p) \/ ListEnds(p)
  \/ QueryBreaks(p) \/ StreamSends(p) \/ StreamFails(p)

(* scheduleJobs, of the backend or of a Create, makes the job of a cronjob. *)
Schedule ==
  /\ backend = "server"
  /\ \E i \in InTable("cronjobs") :
       /\ <<"jobs", i>> \notin rows
       /\ rows' = rows \cup {<<"jobs", i>>}
  /\ UNCHANGED <<gone, finished, large, proc, req, got, out, cut>>

-----------------------------------------------------------------------------
(* After the call *)

(* The answer of a unary call has the row in it; one too large to be sent  *)
(* reaches nobody.                                                         *)
PrintAnswer(p) ==
  /\ At(p, "answered")
  /\ req[p].op # "List" => got[p] \cap large = {}
  /\ out' = IF req[p].op = "List" THEN out ELSE [out EXCEPT ![p] = got[p]]
  /\ Goes(p, "ok")
  /\ UNCHANGED <<rows, gone, finished, large, req, got, cut>>

(* The answer is lost or too large, what the handler did after its write   *)
(* (NOTIFY, scheduleJobs) failed, or it cannot be printed.                 *)
AnswerLost(p) ==
  /\ At(p, "answered")
  /\ Goes(p, "failed")
  /\ UNCHANGED <<rows, gone, finished, large, req, got, out, cut>>

ClientStep(p) ==
  \/ StartFails(p) \/ Dial(p) \/ Command(p) \/ Handler(p)
  \/ PrintAnswer(p) \/ AnswerLost(p)

-----------------------------------------------------------------------------

(* A server that ends, or is stopped, takes its open calls with it; one    *)
(* that drains leaves them.                                                *)
Accepts == srv \in {"up", "drain"} /\ ~Stopped

Disconnects ==
  /\ proc' = [p \in Procs |-> IF p \in Open /\ ~Accepts' THEN "failed"
                              ELSE proc[p]]
  /\ UNCHANGED <<rows, gone, finished, large, req, got, out, cut>>

ServerStep == ServerNext(Open, InTable("cronjobs")) /\ Disconnects

CtlNext ==
  \/ ServerStep
  \/ /\ \/ \E p \in Procs : ClientStep(p)
        \/ Schedule
     /\ UNCHANGED serverVars

(* main and the goroutine of the signal go on as long as they can; nothing *)
(* is asked of the clients, of failures or of operators.                   *)
CtlSpec ==
  /\ CtlInit /\ [][CtlNext]_allVars
  /\ WF_allVars(MainStep(Open) /\ Disconnects)
  /\ WF_allVars(SignalStep /\ Disconnects)

-----------------------------------------------------------------------------
(* Properties *)

(***************************************************************************)
(* No handler runs, and no row is stored, without its table: a component   *)
(* is registered only after its NewServer, whose error ends the process,   *)
(* and the table of jobs is there for the backend that makes jobs.         *)
(***************************************************************************)
NoTableMissing ==
  /\ rows \subseteq tables \X Ids
  /\ \A p \in Open : req[p].service \in tables

(***************************************************************************)
(* Exit code 0 of create, publish, aquire, delete and a heartbeat with     *)
(* --finished is true: what it created was stored, the row it was given,   *)
(* and no other, is deleted, and a job that it reported finished is, or    *)
(* was deleted.  This relies on the deferred Commit writing its error to   *)
(* the result of the handler, and on the row that Get selected for an id.  *)
(* Nothing is said of hold and release: they end with 0 for an id that     *)
(* does not exist as well, because nobody looks at how many rows were      *)
(* written (locks/server.go:117-121, 131).                                 *)
(***************************************************************************)
ExitZeroIsTrue ==
  \A p \in Procs : At(p, "ok") =>
    LET r == req[p] IN
      /\ r.op \in Inserts => <<r.service, r.id>> \in rows \cup gone
      /\ r.op = "Delete" => /\ {r.service} \X got[p] \subseteq gone
                            /\ got[p] # {}
                            /\ r.id # None => got[p] = {r.id}
      /\ (r.op = "Heartbeat" /\ r.flag = "finished") =>
            r.id \in finished \/ <<r.service, r.id>> \in gone

(***************************************************************************)
(* A list that ends with exit code 0 has printed every row of its query,   *)
(* unless the query broke off: a row that cannot be sent fails the list    *)
(* and is never left out silently.                                         *)
(***************************************************************************)
ListedInFull ==
  \A p \in Procs : (At(p, "ok") /\ req[p].op = "List" /\ p \notin cut) =>
    out[p] = got[p]

(***************************************************************************)
(* An interrupt that finds grpcServer assigned ends the process, whatever  *)
(* its streams do.  One that came before finds nil, at times because of    *)
(* the unsynchronised read (main.go:62), and stops nobody; a stream that   *)
(* gets in before ListenAndServe notices the end of the context then keeps *)
(* the process alive, but it ends once no call is open.                    *)
(***************************************************************************)
InterruptEnds ==
  /\ signal = "sent" /\ srv \in {"assigned", "up", "drain"} ~> srv = "off"
  /\ []<>(Open = {}) => (signal = "sent" ~> srv = "off")

-----------------------------------------------------------------------------
(* The invariant of the proofs *)

Stored(s, i) == <<s, i>> \in rows \cup gone

InsertInv(p) ==
  /\ req[p].id \in Ids
  /\ proc[p] \in {"answered", "ok"} => Stored(req[p].service, req[p].id)

Found(p, i) == got[p] = {i} /\ Selects(p, i) /\ Stored(req[p].service, i)

Written(p, i) ==
  \/ <<req[p].service, i>> \in gone
  \/ req[p].op = "Heartbeat" /\ (req[p].flag = "finished" => i \in finished)

ReadInv(p) ==
  /\ req[p].op = "Heartbeat" => req[p].service = "jobs"
  /\ proc[p] \in {"read", "answered", "ok"} => \E i \in Ids : Found(p, i)
  /\ proc[p] \in {"answered", "ok"} => \A i \in got[p] : Written(p, i)

ListInv(p) ==
  /\ proc[p] = "handler" => out[p] = {}
  /\ proc[p] \in {"rows", "answered", "ok"} => out[p] \subseteq got[p]
  /\ (proc[p] \in {"answered", "ok"} /\ p \notin cut) => out[p] = got[p]

CallInv(p) ==
  /\ proc[p] \in {"dial", "run"} => req[p] = NoRequest /\ out[p] = {}
  /\ proc[p] \in InServer => req[p].service \in registered
  /\ proc[p] = "rows" => req[p].op = "List"
  /\ proc[p] \notin {"dial", "run"} =>
       /\ req[p].op \in Inserts => InsertInv(p)
       /\ req[p].op \in Reads => ReadInv(p)
       /\ req[p].op = "List" => ListInv(p)

CtlInv ==
  /\ ServerInv
  /\ CtlTypeOK
  /\ rows \subseteq tables \X Ids
  /\ Open # {} => srv \in {"up", "drain"}
  /\ \A p \in Procs : CallInv(p)
=============================================================================
