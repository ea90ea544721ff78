----------------------------- MODULE CtlProofs -----------------------------
(***************************************************************************)
(* Proofs about Server and Ctl.  ServerInv is kept by every step of the    *)
(* process, CtlInv by every step of a client and by those of the server.   *)
(***************************************************************************)
EXTENDS Ctl, TLAPS

-----------------------------------------------------------------------------
(* The server *)

(***************************************************************************)
(* A process that is not running knows of no component.                    *)
(***************************************************************************)
LEMMA ServerStarts == Init => ServerInv
BY ServerAssumption DEF Init, ServerInv, TypeOK, NilOnlyIfMisordered

(***************************************************************************)
(* A process that ends forgets what it registered; its tables stay.        *)
(***************************************************************************)
LEMMA OffKeeps ==
  ASSUME ServerInv, Off, tables \subseteq tables', tables' \subseteq Services,
         panic' = panic \/ (panic' = "nil" /\ backend = "nil")
  PROVE  ServerInv'
<1>1. Len(list) \in Nat
  BY ServerAssumption DEF ServerInv, TypeOK
<1>2. TypeOK'
  BY <1>1 DEF ServerInv, TypeOK, Off
<1>3. NilOnlyIfMisordered'
  BY <1>1 DEF ServerInv, TypeOK, Off, NilOnlyIfMisordered, Misordered
<1> QED
  BY <1>2, <1>3 DEF ServerInv, Off

(***************************************************************************)
(* Register hands the jobsServer of the jobs before it to the cronjobs.    *)
(***************************************************************************)
LEMMA RegisterKeeps ==
  ASSUME ServerInv, Register
  PROVE  ServerInv'
<1>1. /\ Len(list) \in Nat /\ next \in 1 .. Len(list)
      /\ next' = next + 1 /\ next' \in 1 .. Len(list) + 1
  BY ServerAssumption DEF ServerInv, TypeOK, Register, InRegister
<1>2. TypeOK'
  BY <1>1, ServerAssumption DEF ServerInv, TypeOK, Register, InRegister
<1>3. \A j \in 1 .. next' - 1 : list'[j] = "jobs" => jobsServer' = "server"
  BY <1>1 DEF ServerInv, Register
<1>4. jobsServer' = "server" => "jobs" \in registered'
  BY DEF ServerInv, Register
<1>5. backend' = "nil" =>
        \E j \in 1 .. next' - 1 : /\ list'[j] = "cronjobs"
                                  /\ \A i \in 1 .. j - 1 : list'[i] # "jobs"
  <2>1. CASE backend' = backend
    BY <1>1, <2>1 DEF ServerInv, Register
  <2>2. CASE list[next] = "cronjobs" /\ backend' = jobsServer
    BY <1>1, <2>2 DEF ServerInv, Register
  <2> QED
    BY <2>1, <2>2 DEF Register
<1>6. backend' = "server" => jobsServer' = "server"
  BY DEF ServerInv, Register
<1> QED
  BY <1>2, <1>3, <1>4, <1>5, <1>6
  DEF ServerInv, Register, InRegister, NilOnlyIfMisordered

(***************************************************************************)
(* Every step of the process keeps ServerInv, whatever calls are open and  *)
(* whichever rows are due.                                                 *)
(***************************************************************************)
LEMMA ServerKeeps ==
  ASSUME ServerInv, NEW calls, NEW due, ServerNext(calls, due)
  PROVE  ServerInv'
<1> USE ServerAssumption
<1>0. Len(list) \in Nat /\ next \in 1 .. Len(list) + 1
  BY DEF ServerInv, TypeOK
<1>1. CASE Try \/ PingFails \/ PingAnswers \/ Assign \/ Serve \/ Drain
  BY <1>1 DEF Try, PingFails, PingAnswers, Assign, Serve, Drain, ServerInv, TypeOK,
              NilOnlyIfMisordered
<1>2. CASE Cancel \/ StopServer \/ Interrupt
  BY <1>2 DEF Cancel, StopServer, Interrupt, ServerInv, TypeOK,
              NilOnlyIfMisordered
<1>3. CASE GiveUp \/ ServeFails \/ ServeEnds \/ ServeDrains(calls) \/ Crash
  <2>1. Off /\ UNCHANGED <<tables, panic>>
    BY <1>3 DEF GiveUp, ServeFails, ServeEnds, ServeDrains, Crash
  <2> QED
    BY <2>1, OffKeeps DEF ServerInv, TypeOK
<1>4. CASE BackendPanics(due)
  BY <1>4, OffKeeps DEF BackendPanics, ServerInv, TypeOK
<1>5. CASE RegisterFails
  BY <1>5, OffKeeps DEF RegisterFails, InRegister, ServerInv, TypeOK
<1>6. CASE Register
  BY <1>6, RegisterKeeps
<1>7. CASE RegisterNothing
  <2>1. /\ list[next] \notin {"jobs", "cronjobs"}
        /\ next' = next + 1 /\ next' \in 1 .. Len(list) + 1
    BY <1>0, <1>7 DEF RegisterNothing, InRegister
  <2> QED
    BY <1>0, <1>7, <2>1 DEF RegisterNothing, InRegister, ServerInv, TypeOK,
                            NilOnlyIfMisordered
<1>8. ASSUME NEW l \in Lists, Start(l)
      PROVE  ServerInv'
  <2>1. next = 1 /\ Len(l) \in Nat
    BY <1>8 DEF Start, ServerInv
  <2>2. registered' = registered /\ tables' = tables /\ list' = l /\ next' = 1
    BY <1>8, <2>1 DEF Start
  <2>3. backend # "nil"
    BY <2>1 DEF ServerInv
  <2> QED
    BY <1>8, <2>1, <2>2, <2>3 DEF Start, ServerInv, TypeOK, NilOnlyIfMisordered
<1> QED
  BY <1>1, <1>2, <1>3, <1>4, <1>5, <1>6, <1>7, <1>8
  DEF ServerNext, MainStep, SignalStep

(***************************************************************************)
(* No table goes away, and a process that stays up keeps its services.     *)
(***************************************************************************)
LEMMA ServerFrame ==
  ASSUME ServerInv, NEW calls, NEW due, ServerNext(calls, due)
  PROVE  /\ tables \subseteq tables'
         /\ (srv \in {"up", "drain"} /\ srv' \in {"up", "drain"}) => registered' = registered
BY DEF ServerNext, MainStep, SignalStep, Try, PingFails, PingAnswers, GiveUp,
       Register, RegisterNothing, RegisterFails, InRegister, Assign, Serve,
       ServeFails, ServeEnds, Drain, ServeDrains, BackendPanics, Crash, Start,
       Interrupt, Cancel, StopServer, Off

-----------------------------------------------------------------------------
(* The clients *)

(***************************************************************************)
(* What a process knows of its call stays true while others change the     *)
(* tables: rows leave them only into "gone".                               *)
(***************************************************************************)
LEMMA Kept ==
  ASSUME NEW q \in Procs, CallInv(q),
         proc'[q] = proc[q], req'[q] = req[q], got'[q] = got[q],
         out'[q] = out[q], q \in cut' <=> q \in cut,
         rows \cup gone \subseteq rows' \cup gone', gone \subseteq gone',
         finished \subseteq finished',
         proc[q] \in InServer => registered' = registered
  PROVE  CallInv(q)'
<1>1. (req[q].op \in Inserts /\ InsertInv(q)) => InsertInv(q)'
  BY DEF InsertInv, Stored
<1>2. (req[q].op \in Reads /\ ReadInv(q)) => ReadInv(q)'
  <2> SUFFICES ASSUME ReadInv(q) PROVE ReadInv(q)'
    OBVIOUS
  <2>1. \A i \in Ids : Found(q, i) => Found(q, i)'
    BY DEF Found, Selects, Stored
  <2>2. \A i \in got[q] : Written(q, i) => Written(q, i)'
    BY DEF Written
  <2> QED
    BY <2>1, <2>2 DEF ReadInv
<1>3. (req[q].op = "List" /\ ListInv(q)) => ListInv(q)'
  BY DEF ListInv
<1> QED
  BY <1>1, <1>2, <1>3 DEF CallInv

(***************************************************************************)
(* So a step of one process keeps CtlInv if it keeps what is about itself. *)
(***************************************************************************)
LEMMA StepOfOne ==
  ASSUME CtlInv, NEW p \in Procs, CallInv(p)', CtlTypeOK', UNCHANGED serverVars,
         rows' \subseteq tables \X Ids,
         rows \cup gone \subseteq rows' \cup gone', gone \subseteq gone',
         finished \subseteq finished',
         proc'[p] \in InServer => srv \in {"up", "drain"},
         \A q \in Procs \ {p} :
           /\ proc'[q] = proc[q] /\ req'[q] = req[q] /\ got'[q] = got[q]
           /\ out'[q] = out[q] /\ (q \in cut' <=> q \in cut)
  PROVE  CtlInv'
<1>1. ServerInv'
  BY DEF CtlInv, serverVars, ServerInv, TypeOK, NilOnlyIfMisordered
<1>2. \A q \in Procs : CallInv(q)'
  <2> SUFFICES ASSUME NEW q \in Procs, q # p PROVE CallInv(q)'
    OBVIOUS
  <2> QED
    BY Kept DEF CtlInv, serverVars
<1>3. Open' # {} => srv' \in {"up", "drain"}
  BY DEF CtlInv, Open, serverVars
<1> QED
  BY <1>1, <1>2, <1>3 DEF CtlInv, serverVars

(***************************************************************************)
(* Every command makes a call of the right form.                           *)
(***************************************************************************)
Sensible(service, op, id) ==
  /\ op \in Inserts => id \in Ids
  /\ op = "Heartbeat" => service = "jobs"

(* A command is a call, with its own service and operation. *)
LEMMA CommandCalls ==
  ASSUME NEW p \in Procs, Command(p)
  PROVE  \E r \in Request : /\ Call(p, r.service, r.op, r.id, r.flag)
                            /\ Sensible(r.service, r.op, r.id)
<1> DEFINE Some == \E service \in Services, id \in Ids \cup {None},
                      flag \in {"none", "large", "finished"},
                      op \in Inserts \cup Updates \cup Reads \cup Streams
                               \cup {"List"} :
                     /\ Call(p, service, op, id, flag)
                     /\ Sensible(service, op, id)
<1>0. {"jobs", "cronjobs", "events", "locks"} \subseteq Services /\ p \in Ids
  BY CtlAssumption DEF Ids
<1>1. Some
  <2> USE <1>0 DEF Sensible, Inserts, Updates, Reads, Streams
  <2>1. CASE createJob(p)
    BY <2>1 DEF createJob
  <2>2. CASE heartbeatJob(p)
    BY <2>2 DEF heartbeatJob
  <2>3. CASE deleteJobs(p)
    BY <2>3 DEF deleteJobs
  <2>4. CASE listJobs(p)
    BY <2>4 DEF listJobs
  <2>5. CASE listenJobs(p)
    BY <2>5 DEF listenJobs
  <2>6. CASE createCronjob(p)
    BY <2>6 DEF createCronjob
  <2>7. CASE deleteCronjobs(p)
    BY <2>7 DEF deleteCronjobs
  <2>8. CASE listCronjobs(p)
    BY <2>8 DEF listCronjobs
  <2>9. CASE publish(p)
    BY <2>9 DEF publish
  <2>10. CASE subscribe(p)
    BY <2>10 DEF subscribe
  <2>11. CASE aquire(p)
    BY <2>11 DEF aquire
  <2>12. CASE hold(p)
    BY <2>12 DEF hold
  <2>13. CASE release(p)
    BY <2>13 DEF release
  <2> QED
    BY <2>1, <2>2, <2>3, <2>4, <2>5, <2>6, <2>7, <2>8, <2>9, <2>10, <2>11,
       <2>12, <2>13 DEF Command
<1>2. PICK service \in Services, id \in Ids \cup {None}, flag \in {"none", "large", "finished"},
           op \in Inserts \cup Updates \cup Reads \cup Streams \cup {"List"} :
        Call(p, service, op, id, flag) /\ Sensible(service, op, id)
  BY <1>1
<1> DEFINE r == [service |-> service, op |-> op, id |-> id, flag |-> flag]
<1>3. r \in Request /\ r.service = service /\ r.op = op /\ r.id = id
      /\ r.flag = flag
  BY DEF Request
<1> HIDE DEF r
<1> QED
  BY <1>2, <1>3

(***************************************************************************)
(* Every step of a handler keeps CtlInv.                                   *)
(***************************************************************************)
LEMMA HandlerKeeps ==
  ASSUME CtlInv, NEW p \in Procs, Handler(p), UNCHANGED serverVars
  PROVE  CtlInv'
<1> USE DEF At, Goes
<1>0. CtlTypeOK /\ CallInv(p) /\ rows \subseteq tables \X Ids
  BY DEF CtlInv
<1>1. Open # {} => srv \in {"up", "drain"}
  BY DEF CtlInv
<1>2. CASE Insert(p)
  <2>0. /\ req[p] \in Request /\ req[p].id \in Ids
        /\ req[p].op \notin Reads /\ req[p].op # "List"
        /\ req[p].service \in Services /\ req[p].service \in tables
    BY <1>0, <1>2 DEF Insert, CtlInv, CtlTypeOK, CallInv, InsertInv, InServer,
                      ServerInv, Request, Inserts, Reads
  <2>1. CtlTypeOK'
    <3>1. rows' \subseteq Tables /\ large' \subseteq Ids
      BY <1>0, <1>2, <2>0 DEF Insert, CtlTypeOK, Tables
    <3>2. proc' \in [Procs -> {"dial", "run", "handler", "read", "rows",
                              "answered", "stream", "ok", "failed"}]
      BY <1>0, <1>2 DEF Insert, CtlTypeOK
    <3> QED
      BY <1>0, <1>2, <2>0, <3>1, <3>2
      DEF Insert, CtlTypeOK, serverVars, TypeOK
  <2>2. /\ proc'[p] \in {"failed", "answered"} /\ req' = req
        /\ <<req[p].service, req[p].id>> \in rows'
    BY <1>0, <1>2 DEF Insert, CtlTypeOK
  <2>3. CallInv(p)'
    BY <2>0, <2>2 DEF CallInv, InsertInv, Stored, InServer
  <2>4. rows' \subseteq tables \X Ids
    BY <1>0, <1>2, <2>0 DEF Insert
  <2> QED
    BY <1>0, <1>2, <2>1, <2>2, <2>3, <2>4, StepOfOne
    DEF Insert, CtlTypeOK, InServer
<1>3. CASE UpdateLocks(p)
  <2>1. CtlTypeOK'
    BY <1>0, <1>3 DEF UpdateLocks, CtlTypeOK, serverVars, TypeOK
  <2>2. CallInv(p)'
    BY <1>0, <1>3 DEF UpdateLocks, CtlTypeOK, CallInv, InsertInv, ReadInv,
                      ListInv, InServer, serverVars, Inserts, Reads, Updates
  <2> QED
    BY <1>0, <1>1, <1>3, <2>1, <2>2, StepOfOne
    DEF UpdateLocks, CtlTypeOK, Open, InServer
<1>4. CASE Get(p)
  <2>1. PICK i \in InTable(req[p].service) :
          Selects(p, i) /\ got' = [got EXCEPT ![p] = {i}]
    BY <1>4 DEF Get
  <2>2. /\ i \in Ids /\ <<req[p].service, i>> \in rows
        /\ proc[p] = "handler" /\ req[p].op \in Reads
        /\ proc' = [proc EXCEPT ![p] = "read"]
        /\ UNCHANGED <<rows, gone, finished, large, req, out, cut>>
    BY <1>4, <2>1 DEF Get, InTable
  <2>3. CtlTypeOK'
    BY <1>0, <2>1, <2>2 DEF CtlTypeOK, serverVars, TypeOK
  <2>4. Found(p, i)'
    BY <1>0, <2>1, <2>2 DEF CtlTypeOK, Found, Selects, Stored
  <2>5. CallInv(p)'
    BY <1>0, <2>2, <2>4
    DEF CtlTypeOK, CallInv, ReadInv, InServer, Inserts, Reads, serverVars
  <2> QED
    BY <1>0, <1>1, <2>1, <2>2, <2>3, <2>5, StepOfOne
    DEF CtlTypeOK, Open, InServer
<1>5. CASE Commit(p)
  <2> DEFINE mine == {req[p].service} \X got[p]
  <2>1. PICK i \in Ids : Found(p, i)
    BY <1>0, <1>5 DEF Commit, CallInv, ReadInv, Inserts, Reads
  <2>2. got[p] = {i} /\ mine = {<<req[p].service, i>>} /\ mine \subseteq Tables
    BY <1>0, <2>1 DEF Found, CtlTypeOK, Tables, Request
  <2>3. /\ proc[p] = "read" /\ proc' = [proc EXCEPT ![p] = "answered"]
        /\ UNCHANGED <<large, req, got, out, cut>>
        /\ rows' \subseteq rows /\ rows \cup gone \subseteq rows' \cup gone'
        /\ gone \subseteq gone' /\ gone' \subseteq gone \cup mine
        /\ finished \subseteq finished' /\ finished' \subseteq finished \cup {i}
    BY <1>5, <2>2 DEF Commit
  <2>4. req[p].op \in Reads /\ req[p].op \notin Inserts /\ req[p].op # "List"
    BY <1>5 DEF Commit, Reads, Inserts
  <2>5. CtlTypeOK'
    BY <1>0, <2>2, <2>3 DEF CtlTypeOK, serverVars, TypeOK
  <2>6. Found(p, i)'
    BY <2>1, <2>3 DEF Found, Selects, Stored
  <2>7. Written(p, i)'
    BY <2>1, <2>2, <1>5 DEF Commit, Written, Found, Stored
  <2>8. ReadInv(p)'
    BY <1>0, <2>2, <2>3, <2>4, <2>6, <2>7 DEF CtlTypeOK, CallInv, ReadInv
  <2>9. CallInv(p)'
    BY <1>0, <2>3, <2>4, <2>8 DEF CtlTypeOK, CallInv, InServer
  <2> HIDE DEF mine
  <2> QED
    BY <1>0, <1>1, <2>3, <2>5, <2>9, StepOfOne
    DEF CtlTypeOK, Open, InServer
<1>6. CASE HandlerFails(p)
  <2>1. CtlTypeOK'
    BY <1>0, <1>6 DEF HandlerFails, CtlTypeOK, serverVars, TypeOK
  <2>2. CallInv(p)'
    BY <1>0, <1>6 DEF HandlerFails, CtlTypeOK, CallInv, InsertInv, ReadInv,
                      ListInv, InServer, serverVars
  <2> QED
    BY <1>0, <1>1, <1>6, <2>1, <2>2, StepOfOne
    DEF HandlerFails, CtlTypeOK, Open, InServer
<1>7. CASE Query(p)
  <2>1. CtlTypeOK'
    BY <1>0, <1>7 DEF Query, CtlTypeOK, serverVars, TypeOK, InTable
  <2>2. CallInv(p)'
    BY <1>0, <1>7 DEF Query, CtlTypeOK, CallInv, InsertInv, ReadInv,
                      ListInv, InServer, serverVars, Inserts, Reads, InTable
  <2> QED
    BY <1>0, <1>1, <1>7, <2>1, <2>2, StepOfOne
    DEF Query, CtlTypeOK, Open, InServer
<1>8. CASE SendRow(p)
  <2>1. CtlTypeOK'
    BY <1>0, <1>8 DEF SendRow, CtlTypeOK, serverVars, TypeOK
  <2>2. CallInv(p)'
    BY <1>0, <1>8 DEF SendRow, CtlTypeOK, CallInv, InsertInv, ReadInv,
                      ListInv, InServer, serverVars
  <2> QED
    BY <1>0, <1>1, <1>8, <2>1, <2>2, StepOfOne
    DEF SendRow, CtlTypeOK, Open, InServer
<1>9. CASE SendFails(p)
  <2>1. CtlTypeOK'
    BY <1>0, <1>9 DEF SendFails, CtlTypeOK, serverVars, TypeOK
  <2>2. CallInv(p)'
    BY <1>0, <1>9 DEF SendFails, CtlTypeOK, CallInv, InsertInv, ReadInv,
                      ListInv, InServer, serverVars
  <2> QED
    BY <1>0, <1>1, <1>9, <2>1, <2>2, StepOfOne
    DEF SendFails, CtlTypeOK, Open, InServer
<1>10. CASE ListEnds(p)
  <2>1. CtlTypeOK'
    BY <1>0, <1>10 DEF ListEnds, CtlTypeOK, serverVars, TypeOK
  <2>2. /\ proc'[p] = "answered" /\ req' = req /\ proc[p] = "rows"
        /\ req[p].op \notin Inserts \cup Reads
    BY <1>0, <1>10 DEF ListEnds, CtlTypeOK, CallInv, Inserts, Reads
  <2>3. req[p].op = "List" => ListInv(p)'
    BY <1>0, <1>10 DEF ListEnds, CtlTypeOK, CallInv, ListInv
  <2>4. CallInv(p)'
    BY <2>2, <2>3 DEF CallInv, InServer
  <2> QED
    BY <1>0, <1>1, <1>10, <2>1, <2>4, StepOfOne
    DEF ListEnds, CtlTypeOK, Open, InServer
<1>11. CASE QueryBreaks(p)
  <2>1. CtlTypeOK'
    BY <1>0, <1>11 DEF QueryBreaks, CtlTypeOK, serverVars, TypeOK
  <2>2. /\ proc'[p] = "answered" /\ req' = req /\ proc[p] = "rows"
        /\ req[p].op \notin Inserts \cup Reads
    BY <1>0, <1>11 DEF QueryBreaks, CtlTypeOK, CallInv, Inserts, Reads
  <2>3. req[p].op = "List" => ListInv(p)'
    BY <1>0, <1>11 DEF QueryBreaks, CtlTypeOK, CallInv, ListInv
  <2>4. CallInv(p)'
    BY <2>2, <2>3 DEF CallInv, InServer
  <2> QED
    BY <1>0, <1>1, <1>11, <2>1, <2>4, StepOfOne
    DEF QueryBreaks, CtlTypeOK, Open, InServer
<1>12. CASE StreamSends(p)
  <2>1. CtlTypeOK'
    BY <1>0, <1>12 DEF StreamSends, CtlTypeOK, serverVars, TypeOK, InTable
  <2>2. CallInv(p)'
    BY <1>0, <1>12 DEF StreamSends, CtlTypeOK, CallInv, InsertInv, ReadInv,
                      ListInv, InServer, serverVars, InTable
  <2> QED
    BY <1>0, <1>1, <1>12, <2>1, <2>2, StepOfOne
    DEF StreamSends, CtlTypeOK, Open, InServer
<1>13. CASE StreamFails(p)
  <2>1. CtlTypeOK'
    BY <1>0, <1>13 DEF StreamFails, CtlTypeOK, serverVars, TypeOK
  <2>2. CallInv(p)'
    BY <1>0, <1>13 DEF StreamFails, CtlTypeOK, CallInv, InsertInv, ReadInv,
                      ListInv, InServer, serverVars
  <2> QED
    BY <1>0, <1>1, <1>13, <2>1, <2>2, StepOfOne
    DEF StreamFails, CtlTypeOK, Open, InServer
<1> QED
  BY <1>2, <1>3, <1>4, <1>5, <1>6, <1>7, <1>8, <1>9, <1>10, <1>11, <1>12, <1>13
  DEF Handler

(***************************************************************************)
(* Every step of a client and of its handler keeps CtlInv.                 *)
(***************************************************************************)
LEMMA ClientKeeps ==
  ASSUME CtlInv, NEW p \in Procs, ClientStep(p), UNCHANGED serverVars
  PROVE  CtlInv'
<1> USE DEF At, Goes
<1>0. CtlTypeOK /\ CallInv(p) /\ rows \subseteq tables \X Ids
  BY DEF CtlInv
<1>1. CASE StartFails(p)
  <2>1. CtlTypeOK'
    BY <1>0, <1>1 DEF StartFails, CtlTypeOK, serverVars, TypeOK
  <2>2. CallInv(p)'
    BY <1>0, <1>1 DEF StartFails, CtlTypeOK, CallInv, NoRequest, Inserts, Reads,
                      ListInv, InServer
  <2> QED
    BY <1>0, <1>1, <2>1, <2>2, StepOfOne DEF StartFails, CtlTypeOK, InServer
<1>2. CASE Dial(p)
  <2>1. CtlTypeOK'
    BY <1>0, <1>2 DEF Dial, CtlTypeOK, serverVars, TypeOK
  <2>2. CallInv(p)'
    BY <1>0, <1>2 DEF Dial, CtlTypeOK, CallInv, NoRequest, InServer
  <2> QED
    BY <1>0, <1>2, <2>1, <2>2, StepOfOne DEF Dial, CtlTypeOK, InServer
<1>3. CASE Command(p)
  <2>1. PICK r \in Request : /\ Call(p, r.service, r.op, r.id, r.flag)
                             /\ Sensible(r.service, r.op, r.id)
    BY <1>3, CommandCalls
  <2>2. r = [service |-> r.service, op |-> r.op, id |-> r.id, flag |-> r.flag]
    BY DEF Request
  <2>3. /\ proc[p] = "run" /\ srv = "up"
        /\ req' = [req EXCEPT ![p] = r]
        /\ proc' = [proc EXCEPT ![p] =
                      IF r.service \notin registered THEN "failed"
                      ELSE IF r.op \in Streams THEN "stream" ELSE "handler"]
        /\ UNCHANGED <<rows, gone, finished, large, got, out, cut>>
    BY <2>1, <2>2 DEF Call, Serving
  <2>4. CtlTypeOK'
    BY <1>0, <2>3 DEF CtlTypeOK, serverVars, TypeOK
  <2>5. CallInv(p)'
    BY <1>0, <2>1, <2>3
    DEF CtlTypeOK, CallInv, InsertInv, ReadInv, ListInv, InServer, Sensible,
        Inserts, Reads, Streams, serverVars
  <2> QED
    BY <1>0, <2>3, <2>4, <2>5, StepOfOne DEF CtlTypeOK
<1>4. CASE Handler(p)
  BY <1>4, HandlerKeeps
<1>5. CASE PrintAnswer(p)
  <2>1. CtlTypeOK'
    BY <1>0, <1>5 DEF PrintAnswer, CtlTypeOK, serverVars, TypeOK
  <2>2. CallInv(p)'
    BY <1>0, <1>5 DEF PrintAnswer, CtlTypeOK, CallInv, InsertInv, ReadInv,
                      ListInv, InServer, Stored, Selects, Found, Written
  <2> QED
    BY <1>0, <1>5, <2>1, <2>2, StepOfOne DEF PrintAnswer, CtlTypeOK, InServer
<1>6. CASE AnswerLost(p)
  <2>1. CtlTypeOK'
    BY <1>0, <1>6 DEF AnswerLost, CtlTypeOK, serverVars, TypeOK
  <2>2. CallInv(p)'
    BY <1>0, <1>6 DEF AnswerLost, CtlTypeOK, CallInv, InsertInv, ReadInv,
                      ListInv, InServer, Inserts, Reads
  <2> QED
    BY <1>0, <1>6, <2>1, <2>2, StepOfOne DEF AnswerLost, CtlTypeOK, InServer
<1> QED
  BY <1>1, <1>2, <1>3, <1>4, <1>5, <1>6 DEF ClientStep

(***************************************************************************)
(* Making the job of a cronjob needs the table of jobs, which the          *)
(* jobsServer of the backend has created.                                  *)
(***************************************************************************)
LEMMA ScheduleKeeps ==
  ASSUME CtlInv, Schedule, UNCHANGED serverVars
  PROVE  CtlInv'
<1>1. PICK i \in Ids : rows' = rows \cup {<<"jobs", i>>}
  BY DEF Schedule, InTable
<1>2. "jobs" \in tables /\ "jobs" \in Services
  BY DEF Schedule, CtlInv, ServerInv, TypeOK
<1>3. ServerInv' /\ CtlTypeOK' /\ rows' \subseteq tables' \X Ids
  BY <1>1, <1>2
  DEF Schedule, CtlInv, serverVars, ServerInv, TypeOK, NilOnlyIfMisordered,
      CtlTypeOK, Tables
<1>4. \A q \in Procs : CallInv(q)'
  BY <1>1, Kept DEF Schedule, CtlInv, serverVars
<1> QED
  BY <1>3, <1>4 DEF Schedule, CtlInv, Open, serverVars

(***************************************************************************)
(* A server that ends or is stopped fails the calls that it has open.      *)
(***************************************************************************)
LEMMA ServerStepKeeps ==
  ASSUME CtlInv, ServerStep
  PROVE  CtlInv'
<1>1. ServerInv' /\ tables \subseteq tables'
      /\ ((srv \in {"up", "drain"} /\ srv' \in {"up", "drain"}) => registered' = registered)
  BY ServerKeeps, ServerFrame DEF CtlInv, ServerStep, Disconnects
<1>2. CtlTypeOK'
  BY <1>1 DEF CtlInv, ServerStep, Disconnects, ServerInv, CtlTypeOK, Open
<1>3. ASSUME NEW q \in Procs
      PROVE  CallInv(q)'
  <2>1. CASE q \in Open /\ ~Accepts'
    <3>1. /\ proc'[q] = "failed" /\ req' = req /\ CallInv(q)
          /\ proc[q] \notin {"dial", "run"}
      BY <2>1 DEF ServerStep, Disconnects, CtlInv, Open, InServer
    <3> QED
      BY <3>1 DEF CallInv, InsertInv, ReadInv, ListInv, InServer
  <2>2. CASE q \notin Open \/ Accepts'
    <3>1. proc'[q] = proc[q] /\ CallInv(q)
      BY <2>2 DEF ServerStep, Disconnects, CtlInv
    <3>2. proc[q] \in InServer => registered' = registered
      BY <1>1, <2>2 DEF Accepts, CtlInv, Open
    <3> QED
      BY <3>1, <3>2, Kept DEF ServerStep, Disconnects
  <2> QED
    BY <2>1, <2>2
<1>4. Open' # {} => srv' \in {"up", "drain"}
  BY DEF ServerStep, Disconnects, Open, Accepts, InServer
<1> QED
  BY <1>1, <1>2, <1>3, <1>4 DEF CtlInv, ServerStep, Disconnects

-----------------------------------------------------------------------------
(* The theorems *)

(* The invariant holds at the start, ... *)
LEMMA CtlStarts == CtlInit => CtlInv
<1> SUFFICES ASSUME CtlInit PROVE CtlInv
  OBVIOUS
<1>1. ServerInv
  BY ServerStarts DEF CtlInit
<1>2. CtlTypeOK
  <2>1. NoRequest \in Request
    BY CtlAssumption DEF NoRequest, Request
  <2>2. rows \subseteq Tables
    BY <1>1 DEF CtlInit, ServerInv, TypeOK, Tables, Ids
  <2> QED
    BY <1>1, <2>1, <2>2 DEF CtlInit, CtlTypeOK, ServerInv
<1>3. \A p \in Procs : CallInv(p) /\ p \notin Open
  BY DEF CtlInit, CallInv, Open, InServer
<1> QED
  BY <1>1, <1>2, <1>3 DEF CtlInit, CtlInv, Open, Ids

(* ... and every step keeps it. *)
LEMMA CtlKeeps == CtlInv /\ [CtlNext]_allVars => CtlInv'
<1> SUFFICES ASSUME CtlInv, [CtlNext]_allVars PROVE CtlInv'
  OBVIOUS
<1>1. CASE ServerStep
  BY <1>1, ServerStepKeeps
<1>2. ASSUME NEW p \in Procs, ClientStep(p), UNCHANGED serverVars
      PROVE  CtlInv'
  BY <1>2, ClientKeeps
<1>3. CASE Schedule /\ UNCHANGED serverVars
  BY <1>3, ScheduleKeeps
<1>4. CASE UNCHANGED allVars
  <2>1. ServerInv' /\ CtlTypeOK'
    BY <1>4 DEF allVars, ctlVars, serverVars, CtlInv, ServerInv, TypeOK,
                CtlTypeOK, NilOnlyIfMisordered
  <2>2. \A q \in Procs : CallInv(q)'
    BY <1>4, Kept DEF allVars, ctlVars, serverVars, CtlInv
  <2> QED
    BY <1>4, <2>1, <2>2 DEF allVars, ctlVars, serverVars, CtlInv, Open
<1> QED
  BY <1>1, <1>2, <1>3, <1>4 DEF CtlNext

(***************************************************************************)
(* The invariant of the server process and its clients holds for every set *)
(* of component lists, clients and commands.                               *)
(***************************************************************************)
THEOREM CtlInductive == CtlSpec => []CtlInv
BY CtlStarts, CtlKeeps, PTL DEF CtlSpec

(***************************************************************************)
(* The variables of the server and its clients keep their types.           *)
(***************************************************************************)
THEOREM CtlTypeCorrect == CtlSpec => []CtlTypeOK
<1>1. CtlInv => CtlTypeOK
  BY DEF CtlInv
<1> QED
  BY <1>1, CtlInductive, PTL

(***************************************************************************)
(* Whatever the list of components, only one that has cronjobs before jobs,*)
(* or no jobs, makes the backend call a nil jobsServer.                    *)
(***************************************************************************)
THEOREM NilNeedsMisorder == CtlSpec => []NilOnlyIfMisordered
<1>1. CtlInv => NilOnlyIfMisordered
  BY DEF CtlInv, ServerInv
<1> QED
  BY <1>1, CtlInductive, PTL

(***************************************************************************)
(* No handler runs and no row is stored without its table, through any     *)
(* number of restarts with any lists.                                      *)
(***************************************************************************)
THEOREM TablesComeFirst == CtlSpec => []NoTableMissing
<1>1. CtlInv => NoTableMissing
  BY DEF CtlInv, ServerInv, NoTableMissing, Open, CallInv
<1> QED
  BY <1>1, CtlInductive, PTL

(***************************************************************************)
(* What a command says with exit code 0 is so, for every number of clients.*)
(***************************************************************************)
THEOREM ExitZero == CtlSpec => []ExitZeroIsTrue
<1>1. CtlInv => ExitZeroIsTrue
  <2> SUFFICES ASSUME CtlInv, NEW p \in Procs, proc[p] = "ok"
               PROVE  LET r == req[p] IN
                        /\ r.op \in Inserts =>
                             <<r.service, r.id>> \in rows \cup gone
                        /\ r.op = "Delete" =>
                             /\ {r.service} \X got[p] \subseteq gone
                             /\ got[p] # {}
                             /\ r.id # None => got[p] = {r.id}
                        /\ (r.op = "Heartbeat" /\ r.flag = "finished") =>
                             r.id \in finished \/ <<r.service, r.id>> \in gone
    BY DEF ExitZeroIsTrue, At
  <2>1. /\ req[p].op \in Inserts => InsertInv(p)
        /\ req[p].op \in Reads => ReadInv(p)
    BY DEF CtlInv, CallInv
  <2>2. req[p].op \in Inserts => <<req[p].service, req[p].id>> \in rows \cup gone
    BY <2>1 DEF InsertInv, Stored
  <2>3. ASSUME req[p].op \in Reads
        PROVE  \E i \in Ids : got[p] = {i} /\ Selects(p, i) /\ Written(p, i)
    BY <2>1, <2>3 DEF ReadInv, Found
  <2>4. req[p].op = "Delete" => /\ {req[p].service} \X got[p] \subseteq gone
                                /\ got[p] # {}
                                /\ req[p].id # None => got[p] = {req[p].id}
    <3> SUFFICES ASSUME req[p].op = "Delete"
                 PROVE  /\ {req[p].service} \X got[p] \subseteq gone
                        /\ got[p] # {}
                        /\ req[p].id # None => got[p] = {req[p].id}
      OBVIOUS
    <3>1. PICK i \in Ids : got[p] = {i} /\ Selects(p, i) /\ Written(p, i)
      BY <2>3 DEF Reads
    <3>2. <<req[p].service, i>> \in gone
      BY <3>1 DEF Written
    <3> QED
      BY <3>1, <3>2 DEF Selects
  <2>5. (req[p].op = "Heartbeat" /\ req[p].flag = "finished") =>
           req[p].id \in finished \/ <<req[p].service, req[p].id>> \in gone
    BY <2>1, <2>3 DEF Reads, ReadInv, Selects, Written
  <2> QED
    BY <2>2, <2>4, <2>5
<1> QED
  BY <1>1, CtlInductive, PTL

(***************************************************************************)
(* A list that ends well, and whose query did, has printed all it found.   *)
(***************************************************************************)
THEOREM ListsInFull == CtlSpec => []ListedInFull
<1>1. CtlInv => ListedInFull
  BY DEF CtlInv, CallInv, ListInv, ListedInFull, At
<1> QED
  BY <1>1, CtlInductive, PTL
=============================================================================
