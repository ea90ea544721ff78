------------------------------- MODULE Worker -------------------------------
(***************************************************************************)
(* The worker library, pkg/worker/worker.go, on top of what the jobs       *)
(* service promises (JobLease, which Jobs implements).  A worker opens a   *)
(* stream, takes one job from it, runs the callback in a goroutine, turns  *)
(* every state that the callback sends into a Heartbeat, reports the job   *)
(* finished if the callback returned nil, and starts over.                 *)
(***************************************************************************)
EXTENDS JobLease

CONSTANTS
  Workers,  \* worker processes, all of one queue
  NoJob     \* no job

(* Jobs are numbered by their created_at. *)
ASSUME WorkerAssumption ==
  /\ Jobs \subseteq Int /\ NoJob \notin Jobs
  /\ Deadline \in Nat /\ Stall \in 0 .. Deadline

VARIABLES
  born,    \* jobs that were created
  open,    \* workers whose stream the server serves
  inbox,   \* inbox[w]: jobs sent on the stream that w reads, not yet received
  at,      \* where the loop of Work is
  job,     \* the job of the iteration
  cb,      \* its callback
  call,    \* call[w]: the Heartbeat of w that the server works on
  (* for the properties *)
  quiet,   \* time since the job was taken, or since its last renewal; it
           \* stays at TooLong once it has been there
  done     \* jobs that a callback returned nil for

jobs     == <<phase, idle, held, born>>
stream   == <<open, inbox>>
loop     == <<at, job, cb, quiet, done>>
workVars == <<phase, idle, held, born, open, inbox,
              at, job, cb, call, quiet, done>>

(* Between two renewals that far apart a job is safe from other workers. *)
Punctual == 0 .. Deadline - Stall
TooLong  == Deadline - Stall + 1

Quieter(q) == IF q < TooLong THEN q + 1 ELSE q
Renewed(q) == IF q < TooLong THEN 0 ELSE q

Beat(j, fin) == [job |-> j, fin |-> fin]
NoCall == Beat(NoJob, FALSE)

WorkTypeOK ==
  /\ phase \in [Jobs -> Phase]
  /\ idle \in [Jobs -> Age \cup {Null}]
  /\ held \in [Jobs -> Age \cup {Null}]
  /\ born \subseteq Jobs
  /\ open \subseteq Workers
  /\ inbox \in [Workers -> [Jobs -> Age \cup {Null}]]
  /\ at \in [Workers -> {"idle", "recv", "range", "beat", "final"}]
  /\ job \in [Workers -> Jobs \cup {NoJob}]
  /\ cb \in [Workers -> {"none", "run", "ok", "err"}]
  /\ \A w \in Workers : job[w] = NoJob <=> cb[w] = "none"
  /\ call \in [Workers -> [job: Jobs \cup {NoJob}, fin: BOOLEAN]]
  /\ quiet \in [Workers -> 0 .. TooLong]
  /\ done \subseteq Jobs

NoCopies == [j \in Jobs |-> Null]

WorkInit ==
  /\ Init
  /\ born = {} /\ open = {} /\ done = {}
  /\ inbox = [w \in Workers |-> NoCopies]
  /\ at = [w \in Workers |-> "idle"]
  /\ job = [w \in Workers |-> NoJob]
  /\ cb = [w \in Workers |-> "none"]
  /\ call = [w \in Workers |-> NoCall]
  /\ quiet = [w \in Workers |-> 0]

-----------------------------------------------------------------------------
(* Helpers *)

Present(j) == phase[j] # "absent"

Goto(w, p) == at' = [at EXCEPT ![w] = p]

(* The iteration is over: its context ends and with it the stream, what    *)
(* the stream had still buffered is lost, and a callback that has not      *)
(* returned is left behind: it blocks for good when it sends a state.      *)
Leave(w) ==
  /\ Goto(w, "idle")
  /\ inbox' = [inbox EXCEPT ![w] = NoCopies]
  /\ job' = [job EXCEPT ![w] = NoJob]
  /\ cb' = [cb EXCEPT ![w] = "none"]
  /\ quiet' = [quiet EXCEPT ![w] = 0]
  /\ UNCHANGED <<open, done>>

(* Heartbeat starts with the Get of the job.  A Heartbeat that the worker  *)
(* gave up is over before its next one.                                    *)
StartHeartbeat(w, fin, p) ==
  /\ call[w] = NoCall
  /\ Present(job[w])
  /\ call' = [call EXCEPT ![w] = Beat(job[w], fin)]
  /\ Goto(w, p)
  /\ UNCHANGED <<jobs, stream, job, cb, quiet, done>>

-----------------------------------------------------------------------------
(* The stream *)

(* Work calls Listen.  If that fails it tries again at once. *)
Open(w) ==
  /\ at[w] = "idle" /\ w \notin open
  /\ open' = open \cup {w}
  /\ Goto(w, "recv")
  /\ UNCHANGED <<jobs, inbox, job, cb, call, quiet, done>>

(* Mutant of Give: any job that is not finished is given out. *)
GiveUnfinished(w, j) ==
  /\ w \in open
  /\ phase[j] \in {"queued", "running"}
  /\ phase' = [phase EXCEPT ![j] = "running"]
  /\ idle' = [idle EXCEPT ![j] = 0]
  /\ held' = [held EXCEPT ![j] = 0]
  /\ inbox' = IF at[w] = "idle" THEN inbox ELSE [inbox EXCEPT ![w][j] = 0]
  /\ UNCHANGED <<born, open, loop, call>>

(* The server gives a job to the stream, even while its worker is busy.    *)
(* What is sent on a stream that its worker has left is lost.              *)
Give(w, j) ==
  /\ w \in open
  /\ Grant(j)
  /\ inbox' = IF at[w] = "idle" THEN inbox ELSE [inbox EXCEPT ![w][j] = held'[j]]
  /\ UNCHANGED <<born, open, loop, call>>

(* The oldest job that is free to take.  A Give may also be of a younger   *)
(* one: the older was not free, or not there, when the server looked.      *)
NextFree == {j \in Jobs : Free(j) /\ \A k \in Jobs : Free(k) => j <= k}

(* The job was given away, but the stream breaks before it is sent. *)
Lose(w, j) ==
  /\ w \in open
  /\ Grant(j)
  /\ open' = open \ {w}
  /\ UNCHANGED <<born, inbox, loop, call>>

(* Mutant of Recv: the callback never starts. *)
RecvWithoutCallback(w) ==
  /\ at[w] = "recv"
  /\ \E j \in Jobs :
       /\ inbox[w][j] # Null
       /\ inbox' = [inbox EXCEPT ![w][j] = Null]
       /\ job' = [job EXCEPT ![w] = j]
  /\ Goto(w, "range")
  /\ UNCHANGED <<jobs, open, cb, call, quiet, done>>

(* Recv returns a job, and the callback starts. *)
Recv(w) ==
  /\ at[w] = "recv"
  /\ \E j \in Jobs :
       /\ inbox[w][j] # Null
       /\ inbox' = [inbox EXCEPT ![w][j] = Null]
       /\ job' = [job EXCEPT ![w] = j]
       /\ quiet' = [quiet EXCEPT ![w] = IF inbox[w][j] < TooLong THEN inbox[w][j] ELSE TooLong]
  /\ cb' = [cb EXCEPT ![w] = "run"]
  /\ Goto(w, "range")
  /\ UNCHANGED <<jobs, open, call, done>>

(* The server or the connection breaks the stream, or the server sees that *)
(* the worker closed it.                                                   *)
StreamEnds(w) ==
  /\ w \in open
  /\ open' = open \ {w}
  /\ UNCHANGED <<jobs, inbox, loop, call>>

(* Recv returns the error of a broken stream. *)
RecvFails(w) ==
  /\ at[w] = "recv" /\ w \notin open
  /\ Leave(w)
  /\ UNCHANGED <<jobs, call>>

-----------------------------------------------------------------------------
(* The callback goroutine *)

(* The callback returns nil; the channel is closed. *)
CallbackSucceeds(w) ==
  /\ cb[w] = "run"
  /\ cb' = [cb EXCEPT ![w] = "ok"]
  /\ done' = done \cup {job[w]}
  /\ UNCHANGED <<jobs, stream, at, job, call, quiet>>

(* The callback returns an error; the channel is closed. *)
CallbackFails(w) ==
  /\ cb[w] = "run"
  /\ cb' = [cb EXCEPT ![w] = "err"]
  /\ UNCHANGED <<jobs, stream, at, job, call, quiet, done>>

-----------------------------------------------------------------------------
(* The loop over the states *)

(* The callback sends a state and the loop receives it. *)
TakeState(w) ==
  /\ at[w] = "range" /\ cb[w] = "run"
  /\ StartHeartbeat(w, FALSE, "beat")

(* Mutants of ReportFinished: one does not look at the error of the        *)
(* callback, one leaves Finished out.                                      *)
ReportAnyway(w) ==
  /\ at[w] = "range" /\ cb[w] \in {"ok", "err"}
  /\ StartHeartbeat(w, TRUE, "final")

ReportUnfinished(w) ==
  /\ at[w] = "range" /\ cb[w] = "ok"
  /\ StartHeartbeat(w, FALSE, "final")

(* The channel is closed and the callback returned nil. *)
ReportFinished(w) ==
  /\ at[w] = "range" /\ cb[w] = "ok"
  /\ StartHeartbeat(w, TRUE, "final")

(* The channel is closed and the callback returned an error. *)
ReturnError(w) ==
  /\ at[w] = "range" /\ cb[w] = "err"
  /\ Leave(w)
  /\ UNCHANGED <<jobs, call>>

(* Heartbeat fails because the job was deleted. *)
JobIsGone(w) ==
  /\ at[w] = "range" /\ cb[w] \in {"run", "ok"}
  /\ ~Present(job[w])
  /\ Leave(w)
  /\ UNCHANGED <<jobs, call>>

(* Mutant of Update: it does not write updated_at. *)
UpdateKeepsAge(w) ==
  LET j == call[w].job IN
  /\ call[w] # NoCall
  /\ phase' = IF Present(j) /\ call[w].fin THEN [phase EXCEPT ![j] = "finished"] ELSE phase
  /\ call' = [call EXCEPT ![w] = NoCall]
  /\ UNCHANGED <<idle, held, born>>

(* The UPDATE of Heartbeat, which finds no row if the job was deleted since *)
(* the Get.                                                                *)
Update(w) ==
  LET j == call[w].job IN
  /\ call[w] # NoCall
  /\ IF Present(j)
     THEN /\ Renew(j)
          /\ phase' = IF call[w].fin THEN [phase EXCEPT ![j] = "finished"] ELSE phase
     ELSE UNCHANGED leaseVars
  /\ call' = [call EXCEPT ![w] = NoCall]
  /\ UNCHANGED born

(* The Heartbeat with a state succeeds; the loop goes on. *)
StateReported(w) ==
  /\ at[w] = "beat"
  /\ Update(w)
  /\ Goto(w, "range")
  /\ quiet' = [quiet EXCEPT ![w] = IF Present(job[w]) THEN Renewed(@) ELSE @]
  /\ UNCHANGED <<stream, job, cb, done>>

(* The last Heartbeat succeeds; the iteration is over. *)
FinishReported(w) ==
  /\ at[w] = "final"
  /\ Update(w)
  /\ Leave(w)

(* The answer is lost, or the worker has given up before. *)
AnswerLost(w) ==
  /\ Update(w)
  /\ UNCHANGED <<stream, loop>>

(* Heartbeat fails at the server. *)
UpdateFails(w) ==
  /\ call[w] # NoCall
  /\ call' = [call EXCEPT ![w] = NoCall]
  /\ UNCHANGED <<jobs, stream, loop>>

(* The worker gets an error instead, whatever becomes of the call. *)
HeartbeatFails(w) ==
  /\ at[w] \in {"beat", "final"}
  /\ Leave(w)
  /\ UNCHANGED <<jobs, call>>

(* The worker process dies and is started again. *)
WorkerDies(w) ==
  /\ at[w] # "idle"
  /\ Leave(w)
  /\ UNCHANGED <<jobs, call>>

-----------------------------------------------------------------------------
(* The surroundings *)

Create(j) ==
  /\ j \notin born
  /\ Add(j)
  /\ born' = born \cup {j}
  /\ UNCHANGED <<stream, loop, call>>

Delete(j) ==
  /\ Remove(j)
  /\ UNCHANGED <<born, stream, loop, call>>

WorkTick ==
  /\ Tick
  /\ inbox' = [w \in Workers |-> [j \in Jobs |-> Older(inbox[w][j])]]
  /\ quiet' = [w \in Workers |-> IF job[w] = NoJob THEN 0 ELSE Quieter(quiet[w])]
  /\ UNCHANGED <<born, open, at, job, cb, call, done>>

WorkerStep(w) ==
  \/ \E j \in Jobs : Give(w, j) \/ Lose(w, j)
  \/ Open(w) \/ Recv(w) \/ StreamEnds(w) \/ RecvFails(w)
  \/ CallbackSucceeds(w) \/ CallbackFails(w)
  \/ TakeState(w) \/ ReportFinished(w) \/ ReturnError(w) \/ JobIsGone(w)
  \/ StateReported(w) \/ FinishReported(w) \/ AnswerLost(w) \/ UpdateFails(w)
  \/ HeartbeatFails(w) \/ WorkerDies(w)

WorkNext ==
  \/ \E w \in Workers : WorkerStep(w)
  \/ \E j \in Jobs : Create(j) \/ Delete(j)
  \/ WorkTick

WorkSpec == WorkInit /\ [][WorkNext]_workVars

(* The server gives out the next job (Jobs!OldestIsServed) and sees that a *)
(* stream was closed; calls end one way or the other, workers run, and a   *)
(* callback that does not fail comes to its end.                           *)
Fairness(w) ==
  /\ WF_workVars(Recv(w))
  /\ WF_workVars(\E j \in NextFree : Give(w, j))
  /\ WF_workVars(RecvFails(w)) /\ WF_workVars(at[w] = "idle" /\ StreamEnds(w))
  /\ SF_workVars(CallbackSucceeds(w))
  /\ WF_workVars(ReportFinished(w)) /\ WF_workVars(JobIsGone(w))
  /\ WF_workVars(ReturnError(w))
  /\ WF_workVars(StateReported(w) \/ FinishReported(w) \/ AnswerLost(w) \/ UpdateFails(w))
  /\ WF_workVars(call[w] = NoCall /\ HeartbeatFails(w))

(* Besides, time passes and every worker asks for a job again. *)
WorkFairness ==
  WF_workVars(WorkTick) /\ \A w \in Workers : WF_workVars(Open(w)) /\ Fairness(w)

WorkFairSpec == WorkSpec /\ WorkFairness

-----------------------------------------------------------------------------
(* Correctness *)

(* Two workers run a callback on the same job only if one of them let the  *)
(* job go without a renewal for more than Deadline - Stall.  This is the   *)
(* use of Heartbeat (jobs/server.go:250-308): it holds however often the   *)
(* job changed hands before, and although a worker that lost its job may   *)
(* still renew it, or finish it, for another one.                          *)
PunctualIsAlone ==
  \A v, w \in Workers :
    job[v] = job[w] /\ job[v] # NoJob /\ {quiet[v], quiet[w]} \subseteq Punctual => v = w

(* A job is finished only if some callback returned nil for it             *)
(* (worker.go:57-65), whatever became of answers, streams and processes.   *)
FinishedWasDone == \A j \in Jobs : phase[j] = "finished" => j \in done

(* No step from here on fails: no process, stream or call, no callback and *)
(* no Send.                                                                *)
Smooth ==
  <>[][\A w \in Workers :
         /\ at[w] # "idle" /\ at'[w] = "idle" =>
              (at[w] = "final" /\ call'[w] # call[w]) \/ (job[w] # NoJob /\ ~Present(job[w]))
         /\ at[w] \in {"beat", "final"} /\ call'[w] = NoCall => at'[w] # at[w]
         /\ w \in open \ open' => at[w] = "idle"
         /\ cb'[w] = "err" => cb[w] = "err"]_workVars

(* For a finite set of jobs: once the failures stop, every job is finished *)
(* or deleted in the end, also one that was given to a worker that died,   *)
(* or to a stream that nobody read any more, and also while older jobs     *)
(* come first or come back (jobs/server.go:227-241, worker.go:69).         *)
EveryJobIsDone ==
  Smooth => <>[](\A j \in Jobs : phase[j] \notin {"queued", "running"})

(* The inductive invariant behind the first two. *)

(* The table remembers when a copy was given out, ... *)
CopyCovers == \A w \in Workers, j \in Jobs : inbox[w][j] # Null /\ Present(j) =>
  phase[j] # "queued" /\ idle[j] # Null /\ idle[j] <= inbox[w][j] + Stall

(* ... and the last renewal of a punctual worker. *)
WorkCovers == \A w \in Workers :
  job[w] # NoJob /\ quiet[w] \in Punctual /\ Present(job[w]) =>
    /\ phase[job[w]] # "queued" /\ idle[job[w]] # Null
    /\ idle[job[w]] <= quiet[w] + Stall

(* One fresh copy at most, and none of a job that a punctual worker has. *)
FreshCopyIsAlone == \A v, w \in Workers, j \in Jobs : inbox[w][j] \in Punctual =>
  /\ inbox[v][j] \in Punctual => v = w
  /\ quiet[v] \in Punctual => job[v] # j

(* A job that was not created is unknown. *)
Unborn == \A j \in Jobs \ born :
  ~Present(j) /\ \A w \in Workers : inbox[w][j] = Null /\ job[w] # j

ReportsTrue == \A w \in Workers :
  /\ cb[w] = "ok" => job[w] \in done
  /\ call[w].fin => call[w].job \in done

(* The Heartbeat that a worker waits for is its own. *)
CallIsMine == \A w \in Workers :
  /\ at[w] \notin {"idle", "recv"} <=> job[w] # NoJob
  /\ at[w] \in {"beat", "final"} /\ call[w] # NoCall => call[w].job = job[w]
  /\ call[w] # NoCall <=> call[w].job # NoJob

WorkInv == /\ WorkTypeOK /\ CopyCovers /\ WorkCovers /\ FreshCopyIsAlone /\ Unborn
           /\ ReportsTrue /\ CallIsMine /\ PunctualIsAlone /\ FinishedWasDone

=============================================================================
