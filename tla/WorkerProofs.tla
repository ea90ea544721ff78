---------------------------- MODULE WorkerProofs ----------------------------
(***************************************************************************)
(* Proofs about the worker library on top of the job queue's promise, for  *)
(* any number of workers and jobs, every deadline and every stall.         *)
(***************************************************************************)
EXTENDS Worker, TLAPS

AgeOrNull == Age \cup {Null}

(* Time keeps an age an age, and moves it by at most one. *)
LEMMA OlderAge ==
  ASSUME NEW a \in AgeOrNull
  PROVE  /\ Older(a) \in AgeOrNull
         /\ Older(a) = Null <=> a = Null
         /\ a <= Older(a) /\ Older(a) <= a + 1
         /\ a > Deadline => Older(a) = a
         /\ a # Null /\ a <= Deadline => Older(a) = a + 1
BY WorkerAssumption DEF Older, Age, Null, AgeOrNull

(* Time keeps the silence of a worker within its range. *)
LEMMA QuieterAge ==
  ASSUME NEW q \in 0 .. TooLong
  PROVE  /\ Quieter(q) \in 0 .. TooLong /\ q <= Quieter(q)
         /\ Quieter(q) \in Punctual => q \in Punctual /\ Quieter(q) = q + 1
BY WorkerAssumption DEF Quieter, TooLong, Punctual

(* The invariant holds at the start. *)
LEMMA WorkInitInv == WorkInit => WorkInv
<1> SUFFICES ASSUME WorkInit PROVE WorkInv
  OBVIOUS
<1> USE WorkerAssumption DEF WorkInit, Init
<1>1. WorkTypeOK
  BY DEF WorkTypeOK, NoCopies, NoCall, Beat, Phase, Null, Age, TooLong
<1>2. CopyCovers /\ WorkCovers /\ FreshCopyIsAlone /\ Unborn /\ PunctualIsAlone
  BY DEF CopyCovers, WorkCovers, FreshCopyIsAlone, Unborn, PunctualIsAlone, Present,
         NoCopies, Null, Punctual
<1>3. ReportsTrue /\ CallIsMine /\ FinishedWasDone
  BY DEF ReportsTrue, CallIsMine, FinishedWasDone, NoCall, Beat
<1> QED
  BY <1>1, <1>2, <1>3 DEF WorkInv

-----------------------------------------------------------------------------
(* Types *)

(* Leaving an iteration keeps the types. *)
LEMMA LeaveType ==
  ASSUME WorkTypeOK, NEW w \in Workers, Leave(w)
  PROVE  /\ inbox' \in [Workers -> [Jobs -> Age \cup {Null}]]
         /\ at' \in [Workers -> {"idle", "recv", "range", "beat", "final"}]
         /\ job' \in [Workers -> Jobs \cup {NoJob}]
         /\ cb' \in [Workers -> {"none", "run", "ok", "err"}]
         /\ \A v \in Workers : job'[v] = NoJob <=> cb'[v] = "none"
         /\ quiet' \in [Workers -> 0 .. TooLong]
         /\ open' \subseteq Workers /\ done' \subseteq Jobs
BY WorkerAssumption DEF WorkTypeOK, Leave, Goto, NoCopies, TooLong

(* Starting a call keeps the types. *)
LEMMA StartType ==
  ASSUME WorkTypeOK, NEW w \in Workers, NEW fin \in BOOLEAN, NEW p \in {"beat", "final"},
         StartHeartbeat(w, fin, p)
  PROVE  WorkTypeOK'
BY DEF WorkTypeOK, StartHeartbeat, Goto, Beat, jobs, stream

(* The UPDATE keeps the types of what it writes. *)
LEMMA UpdateType ==
  ASSUME WorkTypeOK, CallIsMine, NEW w \in Workers, Update(w)
  PROVE  /\ phase' \in [Jobs -> Phase]
         /\ idle' \in [Jobs -> Age \cup {Null}]
         /\ held' \in [Jobs -> Age \cup {Null}]
         /\ born' \subseteq Jobs
         /\ call' \in [Workers -> [job: Jobs \cup {NoJob}, fin: BOOLEAN]]
<1>1. call' \in [Workers -> [job: Jobs \cup {NoJob}, fin: BOOLEAN]]
  BY DEF Update, NoCall, Beat, WorkTypeOK
<1>2. CASE Present(call[w].job)
  <2>1. PICK a \in 0 .. Stall : idle' = [idle EXCEPT ![call[w].job] = a]
    BY <1>2 DEF Update, Renew
  <2>2. idle' \in [Jobs -> Age \cup {Null}] /\ held' = held
    <3>1. a \in Age
      BY WorkerAssumption DEF Age
    <3> QED
      BY <1>2, <2>1, <3>1 DEF Update, Renew, WorkTypeOK
  <2>3. phase' \in [Jobs -> Phase]
    BY <1>2 DEF Update, WorkTypeOK, Phase
  <2> QED
    BY <1>1, <2>2, <2>3 DEF Update, WorkTypeOK
<1>3. CASE ~Present(call[w].job)
  BY <1>1, <1>3 DEF Update, WorkTypeOK, leaseVars
<1> QED
  BY <1>2, <1>3

(* Every step of a worker keeps the types. *)
LEMMA StepType ==
  ASSUME WorkTypeOK, CallIsMine, NEW w \in Workers, WorkerStep(w)
  PROVE  WorkTypeOK'
<1> USE WorkerAssumption DEF jobs, stream, loop
<1>1. ASSUME NEW j \in Jobs, Give(w, j) \/ Lose(w, j) PROVE WorkTypeOK'
  <2> PICK a \in Age : idle' = [idle EXCEPT ![j] = a] /\ held' = [held EXCEPT ![j] = a]
    BY <1>1 DEF Give, Lose, Grant
  <2>1. /\ phase' \in [Jobs -> Phase]
        /\ idle' \in [Jobs -> Age \cup {Null}]
        /\ held' \in [Jobs -> Age \cup {Null}]
        /\ held'[j] = a
    BY <1>1 DEF Give, Lose, Grant, WorkTypeOK, Phase
  <2>2. inbox' = inbox \/ inbox' = [inbox EXCEPT ![w][j] = a]
    BY <1>1, <2>1 DEF Give, Lose
  <2>3. inbox' \in [Workers -> [Jobs -> Age \cup {Null}]]
    <3>1. [inbox[w] EXCEPT ![j] = a] \in [Jobs -> Age \cup {Null}]
      BY DEF WorkTypeOK
    <3> QED
      BY <2>2, <3>1 DEF WorkTypeOK
  <2> QED
    BY <1>1, <2>1, <2>3 DEF Give, Lose, WorkTypeOK
<1>2. CASE Open(w) \/ StreamEnds(w)
  BY <1>2 DEF Open, StreamEnds, Goto, WorkTypeOK
<1>3. CASE Recv(w)
  <2>1. PICK j \in Jobs :
          /\ inbox[w][j] # Null
          /\ inbox' = [inbox EXCEPT ![w][j] = Null]
          /\ job' = [job EXCEPT ![w] = j]
          /\ quiet' = [quiet EXCEPT ![w] = IF inbox[w][j] < TooLong THEN inbox[w][j] ELSE TooLong]
    BY <1>3 DEF Recv
  <2>2. inbox' \in [Workers -> [Jobs -> Age \cup {Null}]]
    BY <2>1 DEF WorkTypeOK
  <2>3. inbox[w][j] \in Age
    BY <2>1 DEF WorkTypeOK
  <2>4. quiet' \in [Workers -> 0 .. TooLong]
    BY <2>1, <2>3 DEF WorkTypeOK, TooLong, Age
  <2>5. \A v \in Workers : job'[v] = NoJob <=> cb'[v] = "none"
    BY <1>3, <2>1 DEF Recv, WorkTypeOK
  <2> QED
    BY <1>3, <2>1, <2>2, <2>4, <2>5 DEF Recv, Goto, WorkTypeOK
<1>4. CASE \/ RecvFails(w) \/ ReturnError(w) \/ JobIsGone(w)
           \/ HeartbeatFails(w) \/ WorkerDies(w)
  BY <1>4, LeaveType DEF RecvFails, ReturnError, JobIsGone, HeartbeatFails, WorkerDies, WorkTypeOK
<1>5. CASE CallbackSucceeds(w) \/ CallbackFails(w)
  BY <1>5 DEF CallbackSucceeds, CallbackFails, WorkTypeOK
<1>6. CASE TakeState(w) \/ ReportFinished(w)
  BY <1>6, StartType DEF TakeState, ReportFinished
<1>7. CASE StateReported(w)
  BY <1>7, UpdateType DEF StateReported, Goto, WorkTypeOK, Renewed, TooLong
<1>8. CASE FinishReported(w)
  BY <1>8, UpdateType, LeaveType DEF FinishReported, WorkTypeOK
<1>9. CASE AnswerLost(w)
  BY <1>9, UpdateType DEF AnswerLost, WorkTypeOK
<1>10. CASE UpdateFails(w)
  BY <1>10 DEF UpdateFails, NoCall, Beat, WorkTypeOK
<1> QED
  BY <1>1, <1>2, <1>3, <1>4, <1>5, <1>6, <1>7, <1>8, <1>9, <1>10 DEF WorkerStep

(* Creating and deleting jobs and the passing of time keep the types. *)
LEMMA SurroundingsType ==
  ASSUME WorkTypeOK, (\E j \in Jobs : Create(j) \/ Delete(j)) \/ WorkTick
  PROVE  WorkTypeOK'
<1>1. ASSUME NEW j \in Jobs, Create(j) \/ Delete(j) PROVE WorkTypeOK'
  <2>1. phase' \in [Jobs -> Phase] /\ born' \subseteq Jobs
    <3>1. CASE Create(j)
      BY <3>1 DEF Create, Add, WorkTypeOK, Phase
    <3>2. CASE Delete(j)
      BY <3>2 DEF Delete, Remove, WorkTypeOK, Phase
    <3> QED
      BY <1>1, <3>1, <3>2
  <2>2. idle' \in [Jobs -> Age \cup {Null}] /\ held' \in [Jobs -> Age \cup {Null}]
    BY <1>1 DEF Create, Delete, Add, Remove, WorkTypeOK
  <2> QED
    BY <1>1, <2>1, <2>2 DEF Create, Delete, stream, loop, WorkTypeOK
<1>2. CASE WorkTick
  <2>1. idle' \in [Jobs -> Age \cup {Null}] /\ held' \in [Jobs -> Age \cup {Null}]
    BY <1>2, OlderAge DEF WorkTick, Tick, WorkTypeOK, AgeOrNull
  <2>2. \A v \in Workers, j \in Jobs : Older(inbox[v][j]) \in Age \cup {Null}
    <3> SUFFICES ASSUME NEW v \in Workers, NEW j \in Jobs
                 PROVE  Older(inbox[v][j]) \in AgeOrNull
      BY DEF AgeOrNull
    <3>1. inbox[v] \in [Jobs -> AgeOrNull]
      BY DEF WorkTypeOK, AgeOrNull
    <3>2. inbox[v][j] \in AgeOrNull
      BY <3>1
    <3> QED
      BY <3>2, OlderAge
  <2>3. inbox' \in [Workers -> [Jobs -> Age \cup {Null}]]
    BY <1>2, <2>2 DEF WorkTick
  <2>4. \A v \in Workers : Quieter(quiet[v]) \in 0 .. TooLong
    BY QuieterAge DEF WorkTypeOK
  <2>5. 0 \in 0 .. TooLong
    BY WorkerAssumption DEF TooLong
  <2>6. quiet' \in [Workers -> 0 .. TooLong]
    BY <1>2, <2>4, <2>5 DEF WorkTick
  <2> QED
    BY <1>2, <2>1, <2>3, <2>6 DEF WorkTick, Tick, WorkTypeOK
<1> QED
  BY <1>1, <1>2

-----------------------------------------------------------------------------
(* Steps that give out no job, renew none and let no time pass *)

(* The worker either waits for its own call or has none. *)
LEMMA StepCall ==
  ASSUME WorkTypeOK, CallIsMine, NEW w \in Workers, WorkerStep(w)
  PROVE  CallIsMine'
<1> USE DEF CallIsMine, WorkTypeOK, jobs, stream, loop
<1>0. NoCall.job = NoJob
  BY DEF NoCall, Beat
<1>1. ASSUME NEW j \in Jobs, Give(w, j) \/ Lose(w, j) PROVE CallIsMine'
  BY <1>1 DEF Give, Lose
<1>2. CASE Open(w) \/ StreamEnds(w) \/ CallbackSucceeds(w) \/ CallbackFails(w)
  BY <1>2 DEF Open, StreamEnds, CallbackSucceeds, CallbackFails, Goto
<1>3. CASE Recv(w)
  BY <1>3, WorkerAssumption DEF Recv, Goto
<1>4. CASE \/ RecvFails(w) \/ ReturnError(w) \/ JobIsGone(w)
           \/ HeartbeatFails(w) \/ WorkerDies(w)
  <2>1. /\ call' = call /\ at' = [at EXCEPT ![w] = "idle"]
        /\ job' = [job EXCEPT ![w] = NoJob]
    BY <1>4 DEF RecvFails, ReturnError, JobIsGone, HeartbeatFails, WorkerDies, Leave, Goto
  <2>2. /\ at'[w] = "idle" /\ job'[w] = NoJob
        /\ \A v \in Workers \ {w} : at'[v] = at[v] /\ job'[v] = job[v]
    BY <2>1
  <2> QED
    BY <2>1, <2>2
<1>5. CASE TakeState(w) \/ ReportFinished(w)
  <2>1. PICK fin \in BOOLEAN, p \in {"beat", "final"} : StartHeartbeat(w, fin, p)
    BY <1>5 DEF TakeState, ReportFinished
  <2>2. job[w] # NoJob /\ job[w] \in Jobs
    BY <1>5, WorkerAssumption DEF TakeState, ReportFinished
  <2>3. call'[w].job = job[w] /\ \A v \in Workers \ {w} : call'[v] = call[v]
    BY <2>1 DEF StartHeartbeat, Beat
  <2>4. at' = [at EXCEPT ![w] = p] /\ job' = job
    BY <2>1 DEF StartHeartbeat, Goto
  <2> QED
    BY <1>0, <2>2, <2>3, <2>4
<1>6. CASE StateReported(w) \/ FinishReported(w) \/ AnswerLost(w) \/ UpdateFails(w)
  <2>1. call' = [call EXCEPT ![w] = NoCall]
    BY <1>6 DEF StateReported, FinishReported, AnswerLost, UpdateFails, Update
  <2>2. call'[w] = NoCall /\ \A v \in Workers \ {w} : call'[v] = call[v]
    BY <2>1
  <2>3. \/ UNCHANGED <<at, job>>
        \/ at[w] = "beat" /\ at' = [at EXCEPT ![w] = "range"] /\ job' = job
        \/ at' = [at EXCEPT ![w] = "idle"] /\ job' = [job EXCEPT ![w] = NoJob]
    BY <1>6 DEF StateReported, FinishReported, AnswerLost, UpdateFails, Leave, Goto
  <2> QED
    BY <1>0, <2>2, <2>3
<1> QED
  BY <1>1, <1>2, <1>3, <1>4, <1>5, <1>6 DEF WorkerStep

(* What is reported finished was done. *)
LEMMA StepReports ==
  ASSUME WorkTypeOK, CallIsMine, ReportsTrue, NEW w \in Workers, WorkerStep(w)
  PROVE  ReportsTrue' /\ done \subseteq done'
<1> USE DEF ReportsTrue, WorkTypeOK, jobs, stream, loop
<1>1. ASSUME NEW j \in Jobs, Give(w, j) \/ Lose(w, j) PROVE ReportsTrue' /\ done' = done
  BY <1>1 DEF Give, Lose
<1>2. CASE Open(w) \/ StreamEnds(w) \/ CallbackSucceeds(w) \/ CallbackFails(w)
  BY <1>2 DEF Open, StreamEnds, CallbackSucceeds, CallbackFails
<1>3. CASE Recv(w)
  BY <1>3 DEF Recv
<1>4. CASE \/ RecvFails(w) \/ ReturnError(w) \/ JobIsGone(w)
           \/ HeartbeatFails(w) \/ WorkerDies(w)
  BY <1>4 DEF RecvFails, ReturnError, JobIsGone, HeartbeatFails, WorkerDies, Leave
<1>5. CASE TakeState(w) \/ ReportFinished(w)
  BY <1>5 DEF TakeState, ReportFinished, StartHeartbeat, Beat
<1>6. CASE StateReported(w) \/ FinishReported(w) \/ AnswerLost(w) \/ UpdateFails(w)
  BY <1>6 DEF StateReported, FinishReported, AnswerLost, UpdateFails, Update, Leave,
     NoCall, Beat
<1> QED
  BY <1>1, <1>2, <1>3, <1>4, <1>5, <1>6 DEF WorkerStep

(* A step that leaves the table alone and at most drops copies and jobs of *)
(* workers keeps the rest of the invariant.                                *)
LEMMA QuietStep ==
  ASSUME WorkInv, WorkTypeOK', ReportsTrue', CallIsMine', UNCHANGED jobs,
         done \subseteq done',
         \A v \in Workers, j \in Jobs : inbox'[v][j] \in {inbox[v][j], Null},
         \A v \in Workers : \/ job'[v] = job[v] /\ quiet'[v] = quiet[v]
                            \/ job'[v] = NoJob
  PROVE  WorkInv'
<1> USE DEF WorkInv, jobs
<1>1. CopyCovers' /\ WorkCovers'
  BY DEF CopyCovers, WorkCovers, Present
<1>2. FreshCopyIsAlone'
  <2>1. Null \notin Punctual
    BY WorkerAssumption DEF Null, Punctual
  <2> QED
    BY <2>1, WorkerAssumption DEF FreshCopyIsAlone
<1>3. Unborn'
  <2> SUFFICES ASSUME NEW j \in Jobs \ born
               PROVE  ~Present(j) /\ \A v \in Workers : inbox'[v][j] = Null /\ job'[v] # j
    BY DEF Unborn, Present
  <2>1. ~Present(j) /\ \A v \in Workers : inbox[v][j] = Null /\ job[v] # j
    BY DEF Unborn
  <2>2. j # NoJob
    BY WorkerAssumption
  <2> QED
    BY <2>1, <2>2
<1>4. PunctualIsAlone' /\ FinishedWasDone'
  BY DEF PunctualIsAlone, FinishedWasDone
<1> QED
  BY <1>1, <1>2, <1>3, <1>4

-----------------------------------------------------------------------------
(* Steps that write the table *)

(* Ages are numbers. *)
LEMMA Ages ==
  ASSUME WorkTypeOK
  PROVE  /\ \A v \in Workers, j \in Jobs : inbox[v][j] \in AgeOrNull
         /\ \A j \in Jobs : idle[j] \in AgeOrNull
         /\ \A v \in Workers : quiet[v] \in 0 .. TooLong
<1>1. ASSUME NEW v \in Workers, NEW j \in Jobs PROVE inbox[v][j] \in AgeOrNull
  <2>1. inbox[v] \in [Jobs -> AgeOrNull]
    BY DEF WorkTypeOK, AgeOrNull
  <2> QED
    BY <2>1
<1>2. \A j \in Jobs : idle[j] \in AgeOrNull
  BY DEF WorkTypeOK, AgeOrNull
<1>3. \A v \in Workers : quiet[v] \in 0 .. TooLong
  BY DEF WorkTypeOK
<1> QED
  BY <1>1, <1>2, <1>3

(* A job that is free to take is in no hands that still count. *)
LEMMA FreeIsLost ==
  ASSUME WorkInv, NEW j \in Jobs, Free(j)
  PROVE  /\ j \in born
         /\ \A v \in Workers : inbox[v][j] = Null \/ inbox[v][j] + Stall > Deadline
         /\ \A v \in Workers : job[v] = j => quiet[v] \notin Punctual
<1> USE DEF WorkInv
<1>1. Present(j) /\ phase[j] \in {"queued", "running"}
  BY DEF Free, Present
<1>2. j \in born
  BY <1>1 DEF Unborn
<1>3. ASSUME NEW v \in Workers PROVE inbox[v][j] = Null \/ inbox[v][j] + Stall > Deadline
  <2> SUFFICES ASSUME inbox[v][j] # Null PROVE inbox[v][j] + Stall > Deadline
    OBVIOUS
  <2>1. phase[j] # "queued" /\ idle[j] <= inbox[v][j] + Stall
    BY <1>1 DEF CopyCovers
  <2>2. idle[j] > Deadline
    BY <1>1, <2>1 DEF Free
  <2>3. idle[j] \in AgeOrNull /\ inbox[v][j] \in AgeOrNull
    BY Ages
  <2> QED
    BY <2>1, <2>2, <2>3, WorkerAssumption DEF AgeOrNull, Age, Null
<1>4. ASSUME NEW v \in Workers, job[v] = j PROVE quiet[v] \notin Punctual
  <2> SUFFICES ASSUME quiet[v] \in Punctual PROVE FALSE
    OBVIOUS
  <2>1. job[v] # NoJob
    BY <1>4, WorkerAssumption
  <2>2. phase[j] # "queued" /\ idle[j] <= quiet[v] + Stall
    BY <1>1, <1>4, <2>1 DEF WorkCovers
  <2>3. idle[j] > Deadline
    BY <1>1, <2>2 DEF Free
  <2>4. idle[j] \in AgeOrNull
    BY Ages
  <2> QED
    BY <2>2, <2>3, <2>4, WorkerAssumption DEF AgeOrNull, Age, Null, Punctual
<1> QED
  BY <1>2, <1>3, <1>4

(* Giving a job out, with or without success, keeps the invariant.         *)
LEMMA GrantInd ==
  ASSUME WorkInv, WorkTypeOK', ReportsTrue', CallIsMine',
         NEW w \in Workers, NEW j \in Jobs, Give(w, j) \/ Lose(w, j)
  PROVE  WorkInv'
<1>0. /\ j \in born
      /\ \A v \in Workers : inbox[v][j] = Null \/ inbox[v][j] + Stall > Deadline
      /\ \A v \in Workers : job[v] = j => quiet[v] \notin Punctual
  <2>1. Free(j)
    BY DEF Give, Lose, Grant
  <2> QED
    BY <2>1, FreeIsLost
<1> USE DEF WorkInv, loop
<1>1. PICK a \in Age : /\ idle' = [idle EXCEPT ![j] = a]
                       /\ inbox' = inbox \/ inbox' = [inbox EXCEPT ![w][j] = a]
  <2>1. Grant(j)
    BY DEF Give, Lose
  <2>2. PICK a \in Age : idle' = [idle EXCEPT ![j] = a] /\ held' = [held EXCEPT ![j] = a]
    BY <2>1 DEF Grant
  <2>3. held'[j] = a
    BY <2>2 DEF WorkTypeOK
  <2> QED
    BY <2>2, <2>3 DEF Give, Lose
<1>2. phase' = [phase EXCEPT ![j] = "running"] /\ UNCHANGED <<born, job, quiet, done>>
  BY DEF Give, Lose, Grant
<1>3. \A v \in Workers, k \in Jobs :
        inbox'[v][k] = inbox[v][k] \/ (v = w /\ k = j /\ inbox'[v][k] = a)
  <2>1. CASE inbox' = inbox
    BY <2>1
  <2>2. CASE inbox' = [inbox EXCEPT ![w][j] = a]
    <3>1. /\ inbox'[w] = [inbox[w] EXCEPT ![j] = a]
          /\ \A v \in Workers \ {w} : inbox'[v] = inbox[v]
      BY <2>2 DEF WorkTypeOK
    <3>2. inbox[w] \in [Jobs -> AgeOrNull]
      BY DEF WorkTypeOK, AgeOrNull
    <3> QED
      BY <3>1, <3>2
  <2> QED
    BY <1>1, <2>1, <2>2
<1>4. /\ idle'[j] = a /\ \A k \in Jobs \ {j} : idle'[k] = idle[k]
      /\ phase'[j] = "running" /\ \A k \in Jobs \ {j} : phase'[k] = phase[k]
  BY <1>1, <1>2 DEF WorkTypeOK
<1>5. \A v \in Workers, k \in Jobs : inbox[v][k] \in AgeOrNull
  BY Ages
<1>6. CopyCovers'
  <2> SUFFICES ASSUME NEW v \in Workers, NEW k \in Jobs, inbox'[v][k] # Null, phase'[k] # "absent"
               PROVE  /\ phase'[k] # "queued" /\ idle'[k] # Null
                      /\ idle'[k] <= inbox'[v][k] + Stall
    BY DEF CopyCovers, Present
  <2>1. CASE k # j
    BY <1>3, <1>4, <2>1 DEF CopyCovers, Present
  <2>2. CASE k = j
    <3>1. idle'[k] = a /\ phase'[k] = "running" /\ a # Null
      BY <1>4, <2>2 DEF Age, Null
    <3>2. CASE inbox'[v][k] = a
      BY <3>1, <3>2, WorkerAssumption DEF Age
    <3>3. CASE inbox'[v][k] = inbox[v][k]
      <4>1. inbox[v][j] + Stall > Deadline /\ inbox[v][j] \in Age
        BY <1>0, <1>5, <2>2, <3>3 DEF AgeOrNull
      <4> QED
        BY <2>2, <3>1, <3>3, <4>1, WorkerAssumption DEF Age
    <3> QED
      BY <1>3, <3>2, <3>3
  <2> QED
    BY <2>1, <2>2
<1>7. WorkCovers'
  <2> SUFFICES ASSUME NEW v \in Workers, job[v] # NoJob, quiet[v] \in Punctual,
                      phase'[job[v]] # "absent"
               PROVE  /\ phase'[job[v]] # "queued" /\ idle'[job[v]] # Null
                      /\ idle'[job[v]] <= quiet[v] + Stall
    BY <1>2 DEF WorkCovers, Present
  <2>1. job[v] \in Jobs /\ job[v] # j
    BY <1>0 DEF WorkTypeOK
  <2> QED
    BY <1>4, <2>1 DEF WorkCovers, Present
<1>8. FreshCopyIsAlone'
  <2>1. \A v \in Workers : inbox[v][j] \notin Punctual
    BY <1>0, <1>5, WorkerAssumption DEF Punctual, AgeOrNull, Age, Null
  <2> QED
    BY <1>2, <1>0, <1>3, <2>1 DEF FreshCopyIsAlone
<1>9. Unborn'
  <2> SUFFICES ASSUME NEW k \in Jobs \ born
               PROVE  phase'[k] = "absent" /\ \A v \in Workers : inbox'[v][k] = Null /\ job[v] # k
    BY <1>2 DEF Unborn, Present
  <2>1. k # j
    BY <1>0
  <2> QED
    BY <1>3, <1>4, <2>1 DEF Unborn, Present
<1>10. PunctualIsAlone' /\ FinishedWasDone'
  BY <1>2, <1>4 DEF PunctualIsAlone, FinishedWasDone
<1> QED
  BY <1>6, <1>7, <1>8, <1>9, <1>10

(* Receiving a copy keeps the invariant: a fresh copy is the only one, and *)
(* no punctual worker has its job.                                         *)
LEMMA RecvInd ==
  ASSUME WorkInv, WorkTypeOK', ReportsTrue', CallIsMine', NEW w \in Workers, Recv(w)
  PROVE  WorkInv'
<1> USE DEF WorkInv, jobs
<1>1. PICK j \in Jobs :
        /\ inbox[w][j] # Null
        /\ inbox' = [inbox EXCEPT ![w][j] = Null]
        /\ job' = [job EXCEPT ![w] = j]
        /\ quiet' = [quiet EXCEPT ![w] = IF inbox[w][j] < TooLong THEN inbox[w][j] ELSE TooLong]
  BY DEF Recv
<1> DEFINE a == inbox[w][j]
<1>2. UNCHANGED <<phase, idle, born, done>>
  BY DEF Recv
<1>3. /\ inbox'[w] = [inbox[w] EXCEPT ![j] = Null]
      /\ \A v \in Workers \ {w} : inbox'[v] = inbox[v]
  BY <1>1 DEF WorkTypeOK
<1>4. inbox[w] \in [Jobs -> AgeOrNull]
  BY DEF WorkTypeOK, AgeOrNull
<1>5. \A v \in Workers, k \in Jobs :
        inbox'[v][k] = IF v = w /\ k = j THEN Null ELSE inbox[v][k]
  BY <1>3, <1>4
<1>6. /\ job'[w] = j /\ quiet'[w] = IF a < TooLong THEN a ELSE TooLong
      /\ \A v \in Workers \ {w} : job'[v] = job[v] /\ quiet'[v] = quiet[v]
  BY <1>1 DEF WorkTypeOK
<1>7. a \in Age /\ (quiet'[w] \in Punctual => a \in Punctual /\ quiet'[w] = a)
  BY <1>1, <1>4, <1>6, WorkerAssumption DEF AgeOrNull, Age, Null, Punctual, TooLong
<1>8. Null \notin Punctual
  BY WorkerAssumption DEF Null, Punctual
<1>9. CopyCovers'
  BY <1>2, <1>5 DEF CopyCovers, Present
<1>10. WorkCovers'
  <2> SUFFICES ASSUME NEW v \in Workers, job'[v] # NoJob, quiet'[v] \in Punctual,
                      phase[job'[v]] # "absent"
               PROVE  /\ phase[job'[v]] # "queued" /\ idle[job'[v]] # Null
                      /\ idle[job'[v]] <= quiet'[v] + Stall
    BY <1>2 DEF WorkCovers, Present
  <2>1. CASE v = w
    BY <1>1, <1>6, <1>7, <2>1 DEF CopyCovers, Present
  <2>2. CASE v # w
    BY <1>6, <2>2 DEF WorkCovers, Present
  <2> QED
    BY <2>1, <2>2
<1>11. FreshCopyIsAlone'
  <2> SUFFICES ASSUME NEW u \in Workers, NEW v \in Workers, NEW k \in Jobs,
                      inbox'[v][k] \in Punctual
               PROVE  /\ inbox'[u][k] \in Punctual => u = v
                      /\ quiet'[u] \in Punctual => job'[u] # k
    BY DEF FreshCopyIsAlone
  <2>1. inbox[v][k] \in Punctual /\ ~(v = w /\ k = j)
    BY <1>5, <1>8
  <2>2. inbox'[u][k] \in Punctual => u = v
    BY <1>5, <1>8, <2>1 DEF FreshCopyIsAlone
  <2>3. CASE u # w
    BY <1>6, <2>1, <2>2, <2>3 DEF FreshCopyIsAlone
  <2>4. CASE u = w
    <3> SUFFICES ASSUME quiet'[w] \in Punctual PROVE j # k
      BY <1>6, <2>2, <2>4
    <3>1. a \in Punctual
      BY <1>7
    <3> QED
      BY <2>1, <3>1 DEF FreshCopyIsAlone
  <2> QED
    BY <2>3, <2>4
<1>12. Unborn'
  BY <1>1, <1>2, <1>5, <1>6 DEF Unborn, Present
<1>13. PunctualIsAlone'
  <2> SUFFICES ASSUME NEW v \in Workers \ {w}, quiet'[w] \in Punctual, quiet[v] \in Punctual
               PROVE  job[v] # j
    BY <1>6 DEF PunctualIsAlone
  <2>1. a \in Punctual
    BY <1>7
  <2> QED
    BY <2>1 DEF FreshCopyIsAlone
<1>14. FinishedWasDone'
  BY <1>2 DEF FinishedWasDone
<1> QED
  BY <1>9, <1>10, <1>11, <1>12, <1>13, <1>14

(* The UPDATE of a Heartbeat, whoever sent it, only makes the job younger; *)
(* it may come with the end of the iteration or with nothing.              *)
LEMMA UpdateInd ==
  ASSUME WorkInv, WorkTypeOK', ReportsTrue', CallIsMine', NEW w \in Workers, Update(w),
         done' = done,
         \A v \in Workers, j \in Jobs : inbox'[v][j] \in {inbox[v][j], Null},
         \A v \in Workers : \/ job'[v] = job[v] /\ quiet'[v] = quiet[v]
                            \/ /\ v = w /\ job'[v] = job[v] /\ call[w].job = job[w]
                               /\ quiet'[v] \in {quiet[v], Renewed(quiet[v])}
                            \/ job'[v] = NoJob
  PROVE  WorkInv'
<1> USE DEF WorkInv
<1> DEFINE j == call[w].job
<1>1. j \in Jobs /\ UNCHANGED born
  BY WorkerAssumption DEF Update, CallIsMine, WorkTypeOK
<1>2. /\ \A k \in Jobs : k # j \/ ~Present(j) => phase'[k] = phase[k] /\ idle'[k] = idle[k]
      /\ Present(j) => /\ phase'[j] \in {phase[j], "finished"}
                       /\ idle'[j] \in 0 .. Stall
                       /\ phase'[j] = phase[j] \/ call[w].fin
  BY <1>1 DEF Update, Renew, leaseVars, WorkTypeOK
<1>3. ASSUME NEW v \in Workers, quiet'[v] \in Punctual, job'[v] # NoJob
      PROVE  job'[v] = job[v] /\ quiet[v] \in Punctual
  <2>1. quiet[v] \in 0 .. TooLong
    BY Ages
  <2>2. quiet'[v] \in {quiet[v], Renewed(quiet[v])} /\ job'[v] = job[v]
    BY <1>3
  <2> QED
    BY <1>3, <2>1, <2>2, WorkerAssumption DEF Renewed, Punctual, TooLong
<1>4. \A v \in Workers, k \in Jobs : inbox[v][k] \in AgeOrNull
  BY Ages
<1>5. Null \notin Punctual
  BY WorkerAssumption DEF Null, Punctual
<1>6. \A v \in Workers, k \in Jobs : inbox'[v][k] # Null => inbox'[v][k] = inbox[v][k]
  OBVIOUS
<1>7. \A k \in Jobs : Present(k)' <=> Present(k)
  BY <1>2 DEF Present
<1>8. CopyCovers'
  <2> SUFFICES ASSUME NEW v \in Workers, NEW k \in Jobs, inbox'[v][k] # Null, Present(k)
               PROVE  /\ phase'[k] # "queued" /\ idle'[k] # Null
                      /\ idle'[k] <= inbox'[v][k] + Stall
    BY <1>7 DEF CopyCovers
  <2>1. /\ phase[k] # "queued" /\ idle[k] # Null /\ idle[k] <= inbox'[v][k] + Stall
        /\ inbox'[v][k] \in Age
    BY <1>4, <1>6 DEF CopyCovers, AgeOrNull
  <2>2. CASE k = j
    BY <1>2, <2>1, <2>2, WorkerAssumption DEF Age, Null
  <2>3. CASE k # j
    BY <1>2, <2>1, <2>3
  <2> QED
    BY <2>2, <2>3
<1>9. WorkCovers'
  <2> SUFFICES ASSUME NEW v \in Workers, job'[v] # NoJob, quiet'[v] \in Punctual,
                      phase'[job'[v]] # "absent"
               PROVE  /\ phase'[job'[v]] # "queued" /\ idle'[job'[v]] # Null
                      /\ idle'[job'[v]] <= quiet'[v] + Stall
    BY DEF WorkCovers, Present
  <2> DEFINE k == job[v]
  <2>0. job'[v] = k /\ quiet[v] \in Punctual
    BY <1>3
  <2>1. k \in Jobs /\ k # NoJob /\ Present(k)
    BY <1>2, <2>0 DEF WorkTypeOK, Present
  <2>2. phase[k] # "queued" /\ idle[k] # Null /\ idle[k] <= quiet[v] + Stall
    BY <2>0, <2>1 DEF WorkCovers
  <2>3. quiet'[v] \in Nat
    BY WorkerAssumption DEF Punctual
  <2>4. CASE k = j
    BY <1>2, <2>0, <2>1, <2>2, <2>3, <2>4, WorkerAssumption DEF Null
  <2>5. CASE k # j
    <3>1. quiet'[v] = quiet[v]
      BY <2>0, <2>1, <2>5
    <3> QED
      BY <1>2, <2>0, <2>1, <2>2, <2>5, <3>1
  <2> QED
    BY <2>4, <2>5
<1>10. FreshCopyIsAlone'
  <2> SUFFICES ASSUME NEW u \in Workers, NEW v \in Workers, NEW k \in Jobs,
                      inbox'[v][k] \in Punctual
               PROVE  /\ inbox'[u][k] \in Punctual => u = v
                      /\ quiet'[u] \in Punctual => job'[u] # k
    BY DEF FreshCopyIsAlone
  <2>1. inbox[v][k] \in Punctual
    BY <1>5, <1>6
  <2>2. inbox'[u][k] \in Punctual => u = v
    BY <1>5, <1>6, <2>1 DEF FreshCopyIsAlone
  <2>3. ASSUME quiet'[u] \in Punctual PROVE job'[u] # k
    BY <1>3, <2>1, <2>3, WorkerAssumption DEF FreshCopyIsAlone
  <2> QED
    BY <2>2, <2>3
<1>11. Unborn'
  <2> SUFFICES ASSUME NEW k \in Jobs \ born
               PROVE  ~Present(k) /\ \A v \in Workers : inbox'[v][k] = Null /\ job'[v] # k
    BY <1>1, <1>7 DEF Unborn
  <2>1. k # NoJob
    BY WorkerAssumption
  <2> QED
    BY <2>1 DEF Unborn
<1>12. PunctualIsAlone'
  BY <1>3 DEF PunctualIsAlone
<1>13. FinishedWasDone'
  <2>1. call[w].fin => j \in done
    BY DEF ReportsTrue
  <2> QED
    BY <1>1, <1>2, <2>1 DEF FinishedWasDone
<1> QED
  BY <1>8, <1>9, <1>10, <1>11, <1>12, <1>13

(* A new job is in nobody's hands. *)
LEMMA CreateInd ==
  ASSUME WorkInv, WorkTypeOK', NEW j \in Jobs, Create(j)
  PROVE  WorkInv'
<1> USE DEF WorkInv, stream, loop
<1>1. /\ \A k \in Jobs \ {j} : phase'[k] = phase[k]
      /\ phase'[j] = "queued" /\ j \notin born
      /\ UNCHANGED <<idle, inbox, job, quiet, done, cb, call, at>> /\ born' = born \cup {j}
  BY DEF Create, Add, WorkTypeOK
<1>2. \A w \in Workers : inbox[w][j] = Null /\ job[w] # j
  BY <1>1 DEF Unborn
<1>3. CopyCovers' /\ WorkCovers'
  <2>1. CopyCovers'
    BY <1>1, <1>2 DEF CopyCovers, Present
  <2>2. \A w \in Workers : job[w] # NoJob => job[w] \in Jobs \ {j}
    BY <1>2 DEF WorkTypeOK
  <2>3. WorkCovers'
    BY <1>1, <2>2 DEF WorkCovers, Present
  <2> QED
    BY <2>1, <2>3
<1>4. FreshCopyIsAlone' /\ PunctualIsAlone' /\ FinishedWasDone'
  BY <1>1 DEF FreshCopyIsAlone, PunctualIsAlone, FinishedWasDone
<1>5. Unborn' /\ ReportsTrue' /\ CallIsMine'
  BY <1>1 DEF Unborn, Present, ReportsTrue, CallIsMine
<1> QED
  BY <1>3, <1>4, <1>5

(* A deleted job is nobody's concern any more. *)
LEMMA DeleteInd ==
  ASSUME WorkInv, WorkTypeOK', NEW j \in Jobs, Delete(j)
  PROVE  WorkInv'
<1> USE DEF WorkInv, stream, loop
<1>1. /\ \A k \in Jobs \ {j} : phase'[k] = phase[k] /\ idle'[k] = idle[k]
      /\ phase'[j] = "absent"
      /\ UNCHANGED <<inbox, job, quiet, done, cb, call, at, born>>
  BY DEF Delete, Remove, WorkTypeOK
<1>2. CopyCovers'
  BY <1>1 DEF CopyCovers, Present
<1>3. WorkCovers'
  <2>1. \A w \in Workers : job[w] # NoJob => job[w] \in Jobs
    BY DEF WorkTypeOK
  <2> QED
    BY <1>1, <2>1 DEF WorkCovers, Present
<1>4. FreshCopyIsAlone' /\ PunctualIsAlone' /\ FinishedWasDone'
  BY <1>1 DEF FreshCopyIsAlone, PunctualIsAlone, FinishedWasDone
<1>5. Unborn' /\ ReportsTrue' /\ CallIsMine'
  BY <1>1 DEF Unborn, Present, ReportsTrue, CallIsMine
<1> QED
  BY <1>2, <1>3, <1>4, <1>5

(* Time passes: what is fresh or punctual after it was so before, and the  *)
(* table ages no faster than the copies and the workers.                   *)
LEMMA WorkTickInd ==
  ASSUME WorkInv, WorkTypeOK', WorkTick
  PROVE  WorkInv'
<1> USE DEF WorkInv
<1>1. /\ UNCHANGED <<phase, born, job, done, cb, call, at>>
      /\ \A j \in Jobs : idle'[j] = Older(idle[j])
      /\ \A w \in Workers, j \in Jobs : inbox'[w][j] = Older(inbox[w][j])
      /\ \A w \in Workers : quiet'[w] = IF job[w] = NoJob THEN 0 ELSE Quieter(quiet[w])
  BY DEF WorkTick, Tick
<1>2. ASSUME NEW w \in Workers, NEW j \in Jobs
      PROVE  /\ inbox'[w][j] = Null <=> inbox[w][j] = Null
             /\ inbox'[w][j] \in Punctual => inbox[w][j] \in Punctual
             /\ inbox[w][j] \in AgeOrNull
  <2>1. inbox[w][j] \in AgeOrNull
    BY Ages
  <2>2. inbox'[w][j] = Null <=> inbox[w][j] = Null
    BY <1>1, <2>1, OlderAge
  <2>3. inbox[w][j] <= inbox'[w][j]
    BY <1>1, <2>1, OlderAge
  <2> QED
    BY <2>1, <2>2, <2>3, WorkerAssumption DEF Punctual, AgeOrNull, Age, Null
<1>3. ASSUME NEW j \in Jobs
      PROVE  /\ idle'[j] = Null <=> idle[j] = Null
             /\ idle'[j] <= idle[j] + 1 /\ idle[j] \in AgeOrNull /\ idle'[j] \in AgeOrNull
  BY <1>1, Ages, OlderAge
<1>4. ASSUME NEW w \in Workers, job[w] # NoJob, quiet'[w] \in Punctual
      PROVE  quiet[w] \in Punctual /\ quiet'[w] = quiet[w] + 1
  BY <1>1, <1>4, Ages, QuieterAge
<1>5. CopyCovers'
  <2> SUFFICES ASSUME NEW w \in Workers, NEW j \in Jobs, inbox'[w][j] # Null, phase[j] # "absent"
               PROVE  /\ phase[j] # "queued" /\ idle'[j] # Null
                      /\ idle'[j] <= inbox'[w][j] + Stall
    BY <1>1 DEF CopyCovers, Present
  <2>1. phase[j] # "queued" /\ idle[j] # Null /\ idle[j] <= inbox[w][j] + Stall
    BY <1>2 DEF CopyCovers, Present
  <2>2. inbox[w][j] \in Age /\ inbox'[w][j] = Older(inbox[w][j])
    BY <1>1, <1>2 DEF AgeOrNull
  <2>3. idle'[j] = Older(idle[j]) /\ idle[j] \in Age
    BY <1>1, <1>3, <2>1 DEF AgeOrNull
  <2> QED
    BY <1>3, <2>1, <2>2, <2>3, WorkerAssumption DEF Older, Age, Null
<1>6. WorkCovers'
  <2> SUFFICES ASSUME NEW w \in Workers, job[w] # NoJob, quiet'[w] \in Punctual,
                      phase[job[w]] # "absent"
               PROVE  /\ phase[job[w]] # "queued" /\ idle'[job[w]] # Null
                      /\ idle'[job[w]] <= quiet'[w] + Stall
    BY <1>1 DEF WorkCovers, Present
  <2>1. job[w] \in Jobs /\ quiet[w] \in Punctual /\ quiet'[w] = quiet[w] + 1
    BY <1>4 DEF WorkTypeOK
  <2>2. /\ phase[job[w]] # "queued" /\ idle[job[w]] # Null
        /\ idle[job[w]] <= quiet[w] + Stall
    BY <2>1 DEF WorkCovers, Present
  <2>3. /\ idle'[job[w]] # Null /\ idle'[job[w]] <= idle[job[w]] + 1
        /\ idle[job[w]] \in Age /\ idle'[job[w]] \in Age
    BY <1>3, <2>1, <2>2 DEF AgeOrNull
  <2>4. quiet[w] \in Int
    BY <2>1, WorkerAssumption DEF Punctual
  <2> QED
    BY <2>1, <2>2, <2>3, <2>4, WorkerAssumption DEF Age
<1>7. FreshCopyIsAlone'
  <2> SUFFICES ASSUME NEW u \in Workers, NEW v \in Workers, NEW k \in Jobs,
                      inbox'[v][k] \in Punctual
               PROVE  /\ inbox'[u][k] \in Punctual => u = v
                      /\ quiet'[u] \in Punctual => job[u] # k
    BY <1>1 DEF FreshCopyIsAlone
  <2>1. inbox[v][k] \in Punctual /\ (inbox'[u][k] \in Punctual => inbox[u][k] \in Punctual)
    BY <1>2
  <2>2. k # NoJob
    BY WorkerAssumption
  <2> QED
    BY <1>4, <2>1, <2>2 DEF FreshCopyIsAlone
<1>8. Unborn'
  BY <1>1, <1>2 DEF Unborn, Present
<1>9. PunctualIsAlone'
  <2> SUFFICES ASSUME NEW v \in Workers, NEW w \in Workers, job[v] = job[w], job[v] # NoJob,
                      quiet'[v] \in Punctual, quiet'[w] \in Punctual
               PROVE  v = w
    BY <1>1 DEF PunctualIsAlone
  <2>1. quiet[v] \in Punctual /\ quiet[w] \in Punctual
    BY <1>4
  <2> QED
    BY <2>1 DEF PunctualIsAlone
<1>10. FinishedWasDone' /\ ReportsTrue' /\ CallIsMine'
  BY <1>1 DEF FinishedWasDone, ReportsTrue, CallIsMine
<1> QED
  BY <1>5, <1>6, <1>7, <1>8, <1>9, <1>10

-----------------------------------------------------------------------------
(* The invariant *)

(* Every step of a worker keeps the invariant. *)
LEMMA WorkerStepInd ==
  ASSUME WorkInv, NEW w \in Workers, WorkerStep(w)
  PROVE  WorkInv'
<1>1. /\ WorkTypeOK' /\ CallIsMine' /\ ReportsTrue' /\ done \subseteq done'
  BY StepType, StepCall, StepReports DEF WorkInv
<1>2. ASSUME NEW j \in Jobs, Give(w, j) \/ Lose(w, j) PROVE WorkInv'
  BY <1>1, <1>2, GrantInd
<1>3. CASE Recv(w)
  BY <1>1, <1>3, RecvInd
<1>4. CASE \/ Open(w) \/ StreamEnds(w) \/ CallbackSucceeds(w) \/ CallbackFails(w)
           \/ TakeState(w) \/ ReportFinished(w) \/ UpdateFails(w)
  <2>1. UNCHANGED <<phase, idle, held, born, inbox, job, quiet>>
    BY <1>4 DEF Open, StreamEnds, CallbackSucceeds, CallbackFails, TakeState, ReportFinished,
       StartHeartbeat, UpdateFails, jobs, stream, loop
  <2> QED
    BY <1>1, <2>1, QuietStep DEF jobs
<1>5. ASSUME Leave(w)
      PROVE  /\ \A v \in Workers, j \in Jobs : inbox'[v][j] \in {inbox[v][j], Null}
             /\ \A v \in Workers : \/ job'[v] = job[v] /\ quiet'[v] = quiet[v]
                                   \/ job'[v] = NoJob
             /\ done' = done
  BY <1>5 DEF Leave, NoCopies, WorkInv, WorkTypeOK
<1>6. CASE \/ RecvFails(w) \/ ReturnError(w) \/ JobIsGone(w)
           \/ HeartbeatFails(w) \/ WorkerDies(w)
  <2>1. Leave(w) /\ UNCHANGED jobs
    BY <1>6 DEF RecvFails, ReturnError, JobIsGone, HeartbeatFails, WorkerDies
  <2> QED
    BY <1>1, <1>5, <2>1, QuietStep
<1>7. CASE StateReported(w)
  <2>1. /\ Update(w) /\ UNCHANGED <<inbox, job, done>>
        /\ quiet' = [quiet EXCEPT ![w] = IF Present(job[w]) THEN Renewed(@) ELSE @]
    BY <1>7 DEF StateReported, stream
  <2>2. call[w].job = job[w]
    BY <1>7 DEF StateReported, Update, WorkInv, CallIsMine
  <2>3. \A v \in Workers : \/ quiet'[v] = quiet[v]
                           \/ v = w /\ quiet'[v] \in {quiet[v], Renewed(quiet[v])}
    BY <2>1 DEF WorkInv, WorkTypeOK
  <2> QED
    BY <1>1, <2>1, <2>2, <2>3, UpdateInd
<1>8. CASE FinishReported(w)
  <2>1. Update(w) /\ Leave(w)
    BY <1>8 DEF FinishReported
  <2> QED
    BY <1>1, <1>5, <2>1, UpdateInd
<1>9. CASE AnswerLost(w)
  <2>1. Update(w) /\ UNCHANGED <<inbox, job, quiet, done>>
    BY <1>9 DEF AnswerLost, stream, loop
  <2> QED
    BY <1>1, <2>1, UpdateInd
<1> QED
  BY <1>2, <1>3, <1>4, <1>6, <1>7, <1>8, <1>9 DEF WorkerStep

(* Every step keeps the invariant. *)
LEMMA WorkNextInd == WorkInv /\ [WorkNext]_workVars => WorkInv'
<1> SUFFICES ASSUME WorkInv, [WorkNext]_workVars PROVE WorkInv'
  OBVIOUS
<1>1. ASSUME NEW w \in Workers, WorkerStep(w) PROVE WorkInv'
  BY <1>1, WorkerStepInd
<1>2. ASSUME NEW j \in Jobs, Create(j) \/ Delete(j) PROVE WorkInv'
  <2>1. WorkTypeOK'
    BY <1>2, SurroundingsType DEF WorkInv
  <2> QED
    BY <1>2, <2>1, CreateInd, DeleteInd
<1>3. CASE WorkTick
  <2>1. WorkTypeOK'
    BY <1>3, SurroundingsType DEF WorkInv
  <2> QED
    BY <1>3, <2>1, WorkTickInd
<1>4. CASE UNCHANGED workVars
  <2>1. /\ UNCHANGED <<phase, idle, held, born, inbox, job, quiet, done>>
        /\ UNCHANGED <<open, at, cb, call>>
    BY <1>4 DEF workVars
  <2>2. WorkTypeOK' /\ CallIsMine' /\ ReportsTrue'
    BY <2>1 DEF WorkInv, WorkTypeOK, CallIsMine, ReportsTrue
  <2> QED
    BY <2>1, <2>2, QuietStep DEF jobs
<1> QED
  BY <1>1, <1>2, <1>3, <1>4 DEF WorkNext

(* The inductive invariant holds in every reachable state. *)
THEOREM WorkInductive == WorkSpec => []WorkInv
<1> QED
  BY WorkInitInv, WorkNextInd, PTL DEF WorkSpec

(* Every variable keeps its type. *)
THEOREM WorkTypeCorrect == WorkSpec => []WorkTypeOK
<1>1. WorkInv => WorkTypeOK
  BY DEF WorkInv
<1> QED
  BY <1>1, WorkInductive, PTL

(* Two workers that both renew their job in time never have the same one,  *)
(* for any number of workers, whatever dies and whoever sends heartbeats   *)
(* for it (jobs/server.go:250-308).                                        *)
THEOREM NeverTwoPunctual == WorkSpec => []PunctualIsAlone
<1>1. WorkInv => PunctualIsAlone
  BY DEF WorkInv
<1> QED
  BY <1>1, WorkInductive, PTL

(* No job is finished in the table unless a callback returned nil for it   *)
(* (worker.go:57-65), though workers that lost a job may still report it.  *)
THEOREM NeverFinishedUndone == WorkSpec => []FinishedWasDone
<1>1. WorkInv => FinishedWasDone
  BY DEF WorkInv
<1> QED
  BY <1>1, WorkInductive, PTL

-----------------------------------------------------------------------------
(* The queue under the workers *)

(* The UPDATE of a Heartbeat is a renewal, or finds no row.                *)
LEMMA UpdateRefines ==
  ASSUME WorkInv, NEW w \in Workers, Update(w)
  PROVE  Next \/ UNCHANGED leaseVars
<1> DEFINE j == call[w].job
<1>1. j \in Jobs
  BY DEF Update, WorkInv, CallIsMine, WorkTypeOK
<1>2. CASE Present(j)
  <2>1. Renew(j)
    BY <1>2 DEF Update
  <2> QED
    BY <1>1, <2>1 DEF Next
<1>3. CASE ~Present(j)
  BY <1>3 DEF Update
<1> QED
  BY <1>2, <1>3

(* Workers, their streams and their calls use the queue only as JobLease   *)
(* allows, so that what the service promises of its table by itself it     *)
(* also promises under any number of workers (worker.go:22-77).            *)
THEOREM Implements == WorkSpec => Spec
<1>1. WorkInit => Init
  BY DEF WorkInit
<1>2. WorkInv /\ [WorkNext]_workVars => [Next]_leaseVars
  <2> SUFFICES ASSUME WorkInv, [WorkNext]_workVars PROVE Next \/ UNCHANGED leaseVars
    OBVIOUS
  <2>1. ASSUME NEW w \in Workers, NEW j \in Jobs, Give(w, j) \/ Lose(w, j) PROVE Next
    BY <2>1 DEF Give, Lose, Next
  <2>2. ASSUME NEW w \in Workers, StateReported(w) \/ FinishReported(w) \/ AnswerLost(w)
        PROVE  Next \/ UNCHANGED leaseVars
    BY <2>2, UpdateRefines DEF StateReported, FinishReported, AnswerLost
  <2>3. ASSUME NEW w \in Workers,
               \/ Open(w) \/ Recv(w) \/ StreamEnds(w) \/ RecvFails(w)
               \/ CallbackSucceeds(w) \/ CallbackFails(w) \/ TakeState(w)
               \/ ReportFinished(w) \/ ReturnError(w) \/ JobIsGone(w)
               \/ UpdateFails(w) \/ HeartbeatFails(w) \/ WorkerDies(w)
        PROVE  UNCHANGED leaseVars
    BY <2>3 DEF Open, Recv, StreamEnds, RecvFails, CallbackSucceeds, CallbackFails, TakeState,
                ReportFinished, ReturnError, JobIsGone, UpdateFails, HeartbeatFails, WorkerDies,
                StartHeartbeat, jobs, leaseVars
  <2>4. ASSUME NEW j \in Jobs, Create(j) \/ Delete(j) PROVE Next
    BY <2>4 DEF Create, Delete, Next
  <2>5. CASE WorkTick
    BY <2>5 DEF WorkTick, Next
  <2>6. CASE UNCHANGED workVars
    BY <2>6 DEF workVars, leaseVars
  <2> QED
    BY <2>1, <2>2, <2>3, <2>4, <2>5, <2>6 DEF WorkNext, WorkerStep
<1> QED
  BY <1>1, <1>2, WorkInductive, PTL DEF WorkSpec, Spec

=============================================================================
