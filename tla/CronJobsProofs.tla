--------------------------- MODULE CronJobsProofs ---------------------------
(***************************************************************************)
(* Proofs about CronJobs, for every number of cronjobs, servers and        *)
(* callers: a run makes at most one job and none is passed over.           *)
(***************************************************************************)
EXTENDS CronJobs, TLAPS

(* Nothing is claimed, made or due before the first Create. *)
LEMMA InitOK == Init => IndInv
<1> SUFFICES ASSUME Init PROVE IndInv
  OBVIOUS
<1>1. TypeOK
  BY CronAssumption DEF Init, TypeOK, Runners, Run
<1>2. \A r \in Runners : Claimed(r) = {}
  BY DEF Init, Claimed
<1>3. SnapshotTrue /\ DueIsNew /\ NoneAhead /\ NoRunForgotten
  BY DEF Init, SnapshotTrue, DueIsNew, NoneAhead, NoRunForgotten
<1>4. OneJobPerRun
  BY <1>2 DEF Init, OneJobPerRun
<1> QED
  BY <1>1, <1>3, <1>4 DEF IndInv

(* Runners that stop give up what they had claimed, and only that. *)
LEMMA StopOK ==
  ASSUME IndInv, NEW S \in SUBSET Runners, NEW to,
         \A r \in Runners : to[r] \in {"down", "idle", "schedule"},
         Stop(S, to), UNCHANGED <<rows, due, run, jobs>>
  PROVE  IndInv'
<1> USE DEF IndInv
<1>1. \A r \in Runners : Claimed(r)' = IF r \in S THEN {} ELSE Claimed(r)
  BY DEF Stop, Claimed, TypeOK
<1>2. \A r \in Runners : Claimed(r) \subseteq todo[r] /\ todo[r] \subseteq Run
                         /\ todo'[r] \subseteq todo[r]
  BY DEF Stop, Claimed, TypeOK
<1>3. lost' = lost \cup UNION {Claimed(r) : r \in S}
  BY DEF Stop
<1>4. \A w \in lost' : w \in lost \/ \E r \in Runners : r \in S /\ w \in Claimed(r)
  BY <1>3
<1>5. \A r \in S : Claimed(r) \subseteq lost'
  BY <1>3
<1>6. lost \subseteq lost'
  BY <1>3
<1>7. TypeOK'
  BY <1>2, <1>4 DEF Stop, TypeOK
<1>8. SnapshotTrue'
  BY DEF Stop, SnapshotTrue, TypeOK
<1>9. DueIsNew'
  BY <1>1, <1>4 DEF DueIsNew, TypeOK
<1>10. NoneAhead'
  BY <1>2, <1>4 DEF NoneAhead, TypeOK
<1>11. OneJobPerRun'
  BY <1>1, <1>4 DEF OneJobPerRun
<1>12. NoRunForgotten'
  <2> SUFFICES ASSUME NEW c \in rows, NEW n \in 1 .. run[c]
               PROVE  \/ c \in due /\ n = run[c]
                      \/ <<c, n>> \in jobs \cup lost'
                      \/ \E r \in Runners : <<c, n>> \in Claimed(r)'
    BY DEF NoRunForgotten
  <2>1. CASE \E r \in Runners : <<c, n>> \in Claimed(r)
    BY <1>1, <1>5, <2>1
  <2>2. CASE (c \in due /\ n = run[c]) \/ <<c, n>> \in jobs \cup lost
    BY <1>6, <2>2
  <2> QED
    BY <2>1, <2>2 DEF NoRunForgotten
<1> QED
  BY <1>7, <1>8, <1>9, <1>10, <1>11, <1>12

(* Every step keeps the invariant. *)
LEMMA StepOK == IndInv /\ [Next]_vars => IndInv'
<1> SUFFICES ASSUME IndInv, [Next]_vars PROVE IndInv'
  OBVIOUS
<1> USE DEF IndInv
<1>0. \A r \in Runners : Claimed(r) \subseteq todo[r] /\ todo[r] \subseteq Run
  BY DEF Claimed, TypeOK
<1>1. ASSUME NEW s \in Servers, ServerStarts(s) PROVE IndInv'
  <2>1. \A r \in Runners : Claimed(r)' = Claimed(r)
    BY <1>1 DEF ServerStarts, Claimed, TypeOK
  <2>2. TypeOK' /\ SnapshotTrue'
    BY <1>1 DEF ServerStarts, TypeOK, SnapshotTrue
  <2>3. DueIsNew' /\ NoneAhead' /\ OneJobPerRun' /\ NoRunForgotten'
    BY <1>1, <2>1 DEF ServerStarts, DueIsNew, NoneAhead, OneJobPerRun, NoRunForgotten
  <2> QED
    BY <2>2, <2>3
<1>2. ASSUME NEW s \in Servers, ServerDies(s) PROVE IndInv'
  <2> DEFINE S == {s} \cup {c \in Callers : At[c] = s}
             to == [r \in Runners |-> IF r = s THEN "down" ELSE "idle"]
  <2>1. S \in SUBSET Runners /\ \A r \in Runners : to[r] \in {"down", "idle", "schedule"}
    BY DEF Runners
  <2>2. Stop(S, to) /\ UNCHANGED <<rows, due, run, jobs>>
    BY <1>2 DEF ServerDies
  <2> HIDE DEF S, to
  <2> QED
    BY <2>1, <2>2, StopOK
<1>3. ASSUME NEW r \in Callers, CreateDies(r) PROVE IndInv'
  <2> DEFINE to == [q \in Runners |-> "idle"]
  <2>1. {r} \in SUBSET Runners /\ \A q \in Runners : to[q] \in {"down", "idle", "schedule"}
    BY DEF Runners
  <2>2. Stop({r}, to) /\ UNCHANGED <<rows, due, run, jobs>>
    BY <1>3 DEF CreateDies
  <2> HIDE DEF to
  <2> QED
    BY <2>1, <2>2, StopOK
<1>4. ASSUME NEW r \in Callers, NEW c \in Crons, Create(r, c) PROVE IndInv'
  <2>1. r \in Runners
    BY DEF Runners
  <2>2. \A q \in Runners : Claimed(q)' = Claimed(q)
    BY <1>4 DEF Create, Claimed, TypeOK
  <2>3. c \notin rows /\ c \notin due
    BY <1>4 DEF Create, NoneAhead, TypeOK
  <2>4. run' = [run EXCEPT ![c] = 1] /\ run[c] = 0
        /\ rows' = rows \cup {c} /\ due' = due \cup {c}
        /\ UNCHANGED <<todo, overtaken, jobs, lost>>
    BY <1>4 DEF Create
  <2>5. TypeOK'
    <3>1. run' \in [Crons -> 0 .. MaxRuns]
      BY <2>4, CronAssumption DEF TypeOK
    <3>2. pc' \in [Runners -> {"down", "idle", "schedule", "selected", "creating"}]
      BY <1>4 DEF Create, TypeOK
    <3> QED
      BY <2>4, <3>1, <3>2 DEF TypeOK
  <2>6. \A w \in Run : w[1] = c => /\ w \notin jobs \cup lost
                                   /\ \A q \in Runners : w \notin todo[q]
    BY <2>4, CronAssumption DEF NoneAhead, TypeOK, Run
  <2>7. \A d \in Crons : run'[d] = IF d = c THEN 1 ELSE run[d]
    BY <2>4 DEF TypeOK
  <2>8. SnapshotTrue'
    BY <1>4, <2>1, <2>4, <2>6, <2>7 DEF Create, SnapshotTrue, TypeOK, Run
  <2>9. DueIsNew'
    <3>1. <<c, 1>> \in Run
      BY CronAssumption DEF Run
    <3> QED
      BY <1>0, <2>2, <2>3, <2>4, <2>6, <2>7, <3>1 DEF DueIsNew, TypeOK
  <2>10. NoneAhead'
    BY <2>1, <2>4, <2>6, <2>7 DEF NoneAhead, TypeOK, Run
  <2>11. OneJobPerRun'
    BY <2>2, <2>4 DEF OneJobPerRun
  <2>12. NoRunForgotten'
    <3> SUFFICES ASSUME NEW d \in rows', NEW n \in 1 .. run'[d]
                 PROVE  \/ d \in due' /\ n = run'[d]
                        \/ <<d, n>> \in jobs' \cup lost'
                        \/ \E q \in Runners : <<d, n>> \in Claimed(q)'
      BY DEF NoRunForgotten
    <3>1. CASE d = c
      BY <2>4, <2>7, <3>1
    <3>2. CASE d # c
      <4>1. d \in rows /\ run'[d] = run[d]
        BY <2>4, <2>7, <3>2 DEF TypeOK
      <4>2. d \in due => d \in due'
        BY <2>4
      <4> QED
        BY <2>2, <2>4, <4>1, <4>2 DEF NoRunForgotten
    <3> QED
      BY <3>1, <3>2
  <2> QED
    BY <2>5, <2>8, <2>9, <2>10, <2>11, <2>12
<1>5. ASSUME NEW c \in Crons, Delete(c) PROVE IndInv'
  <2>1. \A q \in Runners : Claimed(q)' = Claimed(q)
    BY <1>5 DEF Delete, Claimed
  <2>2. TypeOK'
    BY <1>5 DEF Delete, TypeOK, Doomed
  <2>3. SnapshotTrue'
    BY <1>5 DEF Delete, SnapshotTrue, Doomed
  <2>4. DueIsNew' /\ NoneAhead' /\ OneJobPerRun' /\ NoRunForgotten'
    BY <1>5, <2>1 DEF Delete, DueIsNew, NoneAhead, OneJobPerRun, NoRunForgotten
  <2> QED
    BY <2>2, <2>3, <2>4
<1>6. ASSUME NEW c \in Crons, BecomesDue(c) PROVE IndInv'
  <2>1. \A q \in Runners : Claimed(q)' = Claimed(q)
    BY <1>6 DEF BecomesDue, Claimed
  <2>2. c \in rows \ due /\ due' = due \cup {c} /\ run[c] < MaxRuns
        /\ UNCHANGED <<rows, pc, todo, overtaken, jobs, lost>>
    BY <1>6 DEF BecomesDue
  <2>3. \A d \in Crons : run'[d] = IF d = c THEN run[c] + 1 ELSE run[d]
    BY <1>6 DEF BecomesDue, TypeOK
  <2>4. TypeOK'
    BY <1>6, CronAssumption DEF BecomesDue, TypeOK
  <2>5. \A w \in Run : w[1] = c => w[2] \in Nat
    BY DEF Run
  <2>6. /\ run[c] \in Nat /\ <<c, run[c] + 1>>[1] = c /\ <<c, run[c] + 1>>[2] = run[c] + 1
        /\ ~(run[c] + 1 <= run[c])
    BY DEF TypeOK
  <2>7. \A w \in jobs \cup lost : w # <<c, run[c] + 1>>
    BY <2>6 DEF NoneAhead
  <2>8. \A q \in Runners : \A w \in todo[q] : w # <<c, run[c] + 1>>
    BY <2>6 DEF NoneAhead
  <2>9. SnapshotTrue'
    BY <2>2, <2>3 DEF SnapshotTrue, TypeOK
  <2>10. DueIsNew'
    BY <1>0, <2>1, <2>2, <2>3, <2>6, <2>7, <2>8 DEF DueIsNew, TypeOK
  <2>11. NoneAhead'
    BY <2>2, <2>3 DEF NoneAhead, TypeOK, Run
  <2>12. OneJobPerRun'
    BY <2>1, <2>2 DEF OneJobPerRun
  <2>13. NoRunForgotten'
    <3> SUFFICES ASSUME NEW d \in rows, NEW n \in 1 .. run'[d]
                 PROVE  \/ d \in due' /\ n = run'[d]
                        \/ <<d, n>> \in jobs' \cup lost'
                        \/ \E q \in Runners : <<d, n>> \in Claimed(q)'
      BY <2>2 DEF NoRunForgotten
    <3>1. CASE d = c
      <4>1. n = run'[d] \/ n \in 1 .. run[c]
        BY <2>3, <2>6, <3>1 DEF TypeOK
      <4> QED
        BY <2>1, <2>2, <3>1, <4>1 DEF NoRunForgotten
    <3>2. CASE d # c
      <4>1. run'[d] = run[d]
        BY <2>3, <3>2 DEF TypeOK
      <4> QED
        BY <2>1, <2>2, <4>1 DEF NoRunForgotten
    <3> QED
      BY <3>1, <3>2
  <2> QED
    BY <2>4, <2>9, <2>10, <2>11, <2>12, <2>13
<1>7. ASSUME NEW r \in Runners, Select(r) PROVE IndInv'
  <2>1. \A q \in Runners : Claimed(q)' = Claimed(q)
    BY <1>7 DEF Select, Claimed, TypeOK
  <2>2. \A c \in due : <<c, run[c]>> \in Run
    BY DEF TypeOK, DueIsNew, Run
  <2>3. \A q \in Runners : todo'[q] = IF q = r THEN {<<c, run[c]>> : c \in due} ELSE todo[q]
    BY <1>7 DEF Select, TypeOK
  <2>4. TypeOK'
    BY <1>7, <2>2 DEF Select, TypeOK
  <2>5. SnapshotTrue'
    BY <1>7, <2>3 DEF Select, SnapshotTrue, TypeOK
  <2>6. NoneAhead'
    BY <1>7, <2>2, <2>3 DEF Select, NoneAhead, TypeOK
  <2>7. DueIsNew' /\ OneJobPerRun' /\ NoRunForgotten'
    BY <1>7, <2>1 DEF Select, DueIsNew, OneJobPerRun, NoRunForgotten
  <2> QED
    BY <2>4, <2>5, <2>6, <2>7
<1>8. ASSUME NEW r \in Runners, NothingDue(r) PROVE IndInv'
  <2>1. \A q \in Runners : Claimed(q)' = Claimed(q)
    BY <1>8 DEF NothingDue, Claimed, TypeOK
  <2>2. TypeOK' /\ SnapshotTrue'
    BY <1>8 DEF NothingDue, TypeOK, SnapshotTrue
  <2>3. DueIsNew' /\ NoneAhead' /\ OneJobPerRun' /\ NoRunForgotten'
    BY <1>8, <2>1 DEF NothingDue, DueIsNew, NoneAhead, OneJobPerRun, NoRunForgotten
  <2> QED
    BY <2>2, <2>3
<1>9. ASSUME NEW r \in Runners, Commit(r) PROVE IndInv'
  <2> DEFINE S == {w[1] : w \in todo[r]}
  <2>1. /\ pc[r] = "selected" /\ r \notin overtaken
        /\ due' = due \ S /\ overtaken' = overtaken \cup (Doomed(S) \ {r})
        /\ pc' = [pc EXCEPT ![r] = "creating"]
        /\ UNCHANGED <<rows, run, todo, jobs, lost>>
    BY <1>9 DEF Commit, CanCommit
  <2>2. \A q \in Runners : Claimed(q)' = IF q = r THEN todo[r] ELSE Claimed(q)
    BY <2>1 DEF Claimed, TypeOK
  <2>3. \A w \in todo[r] : w[1] \in due /\ w[2] = run[w[1]] /\ w = <<w[1], run[w[1]]>>
    BY <1>0, <2>1 DEF SnapshotTrue, Run
  <2>4. Claimed(r) = {}
    BY <2>1 DEF Claimed
  <2>5. \A w \in todo[r] : w \notin jobs \cup lost /\ \A q \in Runners : w \notin Claimed(q)
    BY <2>3 DEF DueIsNew
  <2>6. TypeOK'
    BY <2>1 DEF TypeOK, Doomed
  <2>7. SnapshotTrue'
    BY <2>1 DEF SnapshotTrue, Doomed, TypeOK
  <2>8. DueIsNew'
    BY <2>1, <2>2 DEF DueIsNew
  <2>9. NoneAhead'
    BY <2>1 DEF NoneAhead
  <2>10. OneJobPerRun'
    BY <2>1, <2>2, <2>5 DEF OneJobPerRun
  <2>11. NoRunForgotten'
    <3> SUFFICES ASSUME NEW c \in rows, NEW n \in 1 .. run[c]
                 PROVE  \/ c \in due' /\ n = run[c]
                        \/ <<c, n>> \in jobs \cup lost
                        \/ \E q \in Runners : <<c, n>> \in Claimed(q)'
      BY <2>1 DEF NoRunForgotten
    <3>1. CASE c \in due /\ n = run[c]
      <4>1. CASE c \in S
        <5>1. PICK w \in todo[r] : w[1] = c
          BY <4>1
        <5>2. w = <<c, n>>
          BY <2>3, <3>1, <5>1
        <5> QED
          BY <2>2, <5>2
      <4>2. CASE c \notin S
        BY <2>1, <3>1, <4>2
      <4> QED
        BY <4>1, <4>2
    <3>2. CASE <<c, n>> \in jobs \cup lost
      BY <3>2
    <3>3. CASE \E q \in Runners : <<c, n>> \in Claimed(q)
      BY <2>2, <2>4, <3>3
    <3> QED
      BY <3>1, <3>2, <3>3 DEF NoRunForgotten
  <2> QED
    BY <2>6, <2>7, <2>8, <2>9, <2>10, <2>11
<1>10. ASSUME NEW r \in Runners, Abort(r) PROVE IndInv'
  <2> DEFINE to == [q \in Runners |-> After(q)]
  <2>1. {r} \in SUBSET Runners /\ \A q \in Runners : to[q] \in {"down", "idle", "schedule"}
    BY DEF After
  <2>2. Stop({r}, to) /\ UNCHANGED <<rows, due, run, jobs>>
    BY <1>10 DEF Abort
  <2> HIDE DEF to
  <2> QED
    BY <2>1, <2>2, StopOK
<1>11. ASSUME NEW r \in Runners, NEW w \in Run, CreateJob(r, w) PROVE IndInv'
  <2>1. /\ pc[r] = "creating" /\ w \in todo[r]
        /\ todo' = [todo EXCEPT ![r] = todo[r] \ {w}]
        /\ pc' = [pc EXCEPT ![r] = IF todo[r] = {w} THEN After(r) ELSE "creating"]
        /\ jobs \subseteq jobs' /\ lost \subseteq lost'
        /\ jobs' \cup lost' = jobs \cup lost \cup {w}
        /\ jobs' \cap lost' \subseteq (jobs \cap lost) \cup ({w} \cap (jobs \cup lost))
        /\ UNCHANGED <<rows, due, run, overtaken>>
    BY <1>11 DEF CreateJob
  <2>2. After(r) \in {"idle", "schedule"}
    BY DEF After
  <2>3. \A q \in Runners : Claimed(q)' = IF q = r THEN Claimed(r) \ {w} ELSE Claimed(q)
    BY <2>1, <2>2 DEF Claimed, TypeOK
  <2>4. w \in Claimed(r) /\ w \notin jobs \cup lost
    BY <2>1 DEF Claimed, OneJobPerRun
  <2>5. TypeOK'
    BY <2>1, <2>2 DEF TypeOK
  <2>6. SnapshotTrue'
    BY <2>1, <2>2 DEF SnapshotTrue, TypeOK
  <2>7. DueIsNew'
    BY <2>1, <2>3, <2>4 DEF DueIsNew
  <2>8. NoneAhead'
    BY <2>1 DEF NoneAhead, TypeOK
  <2>9. OneJobPerRun'
    BY <2>1, <2>3, <2>4 DEF OneJobPerRun
  <2>10. NoRunForgotten'
    <3> SUFFICES ASSUME NEW c \in rows, NEW n \in 1 .. run[c]
                 PROVE  \/ c \in due /\ n = run[c]
                        \/ <<c, n>> \in jobs' \cup lost'
                        \/ \E q \in Runners : <<c, n>> \in Claimed(q)'
      BY <2>1 DEF NoRunForgotten
    <3>1. CASE c \in due /\ n = run[c]
      BY <3>1
    <3>2. CASE <<c, n>> \in jobs \cup lost
      BY <2>1, <3>2
    <3>3. CASE \E q \in Runners : <<c, n>> \in Claimed(q)
      BY <2>1, <2>3, <3>3
    <3> QED
      BY <3>1, <3>2, <3>3 DEF NoRunForgotten
  <2> QED
    BY <2>5, <2>6, <2>7, <2>8, <2>9, <2>10
<1>12. ASSUME UNCHANGED vars PROVE IndInv'
  <2>1. \A q \in Runners : Claimed(q)' = Claimed(q)
    BY <1>12 DEF vars, Claimed
  <2>2. TypeOK' /\ SnapshotTrue'
    BY <1>12 DEF vars, TypeOK, SnapshotTrue
  <2>3. DueIsNew' /\ NoneAhead' /\ OneJobPerRun' /\ NoRunForgotten'
    BY <1>12, <2>1 DEF vars, DueIsNew, NoneAhead, OneJobPerRun, NoRunForgotten
  <2> QED
    BY <2>2, <2>3
<1> QED
  BY <1>1, <1>2, <1>3, <1>4, <1>5, <1>6, <1>7, <1>8, <1>9, <1>10, <1>11, <1>12
     DEF Next, RunnerStep

(* The strengthening of the properties below is invariant. *)
THEOREM Inductive == Spec => []IndInv
<1> QED
  BY InitOK, StepOK, PTL DEF Spec

(* The variables of the service keep their types. *)
THEOREM TypeCorrect == Spec => []TypeOK
<1>1. IndInv => TypeOK
  BY DEF IndInv
<1> QED
  BY <1>1, Inductive, PTL

(* A run of a cronjob makes at most one job, however many servers and      *)
(* Create calls schedule at once (server.go:239-293).                      *)
THEOREM AtMostOneJob == Spec => []OneJobPerRun
<1>1. IndInv => OneJobPerRun
  BY DEF IndInv
<1> QED
  BY <1>1, Inductive, PTL

(* A run is due, claimed, made, or given up by the scheduler that claimed  *)
(* it (server.go:249-316): scheduling passes over none.                    *)
THEOREM NonePassedOver == Spec => []NoRunForgotten
<1>1. IndInv => NoRunForgotten
  BY DEF IndInv
<1> QED
  BY <1>1, Inductive, PTL

-----------------------------------------------------------------------------
(* The refinement *)

(* The ledger is empty at the start. *)
LEMMA InitRefines == Init => Ledger!Init
<1> SUFFICES ASSUME Init PROVE Ledger!Init
  OBVIOUS
<1>1. DueRuns = {}
  BY DEF Init, DueRuns
<1>2. AllClaimed = {}
  BY DEF Init, AllClaimed, Claimed
<1> QED
  BY <1>1, <1>2 DEF Init, Ledger!Init

(* A step that moves no run is none of the ledger. *)
LEMMA Invisible ==
  ASSUME UNCHANGED <<rows, due, run, jobs, lost>>,
         \A r \in Runners : Claimed(r)' = Claimed(r)
  PROVE  UNCHANGED Ledger!ledgerVars
<1>1. DueRuns' = DueRuns
  BY DEF DueRuns
<1>2. AllClaimed' = AllClaimed
  BY DEF AllClaimed
<1> QED
  BY <1>1, <1>2 DEF Ledger!ledgerVars

(* Runners that stop lose what they had claimed, which nobody else has.    *)
LEMMA StopRefines ==
  ASSUME IndInv, NEW S \in SUBSET Runners, NEW to,
         \A r \in Runners : to[r] \in {"down", "idle", "schedule"},
         Stop(S, to), UNCHANGED <<rows, due, run, jobs>>
  PROVE  Ledger!Next \/ UNCHANGED Ledger!ledgerVars
<1> USE DEF IndInv
<1> DEFINE L == UNION {Claimed(r) : r \in S}
<1>1. \A r \in Runners : Claimed(r)' = IF r \in S THEN {} ELSE Claimed(r)
  BY DEF Stop, Claimed, TypeOK
<1>2. DueRuns' = DueRuns /\ lost' = lost \cup L
  BY DEF DueRuns, Stop
<1>3. L \subseteq AllClaimed
  BY DEF AllClaimed
<1>4. AllClaimed' = AllClaimed \ L
  <2>1. \A r \in Runners \ S, q \in S : Claimed(r) \cap Claimed(q) = {}
    BY DEF OneJobPerRun
  <2>2. \A r \in Runners \ S : Claimed(r) \cap L = {}
    BY <2>1
  <2> QED
    BY <1>1, <2>2 DEF AllClaimed
<1> HIDE DEF L
<1>5. CASE L = {}
  BY <1>2, <1>4, <1>5 DEF Ledger!ledgerVars
<1>6. CASE L # {}
  <2>1. Ledger!Lose(L)
    BY <1>2, <1>4, <1>6 DEF Ledger!Lose
  <2> QED
    BY <1>3, <2>1 DEF Ledger!Next
<1> QED
  BY <1>5, <1>6

(* The INSERT of Create brings the first run (server.go:110-128).          *)
LEMMA CreateRefines ==
  ASSUME IndInv, NEW r \in Callers, NEW c \in Crons, Create(r, c)
  PROVE  Ledger!Create(c)
<1>1. /\ run[c] = 0 /\ run' = [run EXCEPT ![c] = 1] /\ due' = due \cup {c}
      /\ rows' = rows \cup {c} /\ UNCHANGED <<todo, jobs, lost>>
  BY DEF Create
<1>2. \A q \in Runners : Claimed(q)' = Claimed(q)
  BY DEF Create, Claimed, IndInv, TypeOK
<1>3. AllClaimed' = AllClaimed
  BY <1>2 DEF AllClaimed
<1>4. c \notin due /\ \A d \in Crons : run'[d] = IF d = c THEN 1 ELSE run[d]
  BY <1>1 DEF IndInv, TypeOK, NoneAhead
<1>5. DueRuns' = DueRuns \cup {<<c, 1>>}
  BY <1>1, <1>4 DEF DueRuns, IndInv, TypeOK
<1> QED
  BY <1>1, <1>3, <1>5 DEF Ledger!Create, Ledger!Comes

(* The clock brings the next run. *)
LEMMA BecomesDueRefines ==
  ASSUME IndInv, NEW c \in Crons, BecomesDue(c)
  PROVE  Ledger!Recur(c)
<1>1. /\ c \in rows \ due /\ run[c] < MaxRuns /\ due' = due \cup {c}
      /\ run' = [run EXCEPT ![c] = run[c] + 1] /\ UNCHANGED <<rows, pc, todo, jobs, lost>>
  BY DEF BecomesDue
<1>2. AllClaimed' = AllClaimed
  BY <1>1 DEF AllClaimed, Claimed
<1>3. \A d \in Crons : run'[d] = IF d = c THEN run[c] + 1 ELSE run[d]
  BY <1>1 DEF IndInv, TypeOK
<1>4. DueRuns' = DueRuns \cup {<<c, run[c] + 1>>} /\ <<c, run[c]>> \notin DueRuns
  BY <1>1, <1>3 DEF DueRuns, IndInv, TypeOK
<1> QED
  BY <1>1, <1>2, <1>4 DEF Ledger!Recur, Ledger!Comes

(* Delete takes a run that is due along, and none that is claimed          *)
(* (server.go:186-226).                                                    *)
LEMMA DeleteRefines ==
  ASSUME IndInv, NEW c \in Crons, Delete(c)
  PROVE  Ledger!Delete(c)
<1>1. /\ c \in rows /\ rows' = rows \ {c} /\ due' = due \ {c}
      /\ UNCHANGED <<run, pc, todo, jobs, lost>>
  BY DEF Delete
<1>2. AllClaimed' = AllClaimed
  BY <1>1 DEF AllClaimed, Claimed
<1>3. DueRuns' = DueRuns \ {<<c, run[c]>>}
  BY <1>1 DEF DueRuns
<1> QED
  BY <1>1, <1>2, <1>3 DEF Ledger!Delete

(* A commit claims at once what its transaction has read, and all of it is *)
(* still due: the UPDATEs and the COMMIT of scheduleJobs (server.go:271-293). *)
LEMMA CommitRefines ==
  ASSUME IndInv, NEW r \in Runners, Commit(r)
  PROVE  Ledger!Next \/ UNCHANGED Ledger!ledgerVars
<1> USE DEF IndInv
<1> DEFINE S == {w[1] : w \in todo[r]}
           T == todo[r]
<1>1. /\ pc[r] = "selected" /\ r \notin overtaken /\ due' = due \ S
      /\ pc' = [pc EXCEPT ![r] = "creating"]
      /\ UNCHANGED <<rows, run, todo, jobs, lost>>
  BY DEF Commit, CanCommit
<1>2. \A w \in T : w[1] \in due /\ w = <<w[1], run[w[1]]>>
  BY <1>1 DEF SnapshotTrue, TypeOK, Run
<1>3. T \subseteq DueRuns
  BY <1>2 DEF DueRuns
<1>4. DueRuns' = DueRuns \ T
  BY <1>1, <1>2 DEF DueRuns
<1>5. \A q \in Runners : Claimed(q)' = IF q = r THEN T ELSE Claimed(q)
  BY <1>1 DEF Claimed, TypeOK
<1>6. Claimed(r) = {}
  BY <1>1 DEF Claimed
<1>7. AllClaimed' = AllClaimed \cup T
  BY <1>5, <1>6 DEF AllClaimed
<1> HIDE DEF T
<1>8. CASE T = {}
  BY <1>1, <1>4, <1>7, <1>8 DEF Ledger!ledgerVars
<1>9. CASE T # {}
  <2>1. Ledger!Claim(T)
    BY <1>1, <1>4, <1>7, <1>9 DEF Ledger!Claim
  <2> QED
    BY <1>3, <2>1 DEF Ledger!Next
<1> QED
  BY <1>8, <1>9

(* One iteration of the loop makes the job of a claimed run or loses it    *)
(* (server.go:298-316).                                                    *)
LEMMA CreateJobRefines ==
  ASSUME IndInv, NEW r \in Runners, NEW w \in Run, CreateJob(r, w)
  PROVE  Ledger!Next
<1> USE DEF IndInv
<1>1. /\ pc[r] = "creating" /\ w \in todo[r]
      /\ todo' = [todo EXCEPT ![r] = todo[r] \ {w}]
      /\ pc' = [pc EXCEPT ![r] = IF todo[r] = {w} THEN After(r) ELSE "creating"]
      /\ UNCHANGED <<rows, due, run>>
  BY DEF CreateJob
<1>2. After(r) \in {"idle", "schedule"}
  BY DEF After
<1>3. \A q \in Runners : Claimed(q)' = IF q = r THEN Claimed(r) \ {w} ELSE Claimed(q)
  BY <1>1, <1>2 DEF Claimed, TypeOK
<1>4. w \in Claimed(r) /\ \A q \in Runners : q # r => w \notin Claimed(q)
  BY <1>1 DEF Claimed, OneJobPerRun
<1>5. AllClaimed' = AllClaimed \ {w} /\ w \in AllClaimed
  BY <1>3, <1>4 DEF AllClaimed
<1>6. DueRuns' = DueRuns
  BY <1>1 DEF DueRuns
<1>7. CASE jobs' = jobs \cup {w} /\ UNCHANGED lost
  <2>1. Ledger!Make(w)
    BY <1>1, <1>5, <1>6, <1>7 DEF Ledger!Make
  <2> QED
    BY <1>5, <2>1 DEF Ledger!Next
<1>8. CASE lost' = lost \cup {w} /\ UNCHANGED jobs
  <2>1. Ledger!Lose({w})
    BY <1>1, <1>5, <1>6, <1>8 DEF Ledger!Lose
  <2> QED
    BY <1>5, <2>1 DEF Ledger!Next
<1> QED
  BY <1>7, <1>8 DEF CreateJob

(* Every step of all servers is a step of the ledger or none. *)
LEMMA StepRefines == IndInv /\ [Next]_vars => [Ledger!Next]_Ledger!ledgerVars
<1> SUFFICES ASSUME IndInv, [Next]_vars
             PROVE  Ledger!Next \/ UNCHANGED Ledger!ledgerVars
  OBVIOUS
<1>1. ASSUME NEW s \in Servers, ServerStarts(s) PROVE UNCHANGED Ledger!ledgerVars
  <2>1. \A q \in Runners : Claimed(q)' = Claimed(q)
    BY <1>1 DEF ServerStarts, Claimed, IndInv, TypeOK
  <2> QED
    BY <1>1, <2>1, Invisible DEF ServerStarts
<1>2. ASSUME NEW s \in Servers, ServerDies(s)
      PROVE  Ledger!Next \/ UNCHANGED Ledger!ledgerVars
  <2> DEFINE S == {s} \cup {c \in Callers : At[c] = s}
             to == [r \in Runners |-> IF r = s THEN "down" ELSE "idle"]
  <2>1. S \in SUBSET Runners /\ \A r \in Runners : to[r] \in {"down", "idle", "schedule"}
    BY DEF Runners
  <2>2. Stop(S, to) /\ UNCHANGED <<rows, due, run, jobs>>
    BY <1>2 DEF ServerDies
  <2> HIDE DEF S, to
  <2> QED
    BY <2>1, <2>2, StopRefines
<1>3. ASSUME NEW r \in Runners, CreateDies(r) \/ Abort(r)
      PROVE  Ledger!Next \/ UNCHANGED Ledger!ledgerVars
  <2>1. \A q \in Runners : /\ [p \in Runners |-> "idle"][q] \in {"down", "idle", "schedule"}
                           /\ [p \in Runners |-> After(p)][q] \in {"down", "idle", "schedule"}
    BY DEF After
  <2>2. /\ Stop({r}, [p \in Runners |-> "idle"]) \/ Stop({r}, [p \in Runners |-> After(p)])
        /\ UNCHANGED <<rows, due, run, jobs>>
    BY <1>3 DEF CreateDies, Abort
  <2> QED
    BY <2>1, <2>2, StopRefines
<1>4. ASSUME NEW c \in Crons, Delete(c) \/ BecomesDue(c) \/ \E r \in Callers : Create(r, c)
      PROVE  Ledger!Next
  BY <1>4, CreateRefines, DeleteRefines, BecomesDueRefines DEF Ledger!Next
<1>5. ASSUME NEW r \in Runners, Select(r) \/ NothingDue(r) PROVE UNCHANGED Ledger!ledgerVars
  <2>1. \A q \in Runners : Claimed(q)' = Claimed(q)
    BY <1>5 DEF Select, NothingDue, Claimed, IndInv, TypeOK
  <2> QED
    BY <1>5, <2>1, Invisible DEF Select, NothingDue
<1>6. CASE UNCHANGED vars
  BY <1>6, Invisible DEF vars, Claimed
<1> QED
  BY <1>1, <1>2, <1>3, <1>4, <1>5, <1>6, CommitRefines, CreateJobRefines
     DEF Next, RunnerStep, Runners

(* However many servers and callers schedule, the table and the jobs that  *)
(* come of it behave as one ledger in which each run is claimed once       *)
(* (server.go:81-144, 186-226, 228-318).                                    *)
THEOREM Refinement == Spec => LedgerSpec
<1> QED
  BY InitRefines, StepRefines, Inductive, PTL DEF Spec, LedgerSpec, Ledger!Spec

=============================================================================
