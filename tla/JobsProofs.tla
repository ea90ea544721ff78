----------------------------- MODULE JobsProofs -----------------------------
(***************************************************************************)
(* Proofs about the jobs service, for every set of jobs, streams and       *)
(* callers and every Deadline and Stall that Jobs.tla allows.              *)
(***************************************************************************)
EXTENDS Jobs, FiniteSetTheorems, TLAPS

(* Time keeps an age an age, and moves it by at most one. *)
LEMMA OlderAge ==
  ASSUME NEW a \in Age \cup {Null}
  PROVE  /\ Older(a) \in Age \cup {Null}
         /\ Older(a) = Null <=> a = Null
         /\ a \in Age => Older(a) \in Age /\ a <= Older(a) /\ Older(a) <= a + 1
         /\ a > Deadline => Older(a) > Deadline
BY JobsAssumption DEF Older, Age, Null

(* The invariant holds at the start. *)
LEMMA InitInd == Init => IndInv
<1> SUFFICES ASSUME Init PROVE IndInv
  OBVIOUS
<1> USE JobsAssumption DEF Init
<1>1. TypeOK
  BY DEF TypeOK, Age, Null, Idle, InFlight
<1>2. \A l \in Listeners, j \in Jobs : Held(l, j) = {}
  BY DEF Held
<1>3. SnapshotTrue /\ StampTaken /\ CallsWellFormed /\ RowsGone
  BY DEF SnapshotTrue, InTx, StampTaken, CallsWellFormed, Idle, InFlight, RowsGone
<1>4. IdsFresh
  BY <1>2 DEF IdsFresh, Creates, Idle, InFlight
<1>5. LeaseCovers /\ OneFreshHolder
  BY <1>2 DEF LeaseCovers, OneFreshHolder
<1> QED
  BY <1>1, <1>3, <1>4, <1>5 DEF IndInv

-----------------------------------------------------------------------------
(* The unary calls *)

(* Create takes a new id (server.go:65-84). *)
LEMMA CreateCallInd ==
  ASSUME IndInv, NEW c \in Callers, NEW j \in Jobs, CreateCall(c, j)
  PROVE  IndInv'
<1> USE JobsAssumption DEF IndInv, CreateCall, streams
<1>1. Cardinality({k \in Jobs : created[k] > 0}) \in Nat
  <2>1. IsFiniteSet({k \in Jobs : created[k] > 0})
    BY FS_Subset
  <2> QED
    BY <2>1, FS_CardinalityType
<1>2. TypeOK'
  BY <1>1 DEF TypeOK, Idle, InFlight, Null, Age
<1>3. \A l \in Listeners, k \in Jobs : Held(l, k)' = Held(l, k)
  BY DEF Held
<1>4. SnapshotTrue' /\ StampTaken' /\ RowsGone'
  BY DEF SnapshotTrue, InTx, StampTaken, RowsGone
<1>5. CallsWellFormed'
  BY DEF CallsWellFormed, TypeOK, Idle, InFlight
<1>6. IdsFresh'
  <2>1. created' = [created EXCEPT ![j] = created'[j]] /\ created'[j] # 0
    BY <1>1 DEF TypeOK
  <2>2. \A d \in Callers, k \in Jobs :
          Creates(d, k)' <=> (d # c /\ Creates(d, k)) \/ (d = c /\ k = j)
    BY DEF Creates, TypeOK, Idle, InFlight
  <2>3. stored' = stored /\ ~ \E d \in Callers : Creates(d, j)
    BY DEF IdsFresh, TypeOK
  <2>4. \A k \in Jobs : k # j => created'[k] = created[k]
    BY DEF TypeOK
  <2> SUFFICES ASSUME NEW k \in Jobs
               PROVE  /\ created'[k] = 0 \/ (\E d \in Callers : Creates(d, k)') =>
                           k \notin stored' /\ \A l \in Listeners : Held(l, k)' = {}
                      /\ \A d \in Callers : Creates(d, k)' =>
                           created'[k] # 0 /\ \A e \in Callers : Creates(e, k)' => d = e
    BY DEF IdsFresh
  <2>5. CASE k = j
    BY <1>3, <2>1, <2>2, <2>3, <2>5 DEF IdsFresh
  <2>6. CASE k # j
    BY <1>3, <2>2, <2>3, <2>4, <2>6 DEF IdsFresh
  <2> QED
    BY <2>5, <2>6
<1>7. LeaseCovers' /\ OneFreshHolder'
  BY <1>3 DEF LeaseCovers, OneFreshHolder
<1> QED
  BY <1>2, <1>4, <1>5, <1>6, <1>7

(* A step that only changes what a caller has in flight, and starts no     *)
(* Create.                                                                 *)
LEMMA CallOnlyInd ==
  ASSUME IndInv, NEW c \in Callers, UNCHANGED <<table, streams>>,
         NEW op \in {"none", "notify", "heartbeat", "delete"},
         NEW j \in Jobs \cup {NoJob}, NEW fin \in BOOLEAN,
         NEW a \in Age \cup {Null},
         op # "none" => j \in Jobs,
         op = "heartbeat" => a \in 0 .. Stall,
         call' = [call EXCEPT ![c] = InFlight(op, j, fin, a)]
  PROVE  IndInv'
<1> USE JobsAssumption DEF IndInv, table, streams
<1>1. TypeOK'
  BY DEF TypeOK, InFlight
<1>2. \A l \in Listeners, k \in Jobs : Held(l, k)' = Held(l, k)
  BY DEF Held
<1>3. SnapshotTrue' /\ StampTaken' /\ RowsGone'
  BY DEF SnapshotTrue, InTx, StampTaken, RowsGone
<1>4. CallsWellFormed'
  BY DEF CallsWellFormed, TypeOK, InFlight
<1>5. \A d \in Callers, k \in Jobs : Creates(d, k)' => Creates(d, k)
  BY DEF Creates, TypeOK, InFlight
<1>6. IdsFresh'
  BY <1>2, <1>5 DEF IdsFresh
<1>7. LeaseCovers' /\ OneFreshHolder'
  BY <1>2 DEF LeaseCovers, OneFreshHolder
<1> QED
  BY <1>1, <1>3, <1>4, <1>6, <1>7

(* The notification of Create changes nothing else (server.go:103-114). *)
LEMMA CreateNotifyInd ==
  ASSUME IndInv, NEW c \in Callers, CreateNotify(c)
  PROVE  IndInv'
BY CallOnlyInd DEF CreateNotify, Idle

(* A call that dies leaves the table as it is. *)
LEMMA CallDiesInd ==
  ASSUME IndInv, NEW c \in Callers, CallDies(c)
  PROVE  IndInv'
BY CallOnlyInd DEF CallDies, Idle

(* Heartbeat looks for its row (server.go:250-288). *)
LEMMA HeartbeatGetInd ==
  ASSUME IndInv, NEW c \in Callers, NEW j \in Jobs, NEW fin \in BOOLEAN,
         HeartbeatGet(c, j, fin)
  PROVE  IndInv'
<1>1. 0 \in Age /\ 0 \in 0 .. Stall
  BY JobsAssumption DEF Age
<1> QED
  BY <1>1, CallOnlyInd DEF HeartbeatGet

(* Delete looks for its row (server.go:359-388). *)
LEMMA DeleteGetInd ==
  ASSUME IndInv, NEW c \in Callers, NEW j \in Jobs, DeleteGet(c, j)
  PROVE  IndInv'
BY CallOnlyInd DEF DeleteGet

(* A copy that a client holds has an age. *)
LEMMA HeldAge ==
  ASSUME IndInv, NEW l \in Listeners, NEW j \in Jobs, NEW d \in Held(l, j)
  PROVE  d \in Age
BY JobsAssumption DEF IndInv, TypeOK, StampTaken, Held, Age, Null

(* The INSERT of Create (server.go:86-101). *)
LEMMA CreateInsertInd ==
  ASSUME IndInv, NEW c \in Callers, CreateInsert(c)
  PROVE  IndInv'
<1> USE JobsAssumption DEF IndInv, CreateInsert, streams
<1> DEFINE j == call[c].job
<1>1. j \in Jobs /\ Creates(c, j)
  BY DEF CallsWellFormed, Creates
<1>2. TypeOK'
  BY <1>1 DEF TypeOK, InFlight
<1>3. \A l \in Listeners, k \in Jobs : Held(l, k)' = Held(l, k)
  BY DEF Held
<1>4. SnapshotTrue' /\ StampTaken' /\ RowsGone'
  BY DEF SnapshotTrue, InTx, StampTaken, RowsGone
<1>5. CallsWellFormed'
  BY <1>1 DEF CallsWellFormed, TypeOK, InFlight
<1>6. \A l \in Listeners : Held(l, j) = {}
  BY <1>1 DEF IdsFresh
<1>7. IdsFresh'
  <2>1. \A d \in Callers, k \in Jobs : Creates(d, k)' <=> d # c /\ Creates(d, k)
    BY DEF Creates, TypeOK, InFlight
  <2>2. created[j] # 0 /\ \A d \in Callers : Creates(d, j) => d = c
    BY <1>1 DEF IdsFresh
  <2> QED
    BY <1>3, <2>1, <2>2 DEF IdsFresh
<1>8. LeaseCovers'
  <2> SUFFICES ASSUME NEW l \in Listeners, NEW k \in Jobs, NEW d \in Held(l, k), k \in stored'
               PROVE  started[k] # Null /\ updated[k] # Null /\ updated[k] <= d + Stall
    BY <1>3 DEF LeaseCovers
  <2>1. k \in stored
    BY <1>6
  <2> QED
    BY <2>1 DEF LeaseCovers
<1>9. OneFreshHolder'
  BY <1>3 DEF OneFreshHolder
<1> QED
  BY <1>2, <1>4, <1>5, <1>7, <1>8, <1>9

(* The UPDATE of Heartbeat (server.go:290-308): it may set updated_at back. *)
LEMMA HeartbeatUpdateInd ==
  ASSUME IndInv, NEW c \in Callers, HeartbeatUpdate(c)
  PROVE  IndInv'
<1> USE JobsAssumption DEF IndInv, HeartbeatUpdate
<1> DEFINE j == call[c].job
<1>1. j \in Jobs /\ call[c].age \in 0 .. Stall
  BY DEF CallsWellFormed
<1>2. TypeOK'
  <2>1. call[c].age \in Age \cup {Null}
    BY <1>1 DEF Age
  <2>2. overtaken' \subseteq Listeners
    BY DEF TypeOK, Overtake
  <2>3. updated' \in [Jobs -> Age \cup {Null}]
    BY <1>1, <2>1 DEF TypeOK
  <2>4. finished' \subseteq stored
    BY DEF TypeOK
  <2>5. call' \in [Callers ->
               [op: {"none", "create", "notify", "heartbeat", "delete"},
                job: Jobs \cup {NoJob}, fin: BOOLEAN, age: Age \cup {Null}]]
    BY DEF TypeOK, Idle, InFlight
  <2>6. UNCHANGED <<stored, created, started, pc, txJob, txNow, rivalled, inbox>>
    OBVIOUS
  <2> HIDE DEF HeartbeatUpdate
  <2> QED
    BY <2>2, <2>3, <2>4, <2>5, <2>6 DEF TypeOK
<1>3. \A l \in Listeners, k \in Jobs : Held(l, k)' = Held(l, k)
  BY DEF Held
<1>4. SnapshotTrue'
  BY <1>1 DEF SnapshotTrue, InTx, Overtake, TypeOK
<1>5. StampTaken' /\ RowsGone'
  BY <1>1 DEF StampTaken, RowsGone, TypeOK
<1>6. CallsWellFormed'
  BY DEF CallsWellFormed, TypeOK, Idle, InFlight
<1>7. IdsFresh'
  <2>1. \A d \in Callers, k \in Jobs : Creates(d, k)' => Creates(d, k)
    BY DEF Creates, TypeOK, Idle, InFlight
  <2> QED
    BY <1>3, <2>1 DEF IdsFresh
<1>8. LeaseCovers'
  <2> SUFFICES ASSUME NEW l \in Listeners, NEW k \in Jobs, NEW d \in Held(l, k), k \in stored
               PROVE  started[k] # Null /\ updated'[k] # Null /\ updated'[k] <= d + Stall
    BY <1>3 DEF LeaseCovers
  <2>1. d \in Age /\ started[k] # Null /\ updated[k] # Null /\ updated[k] <= d + Stall
    BY HeldAge DEF LeaseCovers
  <2> QED
    BY <1>1, <2>1 DEF TypeOK, Age, Null
<1>9. OneFreshHolder'
  BY <1>3 DEF OneFreshHolder
<1> QED
  BY <1>2, <1>4, <1>5, <1>6, <1>7, <1>8, <1>9

(* The DELETE of Delete (server.go:390-399). *)
LEMMA DeleteRowInd ==
  ASSUME IndInv, NEW c \in Callers, DeleteRow(c)
  PROVE  IndInv'
<1> USE JobsAssumption DEF IndInv, DeleteRow
<1> DEFINE j == call[c].job
<1>1. j \in Jobs
  BY DEF CallsWellFormed
<1>2. TypeOK'
  BY <1>1 DEF TypeOK, Idle, InFlight, Overtake, Age, Null
<1>3. \A l \in Listeners, k \in Jobs : Held(l, k)' = Held(l, k)
  BY DEF Held
<1>4. SnapshotTrue'
  BY <1>1 DEF SnapshotTrue, InTx, Overtake, TypeOK
<1>5. StampTaken' /\ RowsGone'
  BY <1>1 DEF StampTaken, RowsGone, TypeOK
<1>6. CallsWellFormed'
  BY DEF CallsWellFormed, TypeOK, Idle, InFlight
<1>7. IdsFresh'
  <2>1. \A d \in Callers, k \in Jobs : Creates(d, k)' => Creates(d, k)
    BY DEF Creates, TypeOK, Idle, InFlight
  <2> QED
    BY <1>3, <2>1 DEF IdsFresh
<1>8. LeaseCovers' /\ OneFreshHolder'
  BY <1>1, <1>3 DEF LeaseCovers, OneFreshHolder, TypeOK
<1> QED
  BY <1>2, <1>4, <1>5, <1>6, <1>7, <1>8

-----------------------------------------------------------------------------
(* The streams *)

(* A step that leaves the table and the calls alone and makes no copy.     *)
LEMMA NoNewCopyInd ==
  ASSUME IndInv, UNCHANGED <<table, call>>,
         \A l \in Listeners, j \in Jobs : Held(l, j)' \subseteq Held(l, j)
  PROVE  CallsWellFormed' /\ IdsFresh' /\ RowsGone' /\ LeaseCovers' /\ OneFreshHolder'
<1> USE DEF IndInv, table
<1>1. CallsWellFormed' /\ RowsGone'
  BY DEF CallsWellFormed, RowsGone
<1>2. \A c \in Callers, j \in Jobs : Creates(c, j)' = Creates(c, j)
  BY DEF Creates
<1>3. IdsFresh'
  BY <1>2 DEF IdsFresh
<1>4. LeaseCovers' /\ OneFreshHolder'
  BY DEF LeaseCovers, OneFreshHolder
<1> QED
  BY <1>1, <1>3, <1>4

(* A stream starts (server.go:117-133). *)
LEMMA ListenInd ==
  ASSUME IndInv, NEW l \in Listeners, Listen(l)
  PROVE  IndInv'
<1> USE DEF IndInv, Listen, table
<1>1. \A m \in Listeners, j \in Jobs : Held(m, j)' \subseteq Held(m, j)
  BY DEF Held, TypeOK
<1>2. TypeOK' /\ SnapshotTrue' /\ StampTaken'
  BY DEF TypeOK, SnapshotTrue, InTx, StampTaken
<1> QED
  BY <1>1, <1>2, NoNewCopyInd

(* The SELECT of Listen takes a true snapshot (server.go:138-176). *)
LEMMA ListenSelectInd ==
  ASSUME IndInv, NEW l \in Listeners, ListenSelect(l)
  PROVE  IndInv'
<1> USE DEF IndInv, ListenSelect, table
<1>1. PICK j \in Earliest(Due(ListensOn[l])) : txJob' = [txJob EXCEPT ![l] = j]
  OBVIOUS
<1>2. j \in Jobs /\ j \in stored \ finished /\ (started[j] = Null \/ updated[j] > Deadline)
  BY <1>1 DEF Earliest, Due, TypeOK
<1>3. \A m \in Listeners, k \in Jobs : Held(m, k)' \subseteq Held(m, k)
  BY <1>1 DEF Held, TypeOK
<1>4. TypeOK' /\ StampTaken'
  BY <1>1, <1>2 DEF TypeOK, StampTaken
<1>5. SnapshotTrue'
  BY <1>1, <1>2 DEF TypeOK, SnapshotTrue, InTx
<1> QED
  BY <1>3, <1>4, <1>5, NoNewCopyInd

(* Listen takes its timestamp (server.go:178-183). *)
LEMMA ListenStampInd ==
  ASSUME IndInv, NEW l \in Listeners, ListenStamp(l)
  PROVE  IndInv'
<1> USE JobsAssumption DEF IndInv, ListenStamp, table
<1>1. \A m \in Listeners, j \in Jobs : Held(m, j)' \subseteq Held(m, j)
  BY DEF Held, TypeOK
<1>2. TypeOK' /\ StampTaken'
  BY DEF TypeOK, StampTaken, Age
<1>3. SnapshotTrue'
  BY DEF TypeOK, SnapshotTrue, InTx
<1> QED
  BY <1>1, <1>2, <1>3, NoNewCopyInd

(* A handler leaves its transaction, or its stream ends. *)
LEMMA LeaveTxInd ==
  ASSUME IndInv, NEW l \in Listeners, NEW to \in {"off", "wait"}, LeaveTx(l, to),
         UNCHANGED <<table, inbox, call>>
  PROVE  IndInv'
<1> USE DEF IndInv, LeaveTx, table
<1>1. \A m \in Listeners, j \in Jobs : Held(m, j)' \subseteq Held(m, j)
  BY DEF Held, TypeOK
<1>2. TypeOK' /\ StampTaken' /\ SnapshotTrue'
  BY DEF TypeOK, StampTaken, SnapshotTrue, InTx, Null
<1> QED
  BY <1>1, <1>2, NoNewCopyInd

(* The copy goes from the handler to the client (server.go:204-212). *)
LEMMA ListenSendInd ==
  ASSUME IndInv, NEW l \in Listeners, ListenSend(l)
  PROVE  IndInv'
<1> USE JobsAssumption DEF IndInv, ListenSend, LeaveTx, table
<1>1. txJob[l] \in Jobs /\ txNow[l] \in Age
  BY DEF StampTaken
<1>2. \A m \in Listeners, j \in Jobs : Held(m, j)' \subseteq Held(m, j)
  BY <1>1 DEF Held, TypeOK
<1>3. TypeOK' /\ StampTaken' /\ SnapshotTrue'
  BY <1>1 DEF TypeOK, StampTaken, SnapshotTrue, InTx, Null
<1> QED
  BY <1>2, <1>3, NoNewCopyInd

(* A client drops copies. *)
LEMMA DropInd ==
  ASSUME IndInv, NEW l \in Listeners, NEW S \in SUBSET Jobs, Drop(l, S)
  PROVE  IndInv'
<1> USE DEF IndInv, Drop, table
<1>1. inbox' \in [Listeners -> [Jobs -> Age \cup {Null}]]
  BY DEF TypeOK
<1>2. \A m \in Listeners, k \in Jobs : Held(m, k)' \subseteq Held(m, k)
  BY DEF Held, TypeOK
<1>3. TypeOK' /\ StampTaken' /\ SnapshotTrue'
  BY <1>1 DEF TypeOK, StampTaken, SnapshotTrue, InTx
<1> QED
  BY <1>2, <1>3, NoNewCopyInd

(* A commit elsewhere touches nothing but the suspicion. *)
LEMMA OtherQueueInd ==
  ASSUME IndInv, OtherQueueCommits
  PROVE  IndInv'
<1> USE DEF IndInv, OtherQueueCommits, table
<1>1. \A m \in Listeners, k \in Jobs : Held(m, k)' \subseteq Held(m, k)
  BY DEF Held
<1>2. TypeOK' /\ StampTaken' /\ SnapshotTrue'
  BY DEF TypeOK, StampTaken, SnapshotTrue, InTx
<1> QED
  BY <1>1, <1>2, NoNewCopyInd

(* The commit of Listen (server.go:184-192): all older copies are past the *)
(* deadline, because the snapshot was not overtaken.                       *)
LEMMA ListenCommitInd ==
  ASSUME IndInv, NEW l \in Listeners, ListenCommit(l)
  PROVE  IndInv'
<1> USE JobsAssumption DEF IndInv, ListenCommit, CanCommit
<1> DEFINE j == txJob[l]
<1>1. /\ j \in stored \ finished /\ j \in Jobs /\ txNow[l] \in Age
      /\ started[j] = Null \/ updated[j] > Deadline
  BY DEF SnapshotTrue, InTx, StampTaken, TypeOK
<1>2. TypeOK'
  BY <1>1 DEF TypeOK, Overtake
<1>3. /\ Held(l, j)' = Held(l, j) \cup {txNow[l]}
      /\ \A m \in Listeners, k \in Jobs : m # l \/ k # j => Held(m, k)' = Held(m, k)
  BY DEF Held, TypeOK
<1>4. SnapshotTrue'
  BY <1>1 DEF SnapshotTrue, InTx, Overtake, TypeOK
<1>5. StampTaken' /\ RowsGone'
  BY <1>1 DEF StampTaken, RowsGone, TypeOK
<1>6. CallsWellFormed'
  BY DEF CallsWellFormed
<1>7. IdsFresh'
  <2>1. \A d \in Callers, k \in Jobs : Creates(d, k)' = Creates(d, k)
    BY DEF Creates
  <2>2. created[j] # 0 /\ ~ \E d \in Callers : Creates(d, j)
    BY <1>1 DEF IdsFresh
  <2> QED
    BY <1>3, <2>1, <2>2 DEF IdsFresh
<1>8. \A m \in Listeners : \A d \in Held(m, j) : d \in Age /\ d > Deadline - Stall
  <2> SUFFICES ASSUME NEW m \in Listeners, NEW d \in Held(m, j)
               PROVE  d \in Age /\ d > Deadline - Stall
    OBVIOUS
  <2>1. d \in Age
    BY <1>1, HeldAge
  <2>2. updated[j] > Deadline /\ updated[j] <= d + Stall /\ updated[j] \in Int
    BY <1>1 DEF LeaseCovers, TypeOK, Age, Null
  <2> QED
    BY <2>1, <2>2 DEF Age
<1>9. LeaseCovers'
  <2> SUFFICES ASSUME NEW m \in Listeners, NEW k \in Jobs, NEW d \in Held(m, k)', k \in stored
               PROVE  started'[k] # Null /\ updated'[k] # Null /\ updated'[k] <= d + Stall
    BY DEF LeaseCovers
  <2>1. CASE k = j
    <3>1. d \in Age /\ (d = txNow[l] \/ d > Deadline - Stall)
      BY <1>1, <1>3, <1>8, <2>1
    <3>2. updated'[k] = txNow[l] /\ started'[k] = txNow[l]
      BY <1>1, <2>1 DEF TypeOK
    <3> QED
      BY <1>1, <3>1, <3>2, SMTT(30) DEF Age, Null
  <2>2. CASE k # j
    <3>1. d \in Held(m, k) /\ updated'[k] = updated[k] /\ (started[k] # Null => started'[k] # Null)
      BY <1>1, <1>3, <2>2 DEF TypeOK
    <3> QED
      BY <3>1 DEF LeaseCovers
  <2> QED
    BY <2>1, <2>2
<1>10. OneFreshHolder'
  <2> SUFFICES ASSUME NEW k \in Jobs, NEW m \in Listeners, NEW n \in Listeners,
                      NEW a \in Held(m, k)', NEW b \in Held(n, k)',
                      a <= Deadline - Stall, b <= Deadline - Stall
               PROVE  m = n
    BY DEF OneFreshHolder
  <2>1. CASE k = j
    <3>1. \A o \in Listeners : \A d \in Held(o, j)' :
            d \in Age /\ (o = l \/ d > Deadline - Stall)
      BY <1>1, <1>3, <1>8
    <3> QED
      BY <2>1, <3>1 DEF Age
  <2>2. CASE k # j
    BY <1>3, <2>2 DEF OneFreshHolder
  <2> QED
    BY <2>1, <2>2
<1> QED
  BY <1>2, <1>4, <1>5, <1>6, <1>7, <1>9, <1>10

(* Time passes: copies, leases and stamps age alike. *)
LEMMA TickInd ==
  ASSUME IndInv, Tick
  PROVE  IndInv'
<1> USE JobsAssumption DEF IndInv, Tick
<1>1. TypeOK'
  <2>1. /\ started' \in [Jobs -> Age \cup {Null}]
        /\ updated' \in [Jobs -> Age \cup {Null}]
    BY OlderAge DEF TypeOK
  <2>2. txNow' \in [Listeners -> Age \cup {Null}]
    BY OlderAge DEF TypeOK
  <2>3. inbox' \in [Listeners -> [Jobs -> Age \cup {Null}]]
    <3>1. \A l \in Listeners, j \in Jobs : Older(inbox[l][j]) \in Age \cup {Null}
      BY OlderAge DEF TypeOK
    <3> QED
      BY <3>1
  <2>4. \A c \in Callers : Older(call[c].age) \in Age \cup {Null}
    BY OlderAge DEF TypeOK
  <2>5. call' \in [Callers ->
               [op: {"none", "create", "notify", "heartbeat", "delete"},
                job: Jobs \cup {NoJob}, fin: BOOLEAN, age: Age \cup {Null}]]
    BY <2>4 DEF TypeOK, InFlight
  <2> QED
    BY <2>1, <2>2, <2>3, <2>5 DEF TypeOK
<1>2. \A l \in Listeners, k \in Jobs : Held(l, k)' = {Older(d) : d \in Held(l, k)}
  <2> SUFFICES ASSUME NEW l \in Listeners, NEW k \in Jobs
               PROVE  Held(l, k)' = {Older(d) : d \in Held(l, k)}
    OBVIOUS
  <2>1. inbox'[l][k] = Older(inbox[l][k]) /\ txNow'[l] = Older(txNow[l])
    OBVIOUS
  <2>2. inbox'[l][k] = Null <=> inbox[l][k] = Null
    BY <2>1, OlderAge DEF TypeOK
  <2>3. {inbox'[l][k]} \ {Null} = {Older(d) : d \in {inbox[l][k]} \ {Null}}
    BY <2>1, <2>2
  <2> DEFINE T == {m \in {l} : pc[m] = "send" /\ txJob[m] = k}
  <2>4. T' = T /\ {txNow'[m] : m \in T} = {Older(d) : d \in {txNow[m] : m \in T}}
    OBVIOUS
  <2>5. Held(l, k)' = ({inbox'[l][k]} \ {Null}) \cup {txNow'[m] : m \in T}
    BY <2>4 DEF Held
  <2>6. Held(l, k) = ({inbox[l][k]} \ {Null}) \cup {txNow[m] : m \in T}
    BY DEF Held
  <2> HIDE DEF T, Tick
  <2> QED
    BY <2>3, <2>4, <2>5, <2>6
<1>3. \A l \in Listeners, k \in Jobs : \A d \in Held(l, k) :
        d \in Age /\ Older(d) \in Age /\ d <= Older(d) /\ Older(d) <= d + 1
  BY HeldAge, OlderAge
<1>4. SnapshotTrue'
  <2> SUFFICES ASSUME NEW l \in Listeners, pc[l] \in {"selected", "stamped"}, l \notin overtaken
               PROVE  /\ txJob[l] \in stored \ finished
                      /\ started'[txJob[l]] = Null \/ updated'[txJob[l]] > Deadline
    BY DEF SnapshotTrue, InTx
  <2>1. txJob[l] \in stored \ finished
    BY DEF SnapshotTrue, InTx
  <2>2. txJob[l] \in Jobs
    BY DEF StampTaken
  <2>3. started[txJob[l]] = Null => started'[txJob[l]] = Null
    BY <2>2, OlderAge DEF TypeOK
  <2>4. updated[txJob[l]] > Deadline => updated'[txJob[l]] > Deadline
    BY <2>2, OlderAge DEF TypeOK
  <2>5. started[txJob[l]] = Null \/ updated[txJob[l]] > Deadline
    BY DEF SnapshotTrue, InTx
  <2> QED
    BY <2>1, <2>3, <2>4, <2>5
<1>5. StampTaken' /\ RowsGone'
  BY OlderAge DEF StampTaken, RowsGone, TypeOK, Older
<1>6. CallsWellFormed'
  <2>1. \A c \in Callers : /\ call'[c].op = call[c].op
                          /\ call'[c].job = call[c].job
                          /\ call'[c].age = Older(call[c].age)
    BY DEF InFlight
  <2>2. \A c \in Callers : call[c].op = "heartbeat" => Older(call[c].age) \in 0 .. Stall
    BY DEF CallsWellFormed, Older
  <2> QED
    BY <2>1, <2>2 DEF CallsWellFormed
<1>7. IdsFresh'
  <2>1. \A c \in Callers, k \in Jobs : Creates(c, k)' = Creates(c, k)
    BY DEF Creates, InFlight
  <2> QED
    BY <1>2, <2>1 DEF IdsFresh
<1>8. LeaseCovers'
  <2> SUFFICES ASSUME NEW l \in Listeners, NEW k \in Jobs, NEW d \in Held(l, k), k \in stored
               PROVE  started'[k] # Null /\ updated'[k] # Null /\ updated'[k] <= Older(d) + Stall
    BY <1>2 DEF LeaseCovers
  <2>1. started[k] # Null /\ updated[k] # Null /\ updated[k] <= d + Stall
    BY DEF LeaseCovers
  <2>2. updated[k] \in Age /\ d \in Age
    BY <1>3, <2>1 DEF TypeOK
  <2>3. updated'[k] = Older(updated[k])
    OBVIOUS
  <2>4. started'[k] # Null
    BY <2>1, OlderAge DEF TypeOK
  <2> HIDE DEF Tick
  <2> QED
    BY <2>1, <2>2, <2>3, <2>4 DEF Older, Age, Null
<1>9. OneFreshHolder'
  <2> SUFFICES ASSUME NEW k \in Jobs, NEW m \in Listeners, NEW n \in Listeners,
                      NEW a \in Held(m, k), NEW b \in Held(n, k),
                      Older(a) <= Deadline - Stall, Older(b) <= Deadline - Stall
               PROVE  m = n
    BY <1>2 DEF OneFreshHolder
  <2>1. a <= Deadline - Stall /\ b <= Deadline - Stall
    BY <1>3 DEF Age
  <2> QED
    BY <2>1 DEF OneFreshHolder
<1> QED
  BY <1>1, <1>4, <1>5, <1>6, <1>7, <1>8, <1>9

-----------------------------------------------------------------------------
(* The invariant *)

(* Every step keeps the invariant. *)
LEMMA NextInd == IndInv /\ [Next]_vars => IndInv'
<1> SUFFICES ASSUME IndInv, [Next]_vars PROVE IndInv'
  OBVIOUS
<1>1. ASSUME NEW c \in Callers, CallStep(c) PROVE IndInv'
  BY <1>1, CreateCallInd, CreateInsertInd, CreateNotifyInd, HeartbeatGetInd,
     HeartbeatUpdateInd, DeleteGetInd, DeleteRowInd, CallDiesInd DEF CallStep
<1>2. ASSUME NEW l \in Listeners, ListenStep(l) PROVE IndInv'
  <2>1. CASE ListenConflict(l)
    BY <2>1, LeaveTxInd DEF ListenConflict
  <2>2. CASE StreamBreaks(l)
    BY <2>2, LeaveTxInd DEF StreamBreaks
  <2> QED
    BY <1>2, <2>1, <2>2, ListenInd, ListenSelectInd, ListenStampInd, ListenCommitInd,
       ListenSendInd, DropInd DEF ListenStep
<1>3. CASE Tick \/ OtherQueueCommits
  BY <1>3, TickInd, OtherQueueInd
<1>4. CASE UNCHANGED vars
  <2>1. CallsWellFormed' /\ IdsFresh' /\ RowsGone' /\ LeaseCovers' /\ OneFreshHolder'
    <3>1. \A l \in Listeners, j \in Jobs : Held(l, j)' \subseteq Held(l, j)
      BY <1>4 DEF vars, Held
    <3>2. UNCHANGED <<table, call>>
      BY <1>4 DEF vars, table
    <3> QED
      BY <3>1, <3>2, NoNewCopyInd
  <2>2. TypeOK' /\ SnapshotTrue' /\ StampTaken'
    BY <1>4 DEF vars, IndInv, TypeOK, SnapshotTrue, InTx, StampTaken
  <2> QED
    BY <2>1, <2>2 DEF IndInv
<1> QED
  BY <1>1, <1>2, <1>3, <1>4 DEF Next

(* The inductive invariant holds in every reachable state. *)
THEOREM Inductive == Spec => []IndInv
<1> QED
  BY InitInd, NextInd, PTL DEF Spec

(* Every variable keeps its type, whatever the clients do. *)
THEOREM TypeCorrect == Spec => []TypeOK
<1>1. IndInv => TypeOK
  BY DEF IndInv
<1> QED
  BY <1>1, Inductive, PTL

(* No two clients hold copies of one job that were both started less than  *)
(* Deadline - Stall ago (server.go:152-191, 227-232).                      *)
THEOREM OneFresh == Spec => []OneFreshHolder
<1>1. IndInv => OneFreshHolder
  BY DEF IndInv
<1> QED
  BY <1>1, Inductive, PTL

(* A step that adds no row, and after which the caller runs no Create,     *)
(* brings no deleted id back.                                              *)
LEMMA NoCreateKeepsGone ==
  ASSUME IndInv, NEW c \in Callers, NEW j \in Jobs, Gone(j), NEW x, x.op # "create",
         call' = [call EXCEPT ![c] = x], created' = created, stored' \subseteq stored
  PROVE  Gone(j)'
<1>1. \A d \in Callers : call'[d] = IF d = c THEN x ELSE call[d]
  BY DEF IndInv, TypeOK
<1> QED
  BY <1>1 DEF Gone, Creates

(* A step of a call brings no deleted id back. *)
LEMMA CallKeepsGone ==
  ASSUME IndInv, NEW c \in Callers, CallStep(c), NEW j \in Jobs, Gone(j)
  PROVE  Gone(j)'
<1> USE JobsAssumption DEF IndInv, Gone, Creates
<1>1. ASSUME NEW k \in Jobs, CreateCall(c, k) PROVE Gone(j)'
  <2>1. k # j
    BY <1>1 DEF CreateCall
  <2> QED
    BY <1>1, <2>1 DEF CreateCall, TypeOK, InFlight, Idle
<1>2. CASE CreateInsert(c)
  <2>1. call[c].job # j
    BY <1>2 DEF CreateInsert
  <2> QED
    BY <1>2, <2>1 DEF CreateInsert, TypeOK, InFlight
<1>3. ASSUME NEW k \in Jobs, DeleteGet(c, k) PROVE Gone(j)'
  <2>1. InFlight("delete", k, FALSE, Null).op # "create"
    BY DEF InFlight
  <2> QED
    BY <1>3, <2>1, NoCreateKeepsGone DEF DeleteGet, table
<1>4. ASSUME NEW k \in Jobs, NEW fin \in BOOLEAN, HeartbeatGet(c, k, fin) PROVE Gone(j)'
  <2>1. InFlight("heartbeat", k, fin, 0).op # "create"
    BY DEF InFlight
  <2> QED
    BY <1>4, <2>1, NoCreateKeepsGone DEF HeartbeatGet, table
<1>5. CASE CreateNotify(c) \/ CallDies(c) \/ HeartbeatUpdate(c) \/ DeleteRow(c)
  <2>1. created' = created /\ stored' \subseteq stored /\ call' = [call EXCEPT ![c] = Idle]
    BY <1>5 DEF CreateNotify, CallDies, HeartbeatUpdate, DeleteRow, table
  <2>2. Idle.op # "create"
    BY DEF Idle, InFlight
  <2> QED
    BY <2>1, <2>2, NoCreateKeepsGone
<1> QED
  BY <1>1, <1>2, <1>3, <1>4, <1>5 DEF CallStep

(* A deleted job stays deleted, whatever calls and transactions were under *)
(* way when it was (server.go:151-192, 250-308, 359-399).                  *)
THEOREM NeverBack == Spec => DeletedForGood
<1>1. IndInv /\ [Next]_vars => [\A j \in Jobs : Gone(j) => Gone(j)']_vars
  <2> SUFFICES ASSUME IndInv, Next, NEW j \in Jobs, Gone(j) PROVE Gone(j)'
    OBVIOUS
  <2>1. ASSUME NEW l \in Listeners, ListenStep(l) PROVE UNCHANGED <<created, stored, call>>
    BY <2>1 DEF ListenStep, Listen, ListenSelect, ListenStamp, ListenCommit, ListenConflict,
                ListenSend, StreamBreaks, Drop, table
  <2>2. OtherQueueCommits => UNCHANGED <<created, stored, call>>
    BY DEF OtherQueueCommits, table
  <2>3. CASE Tick
    BY <2>3 DEF Tick, Gone, Creates, InFlight, IndInv, TypeOK
  <2> QED
    BY <2>1, <2>2, <2>3, CallKeepsGone DEF Next, Gone, Creates
<1> QED
  BY <1>1, Inductive, PTL DEF Spec, DeletedForGood

-----------------------------------------------------------------------------
(* The refinement *)

(* An empty table grants no lease. *)
LEMMA InitRefines == Init => Lease!Init
BY DEF Init, Lease!Init, JobPhase, Null, Lease!Null

(* A step that leaves the table alone is invisible. *)
LEMMA Invisible == UNCHANGED table => UNCHANGED Lease!leaseVars
BY DEF table, Lease!leaseVars, JobPhase

(* The INSERT of Create is Add. *)
LEMMA CreateInsertRefines ==
  ASSUME IndInv, NEW c \in Callers, CreateInsert(c)
  PROVE  Lease!Next
<1> DEFINE j == call[c].job
<1>1. j \in Jobs /\ Creates(c, j)
  BY DEF IndInv, CallsWellFormed, CreateInsert, Creates
<1>2. j \notin stored /\ started[j] = Null /\ j \notin finished
  BY <1>1 DEF IndInv, IdsFresh, RowsGone, TypeOK
<1>3. JobPhase' = [JobPhase EXCEPT ![j] = "queued"]
  BY <1>1, <1>2 DEF CreateInsert, JobPhase
<1>4. Lease!Add(j)
  BY <1>1, <1>2, <1>3 DEF Lease!Add, JobPhase, CreateInsert
<1> QED
  BY <1>1, <1>4 DEF Lease!Next

(* The UPDATE of Heartbeat is Renew, or nothing if the row is gone. *)
LEMMA HeartbeatUpdateRefines ==
  ASSUME IndInv, NEW c \in Callers, HeartbeatUpdate(c)
  PROVE  Lease!Next \/ UNCHANGED Lease!leaseVars
<1> DEFINE j == call[c].job
<1>1. j \in Jobs /\ call[c].age \in 0 .. Stall
  BY DEF IndInv, CallsWellFormed, HeartbeatUpdate
<1>2. CASE j \in stored
  <2>1. JobPhase' = JobPhase \/ JobPhase' = [JobPhase EXCEPT ![j] = "finished"]
    <3>1. CASE call[c].fin
      BY <1>1, <1>2, <3>1 DEF HeartbeatUpdate, JobPhase
    <3>2. CASE ~ call[c].fin
      BY <1>1, <1>2, <3>2 DEF HeartbeatUpdate, JobPhase
    <3> QED
      BY <3>1, <3>2
  <2>2. /\ JobPhase[j] # "absent" /\ started' = started
        /\ updated' = [updated EXCEPT ![j] = call[c].age]
    BY <1>1, <1>2 DEF JobPhase, HeartbeatUpdate
  <2>3. Lease!Renew(j)
    BY <1>1, <2>1, <2>2 DEF Lease!Renew
  <2> QED
    BY <1>1, <2>3 DEF Lease!Next
<1>3. CASE j \notin stored
  BY <1>3 DEF HeartbeatUpdate, Lease!leaseVars, JobPhase
<1> QED
  BY <1>2, <1>3

(* The DELETE is Remove, or nothing if the row is gone. *)
LEMMA DeleteRowRefines ==
  ASSUME IndInv, NEW c \in Callers, DeleteRow(c)
  PROVE  Lease!Next \/ UNCHANGED Lease!leaseVars
<1> DEFINE j == call[c].job
<1>1. j \in Jobs
  BY DEF IndInv, CallsWellFormed, DeleteRow
<1>2. CASE j \in stored
  <2>1. JobPhase' = [JobPhase EXCEPT ![j] = "absent"]
    <3>1. \A k \in Jobs : k # j => started'[k] = started[k]
      BY DEF DeleteRow, IndInv, TypeOK
    <3>2. stored' = stored \ {j} /\ finished' = finished \ {j}
      BY DEF DeleteRow
    <3> QED
      BY <1>1, <3>1, <3>2 DEF JobPhase
  <2>2. JobPhase[j] # "absent"
    BY <1>1, <1>2 DEF JobPhase
  <2>3. Lease!Remove(j)
    BY <1>1, <2>1, <2>2 DEF DeleteRow, Lease!Remove, Null, Lease!Null
  <2> QED
    BY <1>1, <2>3 DEF Lease!Next
<1>3. CASE j \notin stored
  <2>1. updated' = updated /\ started' = started
    BY <1>1, <1>3 DEF IndInv, RowsGone, TypeOK, DeleteRow
  <2>2. JobPhase' = JobPhase
    BY <1>1, <1>3 DEF IndInv, TypeOK, DeleteRow, JobPhase
  <2> QED
    BY <2>1, <2>2 DEF Lease!leaseVars
<1> QED
  BY <1>2, <1>3

(* A commit of Listen takes only a job that is free to take. *)
LEMMA ListenCommitRefines ==
  ASSUME IndInv, NEW l \in Listeners, ListenCommit(l)
  PROVE  Lease!Next
<1> DEFINE j == txJob[l]
<1>1. /\ j \in stored \ finished /\ j \in Jobs /\ txNow[l] \in Age
      /\ started[j] = Null \/ updated[j] > Deadline
  BY DEF IndInv, SnapshotTrue, InTx, StampTaken, TypeOK, ListenCommit, CanCommit
<1>2. JobPhase' = [JobPhase EXCEPT ![j] = "running"]
  <2>1. started' = [started EXCEPT ![j] = txNow[l]] /\ UNCHANGED <<stored, finished>>
    BY <1>1 DEF ListenCommit
  <2>2. \A k \in Jobs : started'[k] = IF k = j THEN txNow[l] ELSE started[k]
    BY <2>1 DEF IndInv, TypeOK
  <2>3. txNow[l] # Null
    BY <1>1 DEF Age, Null
  <2> QED
    BY <1>1, <2>1, <2>2, <2>3 DEF JobPhase
<1>3. Lease!Free(j)
  BY <1>1 DEF Lease!Free, JobPhase
<1>4. /\ updated' = [updated EXCEPT ![j] = txNow[l]] /\ txNow[l] \in Lease!Age
      /\ started' = [started EXCEPT ![j] = txNow[l]]
  BY <1>1 DEF ListenCommit, Age, Lease!Age
<1>5. Lease!Grant(j)
  BY <1>2, <1>3, <1>4 DEF Lease!Grant
<1> QED
  BY <1>1, <1>5 DEF Lease!Next

(* Time passes in both. *)
LEMMA TickRefines ==
  ASSUME IndInv, Tick
  PROVE  Lease!Next
<1>1. /\ updated' = [j \in Jobs |-> Lease!Older(updated[j])]
      /\ started' = [j \in Jobs |-> Lease!Older(started[j])]
  BY DEF Tick, Older, Lease!Older, Null, Lease!Null
<1>2. JobPhase' = JobPhase
  <2>1. \A j \in Jobs : started'[j] = Null <=> started[j] = Null
    BY OlderAge DEF Tick, IndInv, TypeOK
  <2> QED
    BY <2>1 DEF Tick, JobPhase
<1> QED
  BY <1>1, <1>2 DEF Lease!Next, Lease!Tick

(* Every step of the service is a step of JobLease or none. *)
LEMMA StepRefines == IndInv /\ [Next]_vars => [Lease!Next]_Lease!leaseVars
<1> SUFFICES ASSUME IndInv, [Next]_vars
             PROVE  Lease!Next \/ UNCHANGED Lease!leaseVars
  OBVIOUS
<1>1. ASSUME NEW c \in Callers, CallStep(c)
      PROVE  Lease!Next \/ UNCHANGED Lease!leaseVars
  <2>1. ASSUME NEW j \in Jobs, CreateCall(c, j) PROVE UNCHANGED Lease!leaseVars
    BY <2>1 DEF CreateCall, Lease!leaseVars, JobPhase
  <2>2. CreateNotify(c) \/ CallDies(c) => UNCHANGED table
    BY DEF CreateNotify, CallDies
  <2>3. \A j \in Jobs : DeleteGet(c, j) => UNCHANGED table
    BY DEF DeleteGet
  <2>4. \A j \in Jobs, fin \in BOOLEAN : HeartbeatGet(c, j, fin) => UNCHANGED table
    BY DEF HeartbeatGet
  <2> QED
    BY <1>1, <2>1, <2>2, <2>3, <2>4, Invisible, CreateInsertRefines,
       HeartbeatUpdateRefines, DeleteRowRefines DEF CallStep
<1>2. ASSUME NEW l \in Listeners, ListenStep(l)
      PROVE  Lease!Next \/ UNCHANGED Lease!leaseVars
  <2>1. ListenStep(l) => ListenCommit(l) \/ UNCHANGED table
    BY DEF ListenStep, Listen, ListenSelect, ListenStamp, ListenConflict, ListenSend,
           StreamBreaks, Drop
  <2> QED
    BY <1>2, <2>1, Invisible, ListenCommitRefines
<1>3. CASE Tick
  BY <1>3, TickRefines
<1>4. CASE OtherQueueCommits \/ UNCHANGED vars
  BY <1>4, Invisible DEF OtherQueueCommits, vars, table
<1> QED
  BY <1>1, <1>2, <1>3, <1>4 DEF Next

(* The table, read as leases, implements JobLease: a job changes hands     *)
(* only when its lease was given up for Deadline, and never once finished. *)
THEOREM Refinement == Spec => LeaseSpec
<1> QED
  BY InitRefines, StepRefines, Inductive, PTL DEF Spec, LeaseSpec, Lease!Spec

=============================================================================
