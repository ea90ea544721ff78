---------------------------- MODULE LocksProofs ----------------------------
(***************************************************************************)
(* Proofs about the locks service: one lock id is exclusive as long as its *)
(* holders renew in time, for every set of clients and every deadline.     *)
(***************************************************************************)
EXTENDS Locks, TLAPS

OneId    == \A k, m \in Ids : k = m
InTime   == Silence + Stall <= Deadline

(* Time keeps an age an age, and moves it by at most one. *)
LEMMA OlderAge ==
  ASSUME NEW a \in Age
  PROVE  Older(a) \in Age /\ a <= Older(a) /\ Older(a) <= a + 1
BY LocksAssumption DEF Older, Age

(* The types hold at the start. *)
LEMMA TypeInit == Init => TypeOK
BY LocksAssumption DEF Init, TypeOK, Age, Zero

(* Every step keeps the types. *)
LEMMA TypeNext == TypeOK /\ [Next]_vars => TypeOK'
<1> SUFFICES ASSUME TypeOK, [Next]_vars PROVE TypeOK'
  OBVIOUS
<1> USE LocksAssumption
<1>1. \A a \in 0 .. Stall : a \in Age
  BY DEF Age
<1>2. Zero \in Age
  BY DEF Age, Zero
<1>3. CASE Tick
  BY <1>3, OlderAge DEF Tick, TypeOK, tx
<1>4. ASSUME NEW c \in Clients, ClientStep(c) PROVE TypeOK'
  <2>1. ASSUME NEW k \in Ids, Lock(c, k) PROVE TypeOK'
    BY <2>1 DEF Lock, TypeOK, tx
  <2>2. CASE AquireSelect(c)
    BY <2>2 DEF AquireSelect, TypeOK, tx
  <2>3. CASE AquireCommit(c)
    <3>1. PICK a \in 0 .. Stall : since' = [since EXCEPT ![c] = a] /\
             \/ pc[c] = "missing" /\ rows' = rows \cup {want[c]}
                /\ age' = [age EXCEPT ![want[c]] = a] /\ overtaken' = overtaken
             \/ pc[c] = "expired" /\ rows' = rows /\ WriteAll(a) /\ Overtake(Clients \ {c})
      BY <2>3 DEF AquireCommit
    <3>2. want[c] \in Ids
      BY <2>3 DEF AquireCommit, InTx, TypeOK
    <3>3. rows' \subseteq Ids /\ age' \in [Ids -> Age] /\ overtaken' \subseteq Clients
      BY <1>1, <3>1, <3>2 DEF TypeOK, WriteAll, Overtake
    <3>4. rivalled' \subseteq Clients /\ UNCHANGED <<want, hold>> /\ pc' = [pc EXCEPT ![c] = "granted"]
      BY <2>3 DEF AquireCommit, TypeOK
    <3>5. since' \in [Clients -> Age]
      BY <1>1, <3>1 DEF TypeOK
    <3> QED
      BY <3>2, <3>3, <3>4, <3>5, LocksAssumption DEF TypeOK
  <2>4. CASE AquireRefused(c)
    BY <2>4 DEF AquireRefused, TypeOK, InTx
  <2>5. CASE TakeError(c)
    BY <2>5 DEF TakeError, Leave, TypeOK, tx
  <2>6. CASE AquireReturns(c)
    BY <2>6 DEF AquireReturns, TypeOK, tx
  <2>7. CASE AquireDies(c)
    BY <2>7 DEF AquireDies, Leave, TypeOK
  <2>8. CASE HoldCall(c)
    BY <2>8 DEF HoldCall, TypeOK, tx
  <2>9. CASE HoldUpdate(c)
    <3>1. age' \in [Ids -> Age] /\ since' \in [Clients -> Age]
      BY <1>1, <2>9 DEF HoldUpdate, WriteAll, TypeOK
    <3>2. overtaken' \subseteq Clients /\ hold' \subseteq Clients
      BY <2>9 DEF HoldUpdate, Overtake, TypeOK
    <3> QED
      BY <2>9, <3>1, <3>2 DEF HoldUpdate, TypeOK
  <2>10. CASE HoldFails(c)
    BY <2>10 DEF HoldFails, TypeOK, tx
  <2>11. CASE ContextEnds(c)
    BY <2>11 DEF ContextEnds, TypeOK, tx
  <2>12. CASE ReleaseUpdate(c)
    <3>1. age' \in [Ids -> Age] /\ overtaken' \subseteq Clients
      BY <1>2, <2>12 DEF ReleaseUpdate, WriteAll, Overtake, TypeOK
    <3> QED
      BY <2>12, <3>1 DEF ReleaseUpdate, TypeOK
  <2>13. CASE ReleaseNotify(c)
    BY <2>13 DEF ReleaseNotify, Leave, TypeOK, tx
  <2>14. CASE ReleaseFails(c)
    BY <2>14 DEF ReleaseFails, Leave, TypeOK, tx
  <2>15. CASE HolderDies(c)
    BY <2>15 DEF HolderDies, Leave, TypeOK, tx
  <2> QED
    BY <1>4, <2>1, <2>2, <2>3, <2>4, <2>5, <2>6, <2>7, <2>8, <2>9, <2>10, <2>11,
       <2>12, <2>13, <2>14, <2>15 DEF ClientStep
<1>5. CASE UNCHANGED vars
  BY <1>5 DEF vars, tx, TypeOK
<1> QED
  BY <1>3, <1>4, <1>5 DEF Next

(* Every variable keeps its type, with any number of ids and any timing. *)
THEOREM TypeCorrect == Spec => []TypeOK
BY TypeInit, TypeNext, PTL DEF Spec

-----------------------------------------------------------------------------
(* One id *)

(* The invariant holds at the start. *)
LEMMA OneIdInit == Init => IndInv
BY TypeInit DEF IndInv, LockCovers, SnapshotTrue, OneCounts, Counts, Init

(* The rows, the ages and the stamps stay, nobody starts to count as a     *)
(* holder, and nobody opens a takeover.                                    *)
LEMMA QuietStep ==
  ASSUME IndInv, TypeOK', UNCHANGED <<rows, age, since>>,
         \A c \in Clients : Counts(c)' => Counts(c) /\ want'[c] = want[c],
         \A c \in Clients : pc'[c] = "expired" /\ c \notin overtaken' =>
           pc[c] = "expired" /\ c \notin overtaken /\ want'[c] = want[c]
  PROVE  IndInv'
<1> USE DEF IndInv
<1>1. LockCovers'
  BY DEF LockCovers
<1>2. SnapshotTrue'
  BY DEF SnapshotTrue
<1>3. OneCounts'
  BY DEF OneCounts
<1> QED
  BY <1>1, <1>2, <1>3

(* The SELECT of Aquire takes a true snapshot (server.go:144-157). *)
LEMMA AquireSelectOne ==
  ASSUME IndInv, TypeOK', NEW c \in Clients, AquireSelect(c)
  PROVE  IndInv'
<1> USE DEF IndInv, AquireSelect, TypeOK
<1>1. LockCovers' /\ OneCounts'
  BY DEF LockCovers, OneCounts, Counts
<1>2. SnapshotTrue'
  BY DEF SnapshotTrue, tx
<1> QED
  BY <1>1, <1>2

(* The write of Aquire (server.go:158-178): nobody counts as the holder when *)
(* a snapshot that was not overtaken commits.                              *)
LEMMA AquireCommitOne ==
  ASSUME OneId, InTime, IndInv, TypeOK', NEW c \in Clients, AquireCommit(c)
  PROVE  IndInv'
<1> USE LocksAssumption
<1>1. PICK a \in 0 .. Stall :
        /\ since' = [since EXCEPT ![c] = a]
        /\ \/ /\ pc[c] = "missing"
              /\ rows' = rows \cup {want[c]}
              /\ age' = [age EXCEPT ![want[c]] = a]
              /\ overtaken' = overtaken
           \/ pc[c] = "expired" /\ rows' = rows /\ WriteAll(a) /\ Overtake(Clients \ {c})
  BY DEF AquireCommit
<1>2. /\ InTx(c) /\ CanCommit(c) /\ want' = want /\ pc' = [pc EXCEPT ![c] = "granted"]
      /\ want[c] \in Ids
  BY DEF AquireCommit, IndInv, TypeOK, InTx
<1>3. \A d \in Clients : Counts(d) => want[d] = want[c]
  BY <1>2 DEF OneId, IndInv, TypeOK, Counts
<1>4. \A d \in Clients : ~Counts(d)
  <2> SUFFICES ASSUME NEW d \in Clients, Counts(d) PROVE FALSE
    OBVIOUS
  <2>1. want[c] \in rows /\ age[want[c]] <= Silence + Stall /\ age[want[c]] \in Int
    BY <1>2, <1>3 DEF IndInv, LockCovers, TypeOK, Age
  <2>2. pc[c] = "expired" /\ c \notin overtaken
    BY <1>2, <2>1 DEF InTx, CanCommit
  <2>3. age[want[c]] > Deadline
    BY <2>2 DEF IndInv, SnapshotTrue
  <2> QED
    BY <2>1, <2>3 DEF InTime
<1>5. \A d \in Clients : Counts(d)' => d = c
  BY <1>2, <1>4 DEF Counts, IndInv, TypeOK
<1>6. want[c] \in rows' /\ age'[want[c]] = a /\ since'[c] = a
  <2>1. CASE pc[c] = "missing"
    BY <1>1, <1>2, <2>1 DEF IndInv, TypeOK
  <2>2. CASE pc[c] = "expired"
    <3>1. want[c] \in rows
      BY <1>2, <2>2 DEF IndInv, SnapshotTrue, CanCommit
    <3> QED
      BY <1>1, <1>2, <2>2, <3>1 DEF IndInv, TypeOK, WriteAll
  <2> QED
    BY <1>2, <2>1, <2>2 DEF InTx
<1>7. LockCovers'
  BY <1>2, <1>5, <1>6 DEF LockCovers
<1>8. SnapshotTrue'
  <2> SUFFICES ASSUME NEW d \in Clients, pc'[d] = "expired", d \notin overtaken' PROVE FALSE
    BY DEF SnapshotTrue
  <2>1. d # c /\ pc[d] = "expired" /\ want[d] \in Ids
    BY <1>2 DEF IndInv, TypeOK
  <2>2. CASE pc[c] = "missing"
    <3>1. d \notin overtaken /\ want[c] \notin rows
      BY <1>1, <1>2, <2>2 DEF CanCommit
    <3> QED
      BY <1>2, <2>1, <3>1 DEF IndInv, SnapshotTrue, OneId
  <2>3. CASE pc[c] = "expired"
    BY <1>1, <2>1, <2>3 DEF Overtake
  <2> QED
    BY <1>2, <2>2, <2>3 DEF InTx
<1>9. OneCounts'
  BY <1>5 DEF OneCounts
<1> QED
  BY <1>7, <1>8, <1>9 DEF IndInv

(* Hold makes the row younger (server.go:110-122). *)
LEMMA HoldUpdateOne ==
  ASSUME OneId, IndInv, TypeOK', NEW c \in Clients, HoldUpdate(c)
  PROVE  IndInv'
<1> USE LocksAssumption
<1>1. PICK a \in 0 .. Stall :
        WriteAll(a) /\ since' = IF pc[c] = "held" THEN [since EXCEPT ![c] = a] ELSE since
  BY DEF HoldUpdate
<1>2. UNCHANGED <<rows, pc, want>> /\ Overtake(Clients)
  BY DEF HoldUpdate
<1>3. LockCovers'
  <2> SUFFICES ASSUME NEW d \in Clients, Counts(d)
               PROVE  /\ want[d] \in rows
                      /\ age'[want[d]] <= since'[d] + Stall
                      /\ age'[want[d]] <= Silence + Stall
    BY <1>2 DEF LockCovers, Counts
  <2>1. want[d] \in rows /\ want[d] \in Ids
    BY DEF IndInv, LockCovers, TypeOK
  <2>2. age'[want[d]] = a
    BY <1>1, <2>1 DEF WriteAll
  <2>3. since'[d] \in Nat
    BY DEF TypeOK, Age
  <2> QED
    BY <2>1, <2>2, <2>3
<1>4. SnapshotTrue'
  BY <1>2 DEF SnapshotTrue, Overtake
<1>5. OneCounts'
  BY <1>2 DEF IndInv, OneCounts, Counts
<1> QED
  BY <1>3, <1>4, <1>5 DEF IndInv

(* With one id nobody but c can hold the lock that c releases. *)
LEMMA ReleaseUpdateOne ==
  ASSUME OneId, IndInv, TypeOK', NEW c \in Clients, ReleaseUpdate(c)
  PROVE  IndInv'
<1>1. Counts(c) /\ pc' = [pc EXCEPT ![c] = "notify"] /\ UNCHANGED want /\ Overtake(Clients)
  BY DEF ReleaseUpdate, Counts
<1>2. \A d \in Clients : ~Counts(d)'
  <2> SUFFICES ASSUME NEW d \in Clients, Counts(d)' PROVE FALSE
    OBVIOUS
  <2>1. d # c /\ Counts(d)
    BY <1>1 DEF Counts, IndInv, TypeOK
  <2>2. want[d] = want[c]
    BY <1>1, <2>1 DEF IndInv, TypeOK, Counts, OneId
  <2> QED
    BY <1>1, <2>1, <2>2 DEF IndInv, OneCounts
<1>3. SnapshotTrue'
  BY <1>1 DEF SnapshotTrue, Overtake, IndInv, TypeOK
<1> QED
  BY <1>2, <1>3 DEF IndInv, LockCovers, OneCounts

(* Time passes, and no holder waits longer than Silence. *)
LEMMA TickOne ==
  ASSUME InTime, IndInv, TypeOK', Tick
  PROVE  IndInv'
<1> USE LocksAssumption
<1>1. UNCHANGED <<rows, pc, want, overtaken>>
  BY DEF Tick, tx
<1>2. \A k \in Ids : age'[k] = Older(age[k]) /\ age[k] \in Age
  BY DEF Tick, IndInv, TypeOK
<1>3. LockCovers'
  <2> SUFFICES ASSUME NEW c \in Clients, Counts(c)
               PROVE  /\ want[c] \in rows
                      /\ age'[want[c]] <= since'[c] + Stall
                      /\ age'[want[c]] <= Silence + Stall
    BY <1>1 DEF LockCovers, Counts
  <2>1. /\ want[c] \in rows /\ want[c] \in Ids
        /\ age[want[c]] <= since[c] + Stall
    BY DEF IndInv, LockCovers, TypeOK
  <2>2. since[c] < Silence /\ since[c] \in Age /\ since'[c] = Older(since[c])
    BY DEF Tick, Timely, Counts, InTime, IndInv, TypeOK
  <2>3. since'[c] = since[c] + 1
    BY <2>2 DEF Older, Age, InTime
  <2>4. age'[want[c]] <= age[want[c]] + 1 /\ age[want[c]] \in Int /\ age'[want[c]] \in Int
    BY <1>2, <2>1, OlderAge DEF Age
  <2> QED
    BY <2>1, <2>2, <2>3, <2>4 DEF Age
<1>4. SnapshotTrue'
  <2>1. \A k \in Ids : age[k] > Deadline => age'[k] > Deadline
    BY <1>2 DEF Older
  <2> QED
    BY <1>1, <2>1 DEF SnapshotTrue, IndInv, TypeOK
<1>5. OneCounts'
  BY <1>1 DEF IndInv, OneCounts, Counts
<1> QED
  BY <1>3, <1>4, <1>5 DEF IndInv

(* Every step keeps the invariant. *)
LEMMA OneIdNext ==
  ASSUME OneId, InTime
  PROVE  IndInv /\ [Next]_vars => IndInv'
<1> SUFFICES ASSUME IndInv, [Next]_vars PROVE IndInv'
  OBVIOUS
<1>1. TypeOK'
  BY TypeNext DEF IndInv
<1>2. CASE Tick
  BY <1>1, <1>2, TickOne
<1>3. ASSUME NEW c \in Clients, ClientStep(c) PROVE IndInv'
  <2>1. ASSUME NEW k \in Ids, Lock(c, k) PROVE IndInv'
    BY <1>1, <2>1, QuietStep DEF Lock, Counts, tx, IndInv, TypeOK
  <2>2. CASE AquireRefused(c)
    BY <1>1, <2>2, QuietStep DEF AquireRefused, Counts, IndInv, TypeOK
  <2>3. CASE TakeError(c)
    BY <1>1, <2>3, QuietStep DEF TakeError, Leave, Counts, tx, IndInv, TypeOK
  <2>4. CASE AquireReturns(c)
    BY <1>1, <2>4, QuietStep DEF AquireReturns, Counts, tx, IndInv, TypeOK
  <2>5. CASE AquireDies(c)
    BY <1>1, <2>5, QuietStep DEF AquireDies, Leave, Counts, IndInv, TypeOK
  <2>6. CASE HoldCall(c) \/ HoldFails(c)
    BY <1>1, <2>6, QuietStep DEF HoldCall, HoldFails, Counts, tx
  <2>7. CASE ContextEnds(c)
    BY <1>1, <2>7, QuietStep DEF ContextEnds, Counts, tx, IndInv, TypeOK
  <2>8. CASE ReleaseNotify(c) \/ ReleaseFails(c) \/ HolderDies(c)
    BY <1>1, <2>8, QuietStep DEF ReleaseNotify, ReleaseFails, HolderDies, Leave, Counts,
       tx, IndInv, TypeOK
  <2> QED
    BY <1>1, <1>3, <2>1, <2>2, <2>3, <2>4, <2>5, <2>6, <2>7, <2>8, AquireSelectOne,
       AquireCommitOne, HoldUpdateOne, ReleaseUpdateOne DEF ClientStep
<1>4. CASE UNCHANGED vars
  BY <1>1, <1>4, QuietStep DEF vars, Counts
<1> QED
  BY <1>2, <1>3, <1>4 DEF Next

(* The invariant behind the exclusion holds in every reachable state.      *)
THEOREM Inductive ==
  ASSUME OneId, InTime
  PROVE  Spec => []IndInv
<1> QED
  BY OneIdInit, OneIdNext, PTL DEF Spec

(* If there is one id and holders renew early enough, no two contexts hold *)
(* the lock, whatever fails: server.go:78-96 and 172, lock.go:15.          *)
THEOREM OneIdExclusive ==
  ASSUME OneId, InTime
  PROVE  Spec => []MutualExclusion
<1>1. IndInv => MutualExclusion
  BY DEF IndInv, OneCounts, MutualExclusion, Believes, Counts
<1> QED
  BY <1>1, Inductive, PTL

-----------------------------------------------------------------------------
(* The refinement *)

(* Nobody wants, owns or renews a lock at the start. *)
LEMMA InitRefines == Init => Lease!Init
<1> SUFFICES ASSUME Init PROVE Lease!Init
  OBVIOUS
<1>1. Wish = [c \in Clients |-> NoLock] /\ Owns = [c \in Clients |-> NoLock]
  BY DEF Init, Wish, Owns, Counts
<1>2. Idle = [k \in Ids |-> Lease!Over] /\ hold \X Ids = {}
  BY DEF Init, Idle, Zero, Lease!Over
<1> QED
  BY <1>1, <1>2 DEF Lease!Init

(* A step that the abstract clients do not see. *)
LEMMA Invisible ==
  ASSUME IndInv, UNCHANGED <<rows, age, hold>>,
         \A c \in Clients : Wish'[c] = Wish[c] /\ Owns'[c] = Owns[c]
  PROVE  UNCHANGED Lease!leaseVars
<1>1. Wish' = Wish /\ Owns' = Owns
  BY DEF Wish, Owns
<1>2. Idle' = Idle
  BY DEF Idle
<1> QED
  BY <1>1, <1>2 DEF Lease!leaseVars

(* One client leaves the table alone and changes what it wants or owns. *)
LEMMA OneClient ==
  ASSUME IndInv, NEW c \in Clients, NEW p, NEW w,
         pc' = [pc EXCEPT ![c] = p], want' = [want EXCEPT ![c] = w]
  PROVE  /\ Wish' = [Wish EXCEPT ![c] = IF p \in {"waiting", "missing", "expired"}
                                        THEN w ELSE NoLock]
         /\ Owns' = [Owns EXCEPT ![c] = IF p \in {"granted", "held", "releasing"}
                                        THEN w ELSE NoLock]
<1> USE DEF IndInv, TypeOK
<1>1. \A d \in Clients : /\ pc'[d] = IF d = c THEN p ELSE pc[d]
                        /\ want'[d] = IF d = c THEN w ELSE want[d]
  OBVIOUS
<1> QED
  BY <1>1 DEF Wish, Owns, Counts

(* A lock that is wanted or owned is a lock. *)
LEMMA WantIsLock ==
  ASSUME IndInv, NEW c \in Clients, pc[c] # "idle"
  PROVE  want[c] \in Ids /\ want[c] # NoLock
BY LocksAssumption DEF IndInv, TypeOK

(* The write of Aquire takes a lock whose lease is over at the COMMIT, not *)
(* just at the SELECT (server.go:151-180).                                 *)
LEMMA AquireCommitRefines ==
  ASSUME OneId, IndInv, NEW c \in Clients, AquireCommit(c)
  PROVE  Lease!Take(c)
<1> USE LocksAssumption
<1> DEFINE k == want[c]
<1>1. /\ InTx(c) /\ CanCommit(c) /\ UNCHANGED <<want, hold>>
      /\ pc' = [pc EXCEPT ![c] = "granted"]
  BY DEF AquireCommit
<1>2. k \in Ids /\ k # NoLock /\ want' = [want EXCEPT ![c] = k]
  BY <1>1, WantIsLock DEF InTx, IndInv, TypeOK
<1>3. Wish[c] = k /\ Wish' = [Wish EXCEPT ![c] = NoLock] /\ Owns' = [Owns EXCEPT ![c] = k]
  <2>1. Wish[c] = k
    BY <1>1 DEF Wish, InTx
  <2>2. /\ Wish' = [Wish EXCEPT ![c] = IF "granted" \in {"waiting", "missing", "expired"}
                                       THEN k ELSE NoLock]
        /\ Owns' = [Owns EXCEPT ![c] = IF "granted" \in {"granted", "held", "releasing"}
                                       THEN k ELSE NoLock]
    BY <1>1, <1>2, OneClient
  <2> QED
    BY <2>1, <2>2
<1>4. Idle[k] > Deadline
  <2>1. CASE k \in rows
    BY <1>1, <1>2, <2>1 DEF InTx, CanCommit, IndInv, SnapshotTrue, Idle
  <2>2. CASE k \notin rows
    BY <1>2, <2>2 DEF Idle, Zero
  <2> QED
    BY <2>1, <2>2
<1>5. \E a \in 0 .. Stall : Idle' = [Idle EXCEPT ![k] = a]
  <2>1. \A m \in Ids : m = k
    BY <1>2 DEF OneId
  <2>2. PICK a \in 0 .. Stall :
          \/ rows' = rows \cup {k} /\ age' = [age EXCEPT ![k] = a]
          \/ pc[c] = "expired" /\ rows' = rows /\ WriteAll(a)
    BY DEF AquireCommit
  <2>3. k \in rows' /\ age'[k] = a
    BY <1>1, <1>2, <2>2 DEF WriteAll, IndInv, TypeOK, SnapshotTrue, CanCommit
  <2> QED
    BY <2>1, <2>3 DEF Idle
<1> QED
  BY <1>1, <1>2, <1>3, <1>4, <1>5 DEF Lease!Take, Lease!Free

(* Hold renews the lock for the client that called it (server.go:110-122). *)
LEMMA HoldUpdateRefines ==
  ASSUME OneId, IndInv, NEW c \in Clients, HoldUpdate(c)
  PROVE  Lease!Next \/ UNCHANGED Lease!leaseVars
<1>1. /\ c \in hold /\ hold' = hold \ {c} /\ UNCHANGED <<rows, pc, want>>
      /\ \E a \in 0 .. Stall : WriteAll(a)
  BY DEF HoldUpdate
<1>2. Wish' = Wish /\ Owns' = Owns
  BY <1>1 DEF Wish, Owns, Counts
<1>3. CASE Ids = {}
  BY <1>2, <1>3 DEF Lease!leaseVars, Idle
<1>4. ASSUME NEW k \in Ids PROVE Lease!Renew(c, k)
  <2>1. Ids = {k}
    BY DEF OneId
  <2>2. (hold \X Ids)' = (hold \X Ids) \ {<<c, k>>} /\ <<c, k>> \in hold \X Ids
    BY <1>1, <2>1
  <2>3. Idle' = Idle \/ \E a \in 0 .. Stall : Idle' = [Idle EXCEPT ![k] = a]
    <3>1. CASE k \in rows
      BY <1>1, <2>1, <3>1 DEF Idle, WriteAll
    <3>2. CASE k \notin rows
      BY <1>1, <2>1, <3>2 DEF Idle
    <3> QED
      BY <3>1, <3>2
  <2> QED
    BY <1>2, <2>2, <2>3 DEF Lease!Renew
<1> QED
  BY <1>3, <1>4 DEF Lease!Next, Lease!ClientStep

(* Hold is sent by an owner; one that fails renews nothing. *)
LEMMA HoldCallRefines ==
  ASSUME OneId, IndInv, NEW c \in Clients, HoldCall(c) \/ HoldFails(c)
  PROVE  Lease!Next \/ UNCHANGED Lease!leaseVars
<1>1. UNCHANGED <<rows, age, pc, want>>
  BY DEF HoldCall, HoldFails
<1>2. Wish' = Wish /\ Owns' = Owns /\ Idle' = Idle
  BY <1>1 DEF Wish, Owns, Counts, Idle
<1>3. CASE Ids = {}
  BY <1>2, <1>3 DEF Lease!leaseVars
<1>4. ASSUME NEW k \in Ids PROVE Lease!SendRenewal(c) \/ Lease!Renew(c, k)
  <2>1. Ids = {k}
    BY DEF OneId
  <2>2. CASE HoldCall(c)
    <3>1. Owns[c] = k /\ k # NoLock
      BY <2>1, <2>2, WantIsLock DEF HoldCall, Owns, Counts
    <3>2. (hold \X Ids)' = (hold \X Ids) \cup {<<c, k>>}
      BY <2>1, <2>2 DEF HoldCall
    <3> QED
      BY <1>2, <3>1, <3>2 DEF Lease!SendRenewal
  <2>3. CASE HoldFails(c)
    <3>1. (hold \X Ids)' = (hold \X Ids) \ {<<c, k>>} /\ <<c, k>> \in hold \X Ids
      BY <2>1, <2>3 DEF HoldFails
    <3> QED
      BY <1>2, <3>1 DEF Lease!Renew
  <2> QED
    BY <2>2, <2>3
<1> QED
  BY <1>3, <1>4 DEF Lease!Next, Lease!ClientStep

(* With one id Release gives back the lock of its caller and no other one  *)
(* (server.go:124-140).                                                    *)
LEMMA ReleaseUpdateRefines ==
  ASSUME OneId, IndInv, NEW c \in Clients, ReleaseUpdate(c)
  PROVE  Lease!GiveBack(c)
<1> DEFINE k == want[c]
<1>1. /\ pc[c] = "releasing" /\ pc' = [pc EXCEPT ![c] = "notify"]
      /\ UNCHANGED <<rows, want, hold>> /\ WriteAll(Zero)
  BY DEF ReleaseUpdate
<1>2. k \in Ids /\ k # NoLock /\ want' = [want EXCEPT ![c] = k]
  BY <1>1, WantIsLock DEF IndInv, TypeOK
<1>3. Owns[c] = k /\ Wish[c] = NoLock
  BY <1>1 DEF Owns, Wish, Counts
<1>4. Owns' = [Owns EXCEPT ![c] = NoLock] /\ Wish' = Wish
  <2>1. Owns' = [Owns EXCEPT ![c] = NoLock] /\ Wish' = [Wish EXCEPT ![c] = NoLock]
    BY <1>1, <1>2, OneClient
  <2> QED
    BY <1>3, <2>1 DEF Wish
<1>5. Idle' = [Idle EXCEPT ![k] = Lease!Over]
  <2>1. \A m \in Ids : m = k
    BY <1>2 DEF OneId
  <2> QED
    BY <1>1, <2>1 DEF Idle, WriteAll, Zero, Lease!Over
<1> QED
  BY <1>1, <1>2, <1>3, <1>4, <1>5 DEF Lease!GiveBack

(* Time passes, and the lease of no owner runs out. *)
LEMMA TickRefines ==
  ASSUME InTime, IndInv, IndInv', Tick
  PROVE  Lease!Tick
<1> USE LocksAssumption
<1>1. UNCHANGED <<rows, pc, want, hold>>
  BY DEF Tick
<1>2. Wish' = Wish /\ Owns' = Owns
  BY <1>1 DEF Wish, Owns, Counts
<1>3. Idle' = [k \in Ids |-> Lease!Older(Idle[k])]
  BY <1>1 DEF Tick, Idle, Zero, Older, Lease!Older
<1>4. ASSUME NEW c \in Clients, Owns[c] # NoLock PROVE Idle'[Owns[c]] <= Deadline
  <2>1. Counts(c)' /\ Owns[c] = want'[c]
    BY <1>1, <1>4 DEF Owns, Counts
  <2>2. want'[c] \in rows' /\ want'[c] \in Ids /\ age'[want'[c]] \in Int
        /\ age'[want'[c]] <= Silence + Stall
    BY <2>1 DEF IndInv, LockCovers, TypeOK, Age
  <2> QED
    BY <2>1, <2>2 DEF Idle, InTime
<1> QED
  BY <1>1, <1>2, <1>3, <1>4 DEF Lease!Tick

(* Every step of the service and its clients is a step of LockLease or none. *)
LEMMA StepRefines ==
  ASSUME OneId, InTime
  PROVE  IndInv /\ IndInv' /\ [Next]_vars => [Lease!Next]_Lease!leaseVars
<1> SUFFICES ASSUME IndInv, IndInv', [Next]_vars
             PROVE  Lease!Next \/ UNCHANGED Lease!leaseVars
  OBVIOUS
<1>1. ASSUME NEW c \in Clients, ClientStep(c)
      PROVE  Lease!Next \/ UNCHANGED Lease!leaseVars
  <2>0. ASSUME \/ \E k \in Ids : Lease!Ask(c, k)
               \/ Lease!GiveUp(c) \/ Lease!Take(c) \/ Lease!GiveBack(c) \/ Lease!Vanish(c)
        PROVE  Lease!Next
    BY <2>0 DEF Lease!Next, Lease!ClientStep
  <2>1. ASSUME NEW k \in Ids, Lock(c, k) PROVE Lease!Ask(c, k)
    <3>1. Wish[c] = NoLock /\ Owns[c] = NoLock
      BY <2>1 DEF Lock, Wish, Owns, Counts
    <3>2. Wish' = [Wish EXCEPT ![c] = k] /\ Owns' = [Owns EXCEPT ![c] = NoLock]
      BY <2>1, OneClient DEF Lock
    <3>3. Owns' = Owns /\ Idle' = Idle /\ hold' = hold
      BY <2>1, <3>1, <3>2 DEF Lock, Owns, Idle
    <3> QED
      BY <3>1, <3>2, <3>3 DEF Lease!Ask
  <2>2. CASE AquireSelect(c) \/ AquireReturns(c) \/ ContextEnds(c)
    <3>1. UNCHANGED <<rows, age, want, hold>>
      BY <2>2 DEF AquireSelect, AquireReturns, ContextEnds
    <3>2. \A d \in Clients : Wish'[d] = Wish[d] /\ Owns'[d] = Owns[d]
      BY <2>2 DEF AquireSelect, AquireReturns, ContextEnds, Wish, Owns, Counts, IndInv, TypeOK
    <3> QED
      BY <3>1, <3>2, Invisible
  <2>3. CASE AquireRefused(c)
    <3>1. /\ pc[c] \in {"missing", "expired"} /\ UNCHANGED <<rows, age, want, hold>>
          /\ pc' = [pc EXCEPT ![c] = "refused"] /\ want' = [want EXCEPT ![c] = want[c]]
      BY <2>3 DEF AquireRefused, InTx, IndInv, TypeOK
    <3>2. Wish[c] # NoLock /\ Owns[c] = NoLock
      BY <3>1, WantIsLock DEF Wish, Owns, Counts
    <3>3. Wish' = [Wish EXCEPT ![c] = NoLock] /\ Owns' = [Owns EXCEPT ![c] = NoLock]
      BY <3>1, OneClient
    <3>4. Owns' = Owns /\ Idle' = Idle
      BY <3>1, <3>2, <3>3 DEF Owns, Idle
    <3>5. Lease!GiveUp(c)
      BY <3>1, <3>2, <3>3, <3>4 DEF Lease!GiveUp
    <3> QED
      BY <2>0, <3>5
  <2>4. CASE TakeError(c) \/ ReleaseNotify(c)
    <3>1. UNCHANGED <<rows, age, hold>> /\ pc[c] \in {"refused", "notify"} /\ Leave(c)
      BY <2>4 DEF TakeError, ReleaseNotify
    <3>2. \A d \in Clients : Wish'[d] = Wish[d] /\ Owns'[d] = Owns[d]
      BY <3>1 DEF Leave, Wish, Owns, Counts, IndInv, TypeOK
    <3> QED
      BY <3>1, <3>2, Invisible
  <2>5. CASE AquireDies(c) \/ ReleaseFails(c) \/ HolderDies(c)
    <3>1. /\ UNCHANGED <<rows, age, hold>> /\ Leave(c)
          /\ pc[c] \in {"waiting", "missing", "expired", "granted", "held", "releasing"}
      BY <2>5 DEF AquireDies, ReleaseFails, HolderDies
    <3>2. Wish' = [Wish EXCEPT ![c] = NoLock] /\ Owns' = [Owns EXCEPT ![c] = NoLock]
      BY <3>1, OneClient DEF Leave
    <3>3. Idle' = Idle /\ want[c] # NoLock
      BY <3>1, WantIsLock DEF Idle
    <3>4. CASE Counts(c)
      <4>1. Owns[c] # NoLock /\ Wish[c] = NoLock
        BY <3>3, <3>4 DEF Owns, Wish, Counts
      <4>2. Wish' = Wish
        BY <3>2, <4>1 DEF Wish
      <4>3. Lease!Vanish(c)
        BY <3>1, <3>2, <3>3, <4>1, <4>2 DEF Lease!Vanish
      <4> QED
        BY <2>0, <4>3
    <3>5. CASE ~Counts(c)
      <4>1. Wish[c] # NoLock /\ Owns[c] = NoLock
        BY <3>1, <3>3, <3>5 DEF Owns, Wish, Counts
      <4>2. Owns' = Owns
        BY <3>2, <4>1 DEF Owns
      <4>3. Lease!GiveUp(c)
        BY <3>1, <3>2, <3>3, <4>1, <4>2 DEF Lease!GiveUp
      <4> QED
        BY <2>0, <4>3
    <3> QED
      BY <3>4, <3>5
  <2> QED
    BY <1>1, <2>0, <2>1, <2>2, <2>3, <2>4, <2>5, AquireCommitRefines, HoldCallRefines,
       HoldUpdateRefines, ReleaseUpdateRefines DEF ClientStep
<1>2. CASE Tick
  BY <1>2, TickRefines DEF Lease!Next
<1>3. CASE UNCHANGED vars
  BY <1>3, Invisible DEF vars, Wish, Owns, Counts
<1> QED
  BY <1>1, <1>2, <1>3 DEF Next

(* One lock whose holders renew in time is a leased lock as LockLease has  *)
(* it, whatever else fails (server.go:52-180, lock.go:17-43).              *)
THEOREM Refinement ==
  ASSUME OneId, InTime
  PROVE  Spec => LeaseSpec
<1> QED
  BY InitRefines, StepRefines, Inductive, PTL DEF Spec, LeaseSpec, Lease!Spec

=============================================================================
