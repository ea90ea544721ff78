------------------------------- MODULE Locks -------------------------------
(***************************************************************************)
(* The locks service, pkg/services/locks/server.go, with the client that   *)
(* takes a lock and renews it, pkg/locks/lock.go.                          *)
(*                                                                         *)
(* A step is one SQL statement, one answer or one decision of the client;  *)
(* the write of Aquire and its COMMIT are one step, because the rows are   *)
(* locked in between.  A timestamp is kept as its age, which stops growing *)
(* one past Deadline; the zero time that Release writes has that age.      *)
(***************************************************************************)
EXTENDS Integers

CONSTANTS
  Ids,       \* lock ids
  Clients,   \* callers of Lock, each with one context at a time
  NoLock,    \* no id
  Deadline,  \* holdDeadline
  Stall,     \* longest time between time.Now() and the write of its value
  Silence    \* longest time a holder goes without a renewal, or a Release
             \* takes to reach the table; above Deadline: no limit

ASSUME LocksAssumption ==
  /\ NoLock \notin Ids
  /\ Deadline \in Nat /\ Stall \in 0 .. Deadline /\ Silence \in Nat

VARIABLES
  rows,       \* rows of the table "locks"
  age,        \* age[k]: updated_at of row k
  pc,         \* where each client, or the handler of its Aquire, is
  want,       \* the lock of its context
  overtaken,  \* open takeovers whose rows were written after their snapshot
  rivalled,   \* open transactions with another serializable commit meanwhile
  hold,       \* clients with a Hold on its way to the table
  since       \* since[c]: age of the last stamp written for c

tx   == <<overtaken, rivalled>>
vars == <<rows, age, pc, want, overtaken, rivalled, hold, since>>

Age  == 0 .. (Deadline + 1)
Zero == Deadline + 1
Older(a) == IF a > Deadline THEN a ELSE a + 1

TypeOK ==
  /\ rows \subseteq Ids
  /\ age \in [Ids -> Age]
  /\ pc \in [Clients -> {"idle", "waiting", "missing", "expired", "refused",
                         "granted", "held", "releasing", "notify"}]
  /\ want \in [Clients -> Ids \cup {NoLock}]
  /\ \A c \in Clients : want[c] = NoLock <=> pc[c] = "idle"
  /\ overtaken \subseteq Clients
  /\ rivalled \subseteq Clients
  /\ hold \subseteq Clients
  /\ since \in [Clients -> Age]

Init ==
  /\ rows = {} /\ age = [k \in Ids |-> Zero]
  /\ pc = [c \in Clients |-> "idle"] /\ want = [c \in Clients |-> NoLock]
  /\ overtaken = {} /\ rivalled = {} /\ hold = {}
  /\ since = [c \in Clients |-> Zero]

-----------------------------------------------------------------------------
(* Helpers *)

InTx(c) == pc[c] \in {"missing", "expired"}

(* UPDATE locks SET updated_at without a WHERE: it writes every row, ...   *)
WriteAll(a) == age' = [k \in Ids |-> IF k \in rows THEN a ELSE age[k]]

(* ... and dooms the takeovers that have seen the rows before. *)
Overtake(S) == overtaken' = overtaken \cup {d \in S : pc[d] = "expired"}

(* Mutant of CanCommit: at READ COMMITTED only the primary key refuses.    *)
ReadCommitted(c) == pc[c] = "missing" => want[c] \notin rows

(* REPEATABLE READ and above refuse to write a row that changed since the  *)
(* snapshot, and the primary key refuses a second INSERT.                  *)
CanCommit(c) == IF pc[c] = "missing" THEN want[c] \notin rows ELSE c \notin overtaken

Leave(c) ==
  /\ pc' = [pc EXCEPT ![c] = "idle"]
  /\ want' = [want EXCEPT ![c] = NoLock]

-----------------------------------------------------------------------------
(* Aquire *)

(* Lock calls Aquire, whose handler listens on the channel "locks". *)
Lock(c, k) ==
  /\ pc[c] = "idle"
  /\ pc' = [pc EXCEPT ![c] = "waiting"]
  /\ want' = [want EXCEPT ![c] = k]
  /\ UNCHANGED <<rows, age, tx, hold, since>>

(* Mutants of AquireSelect: one takes over one unit of time too early, one *)
(* never takes over.                                                       *)
SelectTooEarly(c) ==
  /\ pc[c] = "waiting"
  /\ want[c] \in rows => age[want[c]] >= Deadline
  /\ pc' = [pc EXCEPT ![c] = IF want[c] \in rows THEN "expired" ELSE "missing"]
  /\ UNCHANGED <<rows, age, want, tx, hold, since>>

SelectOnlyFree(c) ==
  /\ pc[c] = "waiting"
  /\ want[c] \notin rows
  /\ pc' = [pc EXCEPT ![c] = "missing"]
  /\ UNCHANGED <<rows, age, want, tx, hold, since>>

(* A tick: BEGIN ISOLATION LEVEL SERIALIZABLE and the SELECT.  A lock that *)
(* is held sends the handler back to the next tick.                        *)
AquireSelect(c) ==
  /\ pc[c] = "waiting"
  /\ want[c] \in rows => age[want[c]] > Deadline
  /\ pc' = [pc EXCEPT ![c] = IF want[c] \in rows THEN "expired" ELSE "missing"]
  /\ UNCHANGED <<rows, age, want, tx, hold, since>>

(* INSERT the row, or take over by the UPDATE; COMMIT. *)
AquireCommit(c) ==
  /\ InTx(c)
  /\ CanCommit(c)
  /\ \E a \in 0 .. Stall :
       /\ \/ /\ pc[c] = "missing"
             /\ rows' = rows \cup {want[c]}
             /\ age' = [age EXCEPT ![want[c]] = a]
             /\ overtaken' = overtaken
          \/ /\ pc[c] = "expired"
             /\ rows' = rows
             /\ WriteAll(a)
             /\ Overtake(Clients \ {c})
       /\ since' = [since EXCEPT ![c] = a]
  /\ rivalled' = (rivalled \cup {d \in Clients : InTx(d)}) \ {c}
  /\ pc' = [pc EXCEPT ![c] = "granted"]
  /\ UNCHANGED <<want, hold>>

(* A serialization failure or a duplicate key is not errLocked: Aquire and *)
(* Lock return it.                                                         *)
AquireRefused(c) ==
  /\ InTx(c)
  /\ ~CanCommit(c) \/ c \in rivalled
  /\ overtaken' = overtaken \ {c} /\ rivalled' = rivalled \ {c}
  /\ pc' = [pc EXCEPT ![c] = "refused"]
  /\ UNCHANGED <<rows, age, want, hold, since>>

(* The caller of Lock deals with the error. *)
TakeError(c) ==
  /\ pc[c] = "refused"
  /\ Leave(c)
  /\ UNCHANGED <<rows, age, tx, hold, since>>

(* The answer of Aquire arrives; the renewing goroutine starts. *)
AquireReturns(c) ==
  /\ pc[c] = "granted"
  /\ pc' = [pc EXCEPT ![c] = "held"]
  /\ UNCHANGED <<rows, age, want, tx, hold, since>>

(* The context ends, the client or the server dies or the answer is lost,  *)
(* before Lock returns: nobody will ever release the lock.                 *)
AquireDies(c) ==
  /\ pc[c] \in {"waiting", "missing", "expired", "granted"}
  /\ overtaken' = overtaken \ {c} /\ rivalled' = rivalled \ {c}
  /\ Leave(c)
  /\ UNCHANGED <<rows, age, hold, since>>

-----------------------------------------------------------------------------
(* Hold *)

(* The renewing goroutine calls Hold, one at a time. *)
HoldCall(c) ==
  /\ pc[c] = "held"
  /\ c \notin hold
  /\ hold' = hold \cup {c}
  /\ UNCHANGED <<rows, age, pc, want, tx, since>>

(* Mutant of HoldUpdate: it writes when the lock expires. *)
HoldUntil(c) ==
  /\ c \in hold
  /\ WriteAll(0 - Deadline)
  /\ Overtake(Clients)
  /\ hold' = hold \ {c}
  /\ UNCHANGED <<rows, pc, want, rivalled, since>>

(* The UPDATE.  A context that ended since does not recall it. *)
HoldUpdate(c) ==
  /\ c \in hold
  /\ \E a \in 0 .. Stall :
       /\ WriteAll(a)
       /\ since' = IF pc[c] = "held" THEN [since EXCEPT ![c] = a] ELSE since
  /\ Overtake(Clients)
  /\ hold' = hold \ {c}
  /\ UNCHANGED <<rows, pc, want, rivalled>>

(* Hold fails; the client ignores it. *)
HoldFails(c) ==
  /\ c \in hold
  /\ hold' = hold \ {c}
  /\ UNCHANGED <<rows, age, pc, want, tx, since>>

-----------------------------------------------------------------------------
(* Release *)

(* The context ends: the goroutine calls Release with a fresh one. *)
ContextEnds(c) ==
  /\ pc[c] = "held"
  /\ pc' = [pc EXCEPT ![c] = "releasing"]
  /\ UNCHANGED <<rows, age, want, tx, hold, since>>

(* Mutant of ReleaseUpdate: it writes the time of the call. *)
ReleaseRenews(c) ==
  /\ pc[c] = "releasing"
  /\ WriteAll(0)
  /\ Overtake(Clients)
  /\ pc' = [pc EXCEPT ![c] = "notify"]
  /\ UNCHANGED <<rows, want, rivalled, hold, since>>

(* The UPDATE writes the zero time into every row. *)
ReleaseUpdate(c) ==
  /\ pc[c] = "releasing"
  /\ WriteAll(Zero)
  /\ Overtake(Clients)
  /\ pc' = [pc EXCEPT ![c] = "notify"]
  /\ UNCHANGED <<rows, want, rivalled, hold, since>>

(* NOTIFY locks.  A tick of a waiting Aquire may come at any time anyway.  *)
ReleaseNotify(c) ==
  /\ pc[c] = "notify"
  /\ Leave(c)
  /\ UNCHANGED <<rows, age, tx, hold, since>>

(* Release fails, with or without its UPDATE; the client logs the error.   *)
ReleaseFails(c) ==
  /\ pc[c] = "releasing"
  /\ Leave(c)
  /\ UNCHANGED <<rows, age, tx, hold, since>>

(* The holder dies. *)
HolderDies(c) ==
  /\ pc[c] = "held"
  /\ Leave(c)
  /\ UNCHANGED <<rows, age, tx, hold, since>>

-----------------------------------------------------------------------------

Timely(c) == pc[c] \in {"granted", "held", "releasing"} => since[c] < Silence

Tick ==
  /\ Silence <= Deadline => \A c \in Clients : Timely(c)
  /\ age' = [k \in Ids |-> Older(age[k])]
  /\ since' = [c \in Clients |-> Older(since[c])]
  /\ UNCHANGED <<rows, pc, want, tx, hold>>

ClientStep(c) ==
  \/ \E k \in Ids : Lock(c, k)
  \/ AquireSelect(c) \/ AquireCommit(c) \/ AquireRefused(c) \/ TakeError(c)
  \/ AquireReturns(c) \/ AquireDies(c)
  \/ HoldCall(c) \/ HoldUpdate(c) \/ HoldFails(c)
  \/ ContextEnds(c) \/ ReleaseUpdate(c) \/ ReleaseNotify(c) \/ ReleaseFails(c)
  \/ HolderDies(c)

Next == Tick \/ \E c \in Clients : ClientStep(c)

Spec == Init /\ [][Next]_vars

(* The handler of c runs, its ticker ticks, a takeover that could commit   *)
(* again and again does, and time passes.  Nobody has to take a lock, hold *)
(* it, renew it or give it up.                                             *)
Fairness(c) ==
  /\ WF_vars(Tick)
  /\ WF_vars(AquireSelect(c)) /\ SF_vars(AquireCommit(c)) /\ WF_vars(AquireRefused(c))

FairSpec == Spec /\ \A c \in Clients : Fairness(c)

-----------------------------------------------------------------------------
(* Correctness *)

(* The server gave k to c and c, or its user, has not let go of it. *)
Believes(c, k) == pc[c] \in {"granted", "held"} /\ want[c] = k

(* No two contexts hold one lock.  "Lock creates a lock and holds it until *)
(* the context expires or is canceled" (pkg/locks/lock.go:15).  With one   *)
(* id it needs the serializable takeover (server.go:78-96) and holders     *)
(* that renew in time; with two ids the code breaks it, because Release    *)
(* (server.go:131) frees every lock.                                       *)
MutualExclusion ==
  \A k \in Ids : \A c, d \in Clients : Believes(c, k) /\ Believes(d, k) => c = d

(* "if the lock is not available it will block until the lock can be taken *)
(* or the context is canceled" (pkg/locks/lock.go:16).  The code returns   *)
(* an error when two waiters go for a lock at once.                        *)
NeverRefused == \A c \in Clients : pc[c] # "refused"

(* No other client wants a lock or holds one any more. *)
Alone(c) == <>[](\A d \in Clients \ {c} : want[d] = NoLock)

(* c does not give up, and calls Lock again when it got an error. *)
Persists(c) ==
  /\ <>[][~AquireDies(c)]_vars
  /\ WF_vars(TakeError(c)) /\ WF_vars(\E k \in Ids : Lock(c, k))

(* A lock whose holder vanished without a Release is granted to the last   *)
(* client that keeps asking for it (server.go:172).  A Hold of the old     *)
(* holder that is still on its way may renew the lock, and may get the     *)
(* takeover refused (server.go:97-101), but neither of them for ever.      *)
(* While somebody holds any other lock this need not be: Hold renews all   *)
(* of them (server.go:117).                                                *)
Inherits(c) == Alone(c) /\ Persists(c) => (pc[c] = "waiting" ~> pc[c] = "granted")

OrphanIsInherited == \A c \in Clients : Inherits(c)

(* The inductive invariant behind MutualExclusion when there is one id and *)
(* holders renew early enough.                                             *)

Counts(c) == pc[c] \in {"granted", "held", "releasing"}

(* The lock of a holder is fresh until its Release is through. *)
LockCovers == \A c \in Clients : Counts(c) =>
  /\ want[c] \in rows
  /\ age[want[c]] <= since[c] + Stall
  /\ age[want[c]] <= Silence + Stall

(* A takeover that was not overtaken still sees the truth. *)
SnapshotTrue == \A c \in Clients : pc[c] = "expired" /\ c \notin overtaken =>
  want[c] \in rows /\ age[want[c]] > Deadline

OneCounts == \A c, d \in Clients : Counts(c) /\ Counts(d) /\ want[c] = want[d] => c = d

IndInv == TypeOK /\ LockCovers /\ SnapshotTrue /\ OneCounts

(* With one id and holders that renew in time the service implements       *)
(* LockLease: a lock passes to a client that waits for it only when its    *)
(* owner gave it back or is gone for Deadline (server.go:151-180), the     *)
(* lease of an owner never runs out, and no step of another client (a late *)
(* Hold, a takeover, a Release) takes a lock away from its owner.          *)

Wish == [c \in Clients |-> IF pc[c] \in {"waiting", "missing", "expired"} THEN want[c] ELSE NoLock]

Owns == [c \in Clients |-> IF Counts(c) THEN want[c] ELSE NoLock]

Idle == [k \in Ids |-> IF k \in rows THEN age[k] ELSE Zero]

Lease == INSTANCE LockLease
         WITH wish <- Wish, owns <- Owns, renewals <- hold \X Ids, idle <- Idle

LeaseSpec == Lease!Spec

=============================================================================
