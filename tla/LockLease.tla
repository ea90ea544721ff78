----------------------------- MODULE LockLease -----------------------------
(***************************************************************************)
(* What the locks service promises to clients that renew in time, without  *)
(* transactions, rows or calls.  A lock is leased: a client that asked for *)
(* it gets it once it was given back, or Deadline units of time after its  *)
(* last renewal; only its owner renews it, gives it back or goes away.     *)
(* Locks.tla implements this specification as long as there is one lock.   *)
(***************************************************************************)
EXTENDS Integers

CONSTANTS
  Ids,       \* locks
  Clients,   \* those who ask for them
  NoLock,    \* no lock
  Deadline,  \* a lease older than this may be taken over
  Stall      \* how old a renewal may be when it takes effect

VARIABLES
  wish,      \* wish[c]: the lock that c asked for and does not own yet
  owns,      \* owns[c]: the lock of c
  renewals,  \* renewals on their way, each with its sender and its lock
  idle       \* idle[k]: time since k was renewed

leaseVars == <<wish, owns, renewals, idle>>

(* The age of a lock that was given back, or that nobody ever had. *)
Over == Deadline + 1

Older(a) == IF a > Deadline THEN a ELSE a + 1

Free(k) == idle[k] > Deadline

Init == /\ wish = [c \in Clients |-> NoLock]
        /\ owns = [c \in Clients |-> NoLock]
        /\ renewals = {}
        /\ idle = [k \in Ids |-> Over]

Ask(c, k) == /\ wish[c] = NoLock /\ owns[c] = NoLock
             /\ wish' = [wish EXCEPT ![c] = k]
             /\ UNCHANGED <<owns, renewals, idle>>

GiveUp(c) == /\ wish[c] # NoLock
             /\ wish' = [wish EXCEPT ![c] = NoLock]
             /\ UNCHANGED <<owns, renewals, idle>>

Take(c) == /\ wish[c] # NoLock
           /\ Free(wish[c])
           /\ owns' = [owns EXCEPT ![c] = wish[c]]
           /\ wish' = [wish EXCEPT ![c] = NoLock]
           /\ \E a \in 0 .. Stall : idle' = [idle EXCEPT ![wish[c]] = a]
           /\ UNCHANGED renewals

SendRenewal(c) == /\ owns[c] # NoLock
                  /\ renewals' = renewals \cup {<<c, owns[c]>>}
                  /\ UNCHANGED <<wish, owns, idle>>

(* It arrives, maybe after its sender lost interest, or is lost. *)
Renew(c, k) == /\ <<c, k>> \in renewals
               /\ renewals' = renewals \ {<<c, k>>}
               /\ \/ \E a \in 0 .. Stall : idle' = [idle EXCEPT ![k] = a]
                  \/ UNCHANGED idle
               /\ UNCHANGED <<wish, owns>>

GiveBack(c) == /\ owns[c] # NoLock
               /\ owns' = [owns EXCEPT ![c] = NoLock]
               /\ idle' = [idle EXCEPT ![owns[c]] = Over]
               /\ UNCHANGED <<wish, renewals>>

(* The owner is gone: the lock waits for its lease to run out. *)
Vanish(c) == /\ owns[c] # NoLock
             /\ owns' = [owns EXCEPT ![c] = NoLock]
             /\ UNCHANGED <<wish, renewals, idle>>

(* The lease of an owner never runs out. *)
Tick == /\ idle' = [k \in Ids |-> Older(idle[k])]
        /\ \A c \in Clients : owns[c] # NoLock => idle'[owns[c]] <= Deadline
        /\ UNCHANGED <<wish, owns, renewals>>

ClientStep(c) == \/ \E k \in Ids : Ask(c, k) \/ Renew(c, k)
                 \/ GiveUp(c) \/ Take(c)
                 \/ SendRenewal(c) \/ GiveBack(c) \/ Vanish(c)

Next == Tick \/ \E c \in Clients : ClientStep(c)

Spec == Init /\ [][Next]_leaseVars

(* What follows: no lock has two owners. *)
OneOwner == \A c, d \in Clients : owns[c] # NoLock /\ owns[c] = owns[d] => c = d
=============================================================================
