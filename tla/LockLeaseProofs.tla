-------------------------- MODULE LockLeaseProofs --------------------------
(***************************************************************************)
(* What LockLease promises follows from its leases alone, for any number   *)
(* of locks and clients: nothing in it says that an owned lock is not      *)
(* taken.                                                                  *)
(***************************************************************************)
EXTENDS LockLease, TLAPS

Sensible == NoLock \notin Ids /\ Deadline \in Nat /\ Stall \in 0 .. Deadline

LeaseType ==
  /\ wish \in [Clients -> Ids \cup {NoLock}]
  /\ owns \in [Clients -> Ids \cup {NoLock}]
  /\ renewals \subseteq Clients \X Ids
  /\ idle \in [Ids -> 0 .. Over]

(* The lease of an owner is not over, so it is not free to take. *)
OwnersCovered == \A c \in Clients : owns[c] # NoLock => idle[owns[c]] <= Deadline

LeaseInv == LeaseType /\ OwnersCovered /\ OneOwner

(* Nobody owns a lock at the start. *)
LEMMA InitCovered == Sensible /\ Init => LeaseInv
BY DEF Sensible, Init, LeaseInv, LeaseType, OwnersCovered, OneOwner, Over

(* Each step keeps the types. *)
LEMMA TypeKept ==
  ASSUME Sensible, LeaseType, [Next]_leaseVars
  PROVE  LeaseType'
<1> USE DEF Sensible, LeaseType, Over
<1>1. \A k \in Ids, a \in 0 .. Stall : [idle EXCEPT ![k] = a] \in [Ids -> 0 .. Over]
  OBVIOUS
<1>2. ASSUME NEW c \in Clients, NEW k \in Ids, Ask(c, k) \/ Renew(c, k) PROVE LeaseType'
  BY <1>1, <1>2 DEF Ask, Renew
<1>3. ASSUME NEW c \in Clients, GiveUp(c) \/ Vanish(c) PROVE LeaseType'
  BY <1>3 DEF GiveUp, Vanish
<1>4. ASSUME NEW c \in Clients, Take(c) PROVE LeaseType'
  <2>1. wish[c] \in Ids
    BY <1>4 DEF Take
  <2> QED
    BY <1>1, <1>4, <2>1 DEF Take
<1>5. ASSUME NEW c \in Clients, SendRenewal(c) PROVE LeaseType'
  BY <1>5 DEF SendRenewal
<1>6. ASSUME NEW c \in Clients, GiveBack(c) PROVE LeaseType'
  BY <1>6 DEF GiveBack
<1>7. CASE Tick
  BY <1>7 DEF Tick, Older
<1>8. CASE UNCHANGED leaseVars
  BY <1>8 DEF leaseVars
<1> QED
  BY <1>2, <1>3, <1>4, <1>5, <1>6, <1>7, <1>8 DEF Next, ClientStep

(* A lock is taken when nobody's lease of it lasts; a lock that is given   *)
(* back has lost its only owner; time does not pass the end of a lease     *)
(* whose owner is still there.                                             *)
LEMMA StepCovered ==
  ASSUME Sensible, LeaseInv, [Next]_leaseVars
  PROVE  LeaseInv'
<1> USE DEF Sensible, LeaseInv
<1>0. LeaseType'
  BY TypeKept
<1> SUFFICES OwnersCovered' /\ OneOwner'
  BY <1>0
<1> USE DEF LeaseType, OwnersCovered, OneOwner
<1>1. ASSUME NEW c \in Clients, NEW k \in Ids, Ask(c, k) PROVE OwnersCovered' /\ OneOwner'
  BY <1>1 DEF Ask
<1>2. ASSUME NEW c \in Clients, GiveUp(c) \/ SendRenewal(c) PROVE OwnersCovered' /\ OneOwner'
  BY <1>2 DEF GiveUp, SendRenewal
<1>3. ASSUME NEW c \in Clients, Take(c) PROVE OwnersCovered' /\ OneOwner'
  <2>1. PICK a \in 0 .. Stall : idle' = [idle EXCEPT ![wish[c]] = a]
    BY <1>3 DEF Take
  <2>2. /\ wish[c] \in Ids /\ idle[wish[c]] > Deadline
        /\ owns' = [owns EXCEPT ![c] = wish[c]]
    BY <1>3 DEF Take, Free
  <2>3. \A d \in Clients : owns[d] # wish[c]
    BY <2>2 DEF Over
  <2>4. OwnersCovered'
    BY <2>1, <2>2, <2>3
  <2>5. OneOwner'
    BY <2>2, <2>3
  <2> QED
    BY <2>4, <2>5
<1>4. ASSUME NEW c \in Clients, NEW k \in Ids, Renew(c, k) PROVE OwnersCovered' /\ OneOwner'
  BY <1>4 DEF Renew
<1>5. ASSUME NEW c \in Clients, GiveBack(c) PROVE OwnersCovered' /\ OneOwner'
  <2>1. /\ owns[c] # NoLock /\ owns' = [owns EXCEPT ![c] = NoLock]
        /\ idle' = [idle EXCEPT ![owns[c]] = Over]
    BY <1>5 DEF GiveBack
  <2>2. \A d \in Clients : owns'[d] # NoLock => owns'[d] = owns[d] /\ owns[d] # owns[c]
    BY <2>1
  <2> QED
    BY <2>1, <2>2
<1>6. ASSUME NEW c \in Clients, Vanish(c) PROVE OwnersCovered' /\ OneOwner'
  BY <1>6 DEF Vanish
<1>7. CASE Tick
  BY <1>7 DEF Tick
<1>8. CASE UNCHANGED leaseVars
  BY <1>8 DEF leaseVars
<1> QED
  BY <1>1, <1>2, <1>3, <1>4, <1>5, <1>6, <1>7, <1>8 DEF Next, ClientStep

(* No lock has two owners, and the lease of an owner is not over: what a   *)
(* caller of Lock relies on (lock.go:15-16).                               *)
THEOREM Exclusive ==
  ASSUME Sensible
  PROVE  Spec => [](OneOwner /\ OwnersCovered)
<1>1. LeaseInv => OneOwner /\ OwnersCovered
  BY DEF LeaseInv
<1> QED
  BY <1>1, InitCovered, StepCovered, PTL DEF Spec
=============================================================================
