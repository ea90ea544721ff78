------------------------------ MODULE JobLease ------------------------------
(***************************************************************************)
(* What the job queue promises, without transactions, streams or calls.    *)
(* A job that was started is leased: it changes hands only after Deadline  *)
(* units of time without a renewal, and a finished job never changes hands *)
(* again.  Jobs.tla implements this specification.                         *)
(***************************************************************************)
EXTENDS Integers

CONSTANTS
  Jobs,      \* identities a job can have
  Deadline,  \* a lease older than this may be taken over
  Stall      \* how old a renewal may be when it takes effect

VARIABLES
  phase,     \* phase[j]: where job j is in its life
  idle,      \* idle[j]: time since the last renewal, Null if never renewed
  held       \* held[j]: time since it changed hands, Null if it never did

leaseVars == <<phase, idle, held>>

Phase == {"absent", "queued", "running", "finished"}
Null  == -1
Age   == 0 .. (Deadline + 1)

(* Time passes; an age stops one past Deadline, the largest value that the *)
(* comparison with Deadline tells apart.                                   *)
Older(a) == IF a = Null \/ a > Deadline THEN a ELSE a + 1

Free(j) == \/ phase[j] = "queued"
           \/ phase[j] = "running" /\ idle[j] > Deadline

Init == /\ phase = [j \in Jobs |-> "absent"]
        /\ idle  = [j \in Jobs |-> Null]
        /\ held  = [j \in Jobs |-> Null]

Add(j) == /\ phase[j] = "absent"
          /\ phase' = [phase EXCEPT ![j] = "queued"]
          /\ UNCHANGED <<idle, held>>

Grant(j) == /\ Free(j)
            /\ phase' = [phase EXCEPT ![j] = "running"]
            /\ \E a \in Age : /\ idle' = [idle EXCEPT ![j] = a]
                            /\ held' = [held EXCEPT ![j] = a]

Renew(j) == /\ phase[j] # "absent"
            /\ \E a \in 0 .. Stall : idle' = [idle EXCEPT ![j] = a]
            /\ \/ UNCHANGED phase
               \/ phase' = [phase EXCEPT ![j] = "finished"]
            /\ UNCHANGED held

Remove(j) == /\ phase[j] # "absent"
             /\ phase' = [phase EXCEPT ![j] = "absent"]
             /\ idle'  = [idle EXCEPT ![j] = Null]
             /\ held'  = [held EXCEPT ![j] = Null]

Tick == /\ idle' = [j \in Jobs |-> Older(idle[j])]
        /\ held' = [j \in Jobs |-> Older(held[j])]
        /\ UNCHANGED phase

Next == \/ \E j \in Jobs : Add(j) \/ Grant(j) \/ Renew(j) \/ Remove(j)
        \/ Tick

Spec == Init /\ [][Next]_leaseVars
=============================================================================
