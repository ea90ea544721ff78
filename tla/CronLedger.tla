----------------------------- MODULE CronLedger -----------------------------
(***************************************************************************)
(* What the cronjobs service promises, without servers, schedulers or      *)
(* transactions.  The runs of a cronjob come one after the other; a run    *)
(* that comes is due, then claimed once, and then its job is made once or  *)
(* it is lost.  Nothing else happens to a run but that its cronjob is      *)
(* deleted before it is claimed.  CronJobs.tla implements this             *)
(* specification.                                                          *)
(***************************************************************************)
EXTENDS Integers

CONSTANTS
  Crons,    \* cronjobs
  MaxRuns   \* bound on the runs of one

VARIABLES
  existing,  \* cronjobs that were created and not deleted
  last,      \* last[c]: runs of c that came so far
  due,       \* runs to be scheduled
  claimed,   \* runs whose job is about to be made
  made,      \* runs that have their job
  lost       \* runs that were claimed and will have none

ledgerVars == <<existing, last, due, claimed, made, lost>>

Init == /\ existing = {} /\ last = [c \in Crons |-> 0]
        /\ due = {} /\ claimed = {} /\ made = {} /\ lost = {}

(* A run comes: the first one with its cronjob, ... *)
Comes(c) == /\ last' = [last EXCEPT ![c] = last[c] + 1]
            /\ due' = due \cup {<<c, last[c] + 1>>}
            /\ UNCHANGED <<claimed, made, lost>>

Create(c) == /\ last[c] = 0
             /\ existing' = existing \cup {c}
             /\ Comes(c)

(* ... any other one when its predecessor is no longer due. *)
Recur(c) == /\ c \in existing
            /\ <<c, last[c]>> \notin due
            /\ last[c] < MaxRuns
            /\ Comes(c)
            /\ UNCHANGED existing

(* A cronjob that is deleted leaves what was claimed of it. *)
Delete(c) == /\ c \in existing
             /\ existing' = existing \ {c}
             /\ due' = due \ {<<c, last[c]>>}
             /\ UNCHANGED <<last, claimed, made, lost>>

Claim(S) == /\ S # {}
            /\ due' = due \ S
            /\ claimed' = claimed \cup S
            /\ UNCHANGED <<existing, last, made, lost>>

Make(w) == /\ w \in claimed
           /\ claimed' = claimed \ {w}
           /\ made' = made \cup {w}
           /\ UNCHANGED <<existing, last, due, lost>>

Lose(S) == /\ S # {}
           /\ claimed' = claimed \ S
           /\ lost' = lost \cup S
           /\ UNCHANGED <<existing, last, due, made>>

Next == \/ \E c \in Crons : Create(c) \/ Recur(c) \/ Delete(c)
        \/ \E S \in SUBSET due : Claim(S)
        \/ \E w \in claimed : Make(w)
        \/ \E S \in SUBSET claimed : Lose(S)

Spec == Init /\ [][Next]_ledgerVars
=============================================================================
