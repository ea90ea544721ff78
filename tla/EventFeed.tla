----------------------------- MODULE EventFeed -----------------------------
(***************************************************************************)
(* What the events service promises: a log that grows, and readers.        *)
(* What a reader will get if nothing more happens is in its pending set:   *)
(* all it asked for when it opens its stream, then every new event, unless *)
(* a younger one was sent before.  An event leaves the set by being sent,  *)
(* or, while a younger one is sent, if it was committed after that one, or *)
(* if a query breaks off after a younger one was sent.  Events.tla         *)
(* implements this specification.                                          *)
(***************************************************************************)
EXTENDS Integers

CONSTANTS
  Subscribers,  \* readers
  Kinds,        \* what their filters tell apart
  Wants,        \* Wants[s]: the kinds that s selects
  MaxSeq,       \* bound on the numbers of events
  MaxTime       \* bound on the clock

Seqs  == 1 .. MaxSeq
Times == 0 .. MaxTime

VARIABLES
  log,      \* events committed, identified with their numbers
  kind,     \* kind[e]
  stamp,    \* stamp[e]: when e was created
  before,   \* before[e]: the events committed before e
  open,     \* readers with a stream
  since,    \* since[s]: the number and the time that s gave
  sent,     \* sent[s]: events sent on its stream
  pending   \* pending[s]: events that will be sent unless something happens

readers  == <<open, since, sent>>
feedVars == <<log, kind, stamp, before, open, since, sent, pending>>

(* A reader cannot get anything else, ... *)
Fits(s, e) == e \in log /\ kind[e] \in Wants[s] /\ e > since[s].seq

(* ... and it asked for the younger part of that. *)
AskedFor(s, e) == Fits(s, e) /\ stamp[e] >= since[s].time

Init == /\ log = {} /\ open = {}
        /\ pending = [s \in Subscribers |-> {}]
        /\ sent = [s \in Subscribers |-> {}]

(* An event gets a number that is new, but not always the largest. *)
Append(e, k, t) ==
  /\ e \notin log
  /\ log' = log \cup {e}
  /\ kind' = [kind EXCEPT ![e] = k]
  /\ stamp' = [stamp EXCEPT ![e] = t]
  /\ before' = [before EXCEPT ![e] = log]
  /\ \A s \in open :
       /\ pending[s] \subseteq pending'[s] /\ pending'[s] \subseteq pending[s] \cup {e}
       /\ AskedFor(s, e)' /\ (\A f \in sent[s] : f < e) => e \in pending'[s]
  /\ \A s \in Subscribers \ open : pending'[s] = pending[s]
  /\ UNCHANGED readers

(* Steps of one reader; the log and the other readers stay. *)
Reads(s) ==
  /\ UNCHANGED <<log, kind, stamp, before>>
  /\ \A r \in Subscribers \ {s} : pending'[r] = pending[r]

Open(s, q, t) ==
  /\ s \notin open
  /\ open' = open \cup {s}
  /\ since' = [since EXCEPT ![s] = [seq |-> q, time |-> t]]
  /\ sent' = [sent EXCEPT ![s] = {}]
  /\ pending'[s] = {e \in log : AskedFor(s, e)'}
  /\ Reads(s)

(* While e is sent, an older event d may slip out of the pending set only  *)
(* if d was committed after e, or s has it or did not ask for it.          *)
MaySlip(s, d, e) == d < e /\ (e \in before[d] \/ d \in sent[s] \/ ~AskedFor(s, d))

Send(s, e) ==
  /\ e \in pending[s]
  /\ sent' = [sent EXCEPT ![s] = sent[s] \cup {e}]
  /\ \A d \in pending[s] \ {e} : d \in pending'[s] \/ MaySlip(s, d, e)
  /\ e \notin pending'[s]
  /\ \A d \in pending'[s] : Fits(s, d)
  /\ UNCHANGED <<open, since>>
  /\ Reads(s)

BreakOff(s) ==
  /\ pending'[s] \subseteq pending[s]
  /\ \A d \in pending[s] \ pending'[s] : \E f \in sent[s] : f > d
  /\ UNCHANGED readers
  /\ Reads(s)

(* What it was asked for is forgotten with it. *)
Close(s) ==
  /\ s \in open
  /\ open' = open \ {s}
  /\ since' = [since EXCEPT ![s] = [seq |-> 0, time |-> 0]]
  /\ sent' = [sent EXCEPT ![s] = {}]
  /\ pending'[s] = {}
  /\ Reads(s)

Next == \/ \E e \in Seqs, k \in Kinds, t \in Times : Append(e, k, t)
        \/ \E s \in Subscribers :
             \/ \E q \in 0 .. MaxSeq, t \in Times : Open(s, q, t)
             \/ \E e \in pending[s] : Send(s, e)
             \/ BreakOff(s) \/ Close(s)

Spec == Init /\ [][Next]_feedVars
=============================================================================
