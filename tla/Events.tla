------------------------------- MODULE Events -------------------------------
(***************************************************************************)
(* The events service, pkg/services/events/server.go: publishers insert    *)
(* rows, subscribers follow the table by remembering the last sequence     *)
(* number that they sent.                                                  *)
(*                                                                         *)
(* PostgreSQL draws the number of a row when the INSERT executes and shows *)
(* the row when it commits, so rows can appear out of order.  An event is  *)
(* identified with its number.                                             *)
(***************************************************************************)
EXTENDS Integers

CONSTANTS
  Publishers,   \* callers of Publish, one call each at a time
  Subscribers,  \* callers of Subscribe, one stream each at a time
  Kinds,        \* what the filters tell apart: topics and labels
  Wants,        \* Wants[s]: the kinds that the topic and labels of s select
  NoKind,       \* no kind
  MaxSeq,       \* bound on the numbers drawn
  MaxTime       \* bound on the clock

ASSUME EventsAssumption ==
  /\ Wants \in [Subscribers -> SUBSET Kinds]
  /\ NoKind \notin Kinds
  /\ MaxSeq \in Nat /\ MaxTime \in Nat

Seqs  == 1 .. MaxSeq
Times == 0 .. MaxTime

VARIABLES
  drawn,   \* last number drawn from the sequence
  rows,    \* committed events
  kind,    \* kind[e]: topic and labels of e
  stamp,   \* stamp[e]: created_at of e
  earlier, \* earlier[e]: the events committed before e, for the properties
  now,     \* the clock of the servers
  pub,     \* the call of each publisher
  pc,      \* where the stream of each subscriber is
  req,     \* req[s]: since_sequence and since_created_at, 0 if not given
  last,    \* the variable lastSequence
  cut,     \* the variable timestamp, 0 for nil
  batch,   \* rows of the current query that were not sent yet
  got,     \* events sent on the stream
  lost     \* unsent rows that a query left below lastSequence when it broke
           \* off, for the properties

table == <<drawn, rows, kind, stamp, earlier>>
subs  == <<pc, req, last, cut, batch, got, lost>>
vars  == <<drawn, rows, kind, stamp, earlier, now, pub, pc, req, last, cut, batch,
           got, lost>>

Call(at, seq, time, k) == [at |-> at, seq |-> seq, time |-> time, kind |-> k]

Idle == Call("idle", 0, 0, NoKind)

NoRequest == [seq |-> 0, time |-> 0]

TypeOK ==
  /\ drawn \in 0 .. MaxSeq
  /\ rows \subseteq 1 .. drawn
  /\ kind \in [Seqs -> Kinds \cup {NoKind}]
  /\ stamp \in [Seqs -> Times]
  /\ earlier \in [Seqs -> SUBSET Seqs]
  /\ now \in Times
  /\ pub \in [Publishers -> [at: {"idle", "stamped", "inserted", "notify"},
                             seq: 0 .. MaxSeq, time: Times, kind: Kinds \cup {NoKind}]]
  /\ pc \in [Subscribers -> {"off", "wait", "send"}]
  /\ req \in [Subscribers -> [seq: 0 .. MaxSeq, time: Times]]
  /\ last \in [Subscribers -> 0 .. MaxSeq]
  /\ cut \in [Subscribers -> Times]
  /\ batch \in [Subscribers -> SUBSET Seqs]
  /\ got \in [Subscribers -> SUBSET Seqs]
  /\ lost \in [Subscribers -> SUBSET Seqs]

Init ==
  /\ drawn = 0 /\ rows = {} /\ now = 0
  /\ kind = [e \in Seqs |-> NoKind] /\ stamp = [e \in Seqs |-> 0]
  /\ earlier = [e \in Seqs |-> {}]
  /\ pub = [p \in Publishers |-> Idle]
  /\ pc = [s \in Subscribers |-> "off"]
  /\ req = [s \in Subscribers |-> NoRequest]
  /\ last = [s \in Subscribers |-> 0] /\ cut = [s \in Subscribers |-> 0]
  /\ batch = [s \in Subscribers |-> {}] /\ got = [s \in Subscribers |-> {}]
  /\ lost = [s \in Subscribers |-> {}]

-----------------------------------------------------------------------------
(* Publish *)

(* now := time.Now() *)
PublishStamp(p, k) ==
  /\ pub[p] = Idle
  /\ pub' = [pub EXCEPT ![p] = Call("stamped", 0, now, k)]
  /\ UNCHANGED <<table, now, subs>>

(* Mutant of PublishInsert: the number is one above the highest committed. *)
InsertAfterHighest(p) ==
  /\ pub[p].at = "stamped"
  /\ drawn < MaxSeq
  /\ drawn' = IF drawn \in rows \cup {0} THEN drawn + 1 ELSE drawn
  /\ pub' = [pub EXCEPT ![p] = Call("inserted", drawn', pub[p].time, pub[p].kind)]
  /\ UNCHANGED <<rows, kind, stamp, earlier, now, subs>>

(* The INSERT executes and draws its number. *)
PublishInsert(p) ==
  /\ pub[p].at = "stamped"
  /\ drawn < MaxSeq
  /\ drawn' = drawn + 1
  /\ pub' = [pub EXCEPT ![p] = Call("inserted", drawn', pub[p].time, pub[p].kind)]
  /\ UNCHANGED <<rows, kind, stamp, earlier, now, subs>>

(* It commits. *)
PublishCommit(p) ==
  LET e == pub[p].seq IN
  /\ pub[p].at = "inserted"
  /\ rows' = rows \cup {e}
  /\ kind' = [kind EXCEPT ![e] = pub[p].kind]
  /\ stamp' = [stamp EXCEPT ![e] = pub[p].time]
  /\ earlier' = [earlier EXCEPT ![e] = rows]
  /\ pub' = [pub EXCEPT ![p] = Call("notify", e, pub[p].time, pub[p].kind)]
  /\ UNCHANGED <<drawn, now, subs>>

(* NOTIFY; a tick of a stream may come at any time anyway (Ticker.tla). *)
PublishNotify(p) ==
  /\ pub[p].at = "notify"
  /\ pub' = [pub EXCEPT ![p] = Idle]
  /\ UNCHANGED <<table, now, subs>>

(* A statement fails, the caller goes away or the server dies: a number    *)
(* that was drawn is gone, a row that was committed stays.                 *)
PublishFails(p) ==
  /\ pub[p] # Idle
  /\ pub' = [pub EXCEPT ![p] = Idle]
  /\ UNCHANGED <<table, now, subs>>

-----------------------------------------------------------------------------
(* Subscribe *)

(* Mutant of Subscribe: the stream starts with what comes next. *)
SubscribeFromNow(s, q, t) ==
  /\ pc[s] = "off"
  /\ pc' = [pc EXCEPT ![s] = "wait"]
  /\ req' = [req EXCEPT ![s] = [seq |-> q, time |-> t]]
  /\ last' = [last EXCEPT ![s] = IF q = 0 THEN drawn ELSE q]
  /\ cut' = [cut EXCEPT ![s] = t]
  /\ got' = [got EXCEPT ![s] = {}]
  /\ lost' = [lost EXCEPT ![s] = {}]
  /\ UNCHANGED <<table, now, pub, batch>>

Subscribe(s, q, t) ==
  /\ pc[s] = "off"
  /\ pc' = [pc EXCEPT ![s] = "wait"]
  /\ req' = [req EXCEPT ![s] = [seq |-> q, time |-> t]]
  /\ last' = [last EXCEPT ![s] = q]
  /\ cut' = [cut EXCEPT ![s] = t]
  /\ got' = [got EXCEPT ![s] = {}]
  /\ lost' = [lost EXCEPT ![s] = {}]
  /\ UNCHANGED <<table, now, pub, batch>>

(* Mutant of Selected: >= instead of >. *)
SelectedAgain(s) == {e \in rows : /\ kind[e] \in Wants[s]
                                  /\ last[s] > 0 => e >= last[s]
                                  /\ stamp[e] >= cut[s]}

(* The WHERE clause; without a last sequence number every row passes. *)
Selected(s) == {e \in rows : /\ kind[e] \in Wants[s]
                             /\ last[s] > 0 => e > last[s]
                             /\ stamp[e] >= cut[s]}

(* A tick: the query takes its snapshot.  Without a row nothing happens. *)
Query(s) ==
  /\ pc[s] = "wait"
  /\ Selected(s) # {}
  /\ batch' = [batch EXCEPT ![s] = Selected(s)]
  /\ pc' = [pc EXCEPT ![s] = "send"]
  /\ UNCHANGED <<table, now, pub, req, last, cut, got, lost>>

(* Mutants of Send: one remembers the number after the one sent, one drops *)
(* the rows after the first.                                               *)
SendOffByOne(s) ==
  /\ pc[s] = "send"
  /\ \E e \in batch[s] :
       /\ batch' = [batch EXCEPT ![s] = batch[s] \ {e}]
       /\ got' = [got EXCEPT ![s] = got[s] \cup {e}]
       /\ last' = [last EXCEPT ![s] = e + 1]
       /\ cut' = [cut EXCEPT ![s] = 0]
       /\ pc' = [pc EXCEPT ![s] = IF batch[s] = {e} THEN "wait" ELSE "send"]
  /\ UNCHANGED <<table, now, pub, req, lost>>

SendOnlyOne(s) ==
  /\ pc[s] = "send"
  /\ \E e \in batch[s] :
       /\ batch' = [batch EXCEPT ![s] = {}]
       /\ got' = [got EXCEPT ![s] = got[s] \cup {e}]
       /\ last' = [last EXCEPT ![s] = e]
       /\ cut' = [cut EXCEPT ![s] = 0]
       /\ pc' = [pc EXCEPT ![s] = "wait"]
  /\ UNCHANGED <<table, now, pub, req, lost>>

(* resp.Send(&event), one row after the other, in whatever order the       *)
(* database returns them: there is no ORDER BY.                            *)
Send(s) ==
  /\ pc[s] = "send"
  /\ \E e \in batch[s] :
       /\ batch' = [batch EXCEPT ![s] = batch[s] \ {e}]
       /\ got' = [got EXCEPT ![s] = got[s] \cup {e}]
       /\ last' = [last EXCEPT ![s] = e]
       /\ cut' = [cut EXCEPT ![s] = 0]
       /\ pc' = [pc EXCEPT ![s] = IF batch[s] = {e} THEN "wait" ELSE "send"]
  /\ UNCHANGED <<table, now, pub, req, lost>>

(* Next is false for a query that breaks off as for one that is read, and  *)
(* nobody asks rows.Err which it is: the stream waits for its next tick.   *)
QueryBreaks(s) ==
  /\ pc[s] = "send"
  /\ batch' = [batch EXCEPT ![s] = {}]
  /\ lost' = [lost EXCEPT ![s] = lost[s] \cup {e \in batch[s] : e < last[s]}]
  /\ pc' = [pc EXCEPT ![s] = "wait"]
  /\ UNCHANGED <<table, now, pub, req, last, cut, got>>

(* The context of the stream ends or something else fails; the variables   *)
(* of the handler are gone.                                                *)
StreamBreaks(s) ==
  /\ pc[s] # "off"
  /\ pc' = [pc EXCEPT ![s] = "off"]
  /\ req' = [req EXCEPT ![s] = NoRequest]
  /\ last' = [last EXCEPT ![s] = 0]
  /\ cut' = [cut EXCEPT ![s] = 0]
  /\ batch' = [batch EXCEPT ![s] = {}]
  /\ got' = [got EXCEPT ![s] = {}]
  /\ lost' = [lost EXCEPT ![s] = {}]
  /\ UNCHANGED <<table, now, pub>>

-----------------------------------------------------------------------------

Tick ==
  /\ now < MaxTime
  /\ now' = now + 1
  /\ UNCHANGED <<table, pub, subs>>

PublishStep(p) ==
  \/ \E k \in Kinds : PublishStamp(p, k)
  \/ PublishInsert(p) \/ PublishCommit(p) \/ PublishNotify(p) \/ PublishFails(p)

SubscribeStep(s) ==
  \/ \E q \in 0 .. MaxSeq, t \in Times : Subscribe(s, q, t)
  \/ Query(s) \/ Send(s) \/ QueryBreaks(s) \/ StreamBreaks(s)

Next == \/ Tick
        \/ \E p \in Publishers : PublishStep(p)
        \/ \E s \in Subscribers : SubscribeStep(s)

Spec == Init /\ [][Next]_vars

(* Ticks keep coming to a stream, and it sends what it read; that a query  *)
(* breaks off before its first row does not happen for ever.               *)
FairSpec == Spec /\ \A s \in Subscribers : WF_vars(Query(s)) /\ SF_vars(Send(s))

-----------------------------------------------------------------------------
(* Correctness *)

(* The events that s asked for. *)
AskedFor(s, e) ==
  e \in rows /\ kind[e] \in Wants[s] /\ e > req[s].seq /\ stamp[e] >= req[s].time

(* A younger event had been committed before e was, and s has it, or a     *)
(* query broke off between that one and e: s cannot learn of e any more.   *)
Missed(s, e) == e \in lost[s] \/ \E f \in got[s] \cap earlier[e] : f > e

(* A stream skips an event only if a younger one was committed first, or   *)
(* was sent by a query that broke off before the older one.  Neither the   *)
(* order in which rows are sent, nor the step back of lastSequence that it *)
(* can cause, nor a commit between query and send loses anything else      *)
(* (server.go:146-149, 175-190).                                           *)
NothingElseSkipped ==
  \A s \in Subscribers, e \in Seqs :
    pc[s] # "off" /\ AskedFor(s, e) /\ e <= last[s] =>
      e \in got[s] \cup batch[s] \/ Missed(s, e)

(* A subscriber gets every other event it asked for as long as its stream  *)
(* lasts.                                                                  *)
AllDelivered ==
  \A s \in Subscribers, e \in Seqs :
    pc[s] # "off" /\ AskedFor(s, e) ~> e \in got[s] \/ Missed(s, e) \/ pc[s] = "off"

(* "only show events newer than this" (subscribe.go:90-91), of the number  *)
(* and of the time given.                                                  *)
SinceSequence == \A s \in Subscribers : \A e \in got[s] : e > req[s].seq

SinceTime == \A s \in Subscribers : \A e \in got[s] : stamp[e] >= req[s].time

(* The inductive invariant behind NothingElseSkipped, SinceSequence and    *)
(* the refinement of EventFeed.                                            *)

CallsWellFormed == \A p \in Publishers : pub[p].at # "idle" => pub[p].kind \in Kinds

(* A number on its way to the table belongs to one call. *)
NumbersUnique == \A p \in Publishers : pub[p].at = "inserted" =>
  /\ pub[p].seq \in 1 .. drawn /\ pub[p].seq \notin rows
  /\ \A r \in Publishers : pub[r].at = "inserted" /\ pub[r].seq = pub[p].seq => p = r

StreamsSound == \A s \in Subscribers :
  /\ pc[s] # "send" => batch[s] = {}
  /\ batch[s] \cup got[s] \subseteq rows
  /\ \A e \in batch[s] \cup got[s] : e > req[s].seq /\ kind[e] \in Wants[s]
  /\ \A e \in batch[s] : e # last[s] /\ stamp[e] >= cut[s]
  /\ last[s] = req[s].seq \/ last[s] \in got[s]
  /\ cut[s] \in {0, req[s].time}

(* What was or will be sent before an event that is left out was committed *)
(* before it; or the event is there for the next query.                    *)
LeftOut == \A s \in Subscribers, e \in Seqs :
  pc[s] # "off" /\ AskedFor(s, e) /\ e \notin got[s] \cup batch[s] =>
    \/ Missed(s, e)
    \/ \A f \in got[s] \cup batch[s] : f > e => f \in earlier[e]
    \/ pc[s] = "wait" /\ e > last[s]

(* A query misses only what was committed after all that it still has to   *)
(* send, also when lastSequence moved back and forth since its snapshot.   *)
BatchComplete == \A s \in Subscribers, d \in Seqs :
  /\ pc[s] = "send" /\ AskedFor(s, d) /\ d \notin got[s] \cup batch[s]
  /\ d > last[s] \/ \E e \in batch[s] : d > e
  => batch[s] \subseteq earlier[d]

IndInv == /\ TypeOK /\ CallsWellFormed /\ NumbersUnique
          /\ StreamsSound /\ LeftOut /\ BatchComplete

(* The service implements EventFeed when a stream's pending events are     *)
(* those that its query has read or the next query would select: each      *)
(* step of the code keeps every one of them except as EventFeed allows.    *)

Streams == {s \in Subscribers : pc[s] # "off"}

Pending == [s \in Subscribers |-> IF pc[s] = "off" THEN {} ELSE batch[s] \cup Selected(s)]

Feed == INSTANCE EventFeed
        WITH log <- rows, before <- earlier, open <- Streams, since <- req,
             sent <- got, pending <- Pending

FeedSpec == Feed!Spec

(* With that a subscriber lacks an event for good only if it got a younger *)
(* one: whatever is younger than all it got is still pending.              *)
GapsAreOlder == \A s \in Streams, e \in Seqs :
  AskedFor(s, e) /\ (\A f \in got[s] : f < e) => e \in Pending[s]

=============================================================================
