---------------------------- MODULE EventsProofs ----------------------------
(***************************************************************************)
(* Proofs about the events service, for any number of publishers,          *)
(* subscribers and events.                                                 *)
(***************************************************************************)
EXTENDS Events, TLAPS

(* The invariant holds at the start. *)
LEMMA InitInd == Init => IndInv
<1> SUFFICES ASSUME Init PROVE IndInv
  OBVIOUS
<1> USE EventsAssumption DEF Init, NoRequest
<1>1. TypeOK
  BY DEF TypeOK, Idle, Call, Seqs, Times
<1>2. NumbersUnique /\ CallsWellFormed
  BY DEF NumbersUnique, CallsWellFormed, Idle, Call
<1>3. StreamsSound /\ LeftOut /\ BatchComplete
  BY DEF StreamsSound, LeftOut, BatchComplete
<1> QED
  BY <1>1, <1>2, <1>3 DEF IndInv

(* A step of a publisher that commits nothing. *)
LEMMA NoCommit ==
  ASSUME IndInv, UNCHANGED <<rows, kind, stamp, earlier, subs>>
  PROVE  StreamsSound' /\ LeftOut' /\ BatchComplete'
<1>1. StreamsSound'
  BY DEF IndInv, StreamsSound, subs
<1>2. LeftOut'
  BY DEF IndInv, LeftOut, AskedFor, Missed, subs
<1>3. BatchComplete'
  BY DEF IndInv, BatchComplete, AskedFor, subs
<1> QED
  BY <1>1, <1>2, <1>3

(* Publish keeps the invariant (server.go:61-118). *)
LEMMA PublishInd ==
  ASSUME IndInv, NEW p \in Publishers, PublishStep(p)
  PROVE  IndInv'
<1> USE EventsAssumption DEF IndInv
<1>1. ASSUME NEW k \in Kinds, PublishStamp(p, k) PROVE IndInv'
  <2>1. TypeOK'
    BY <1>1 DEF PublishStamp, TypeOK, Call, table, subs, Times
  <2>2. NumbersUnique' /\ CallsWellFormed'
    BY <1>1 DEF PublishStamp, NumbersUnique, CallsWellFormed, TypeOK, Call, table
  <2> QED
    BY <1>1, <2>1, <2>2, NoCommit DEF PublishStamp, table
<1>2. CASE PublishInsert(p)
  <2>1. TypeOK'
    BY <1>2 DEF PublishInsert, TypeOK, Call, subs
  <2>3. CallsWellFormed'
    BY <1>2 DEF PublishInsert, CallsWellFormed, TypeOK, Call
  <2>2. NumbersUnique'
    <3>1. drawn + 1 \notin rows /\ drawn \in Nat
      BY DEF TypeOK
    <3>2. \A r \in Publishers : r # p => pub'[r] = pub[r]
      BY <1>2 DEF PublishInsert, TypeOK
    <3>3. pub'[p].seq = drawn + 1 /\ pub'[p].at = "inserted"
      BY <1>2 DEF PublishInsert, TypeOK, Call
    <3>4. rows' = rows /\ drawn' = drawn + 1
      BY <1>2 DEF PublishInsert
    <3> SUFFICES ASSUME NEW q \in Publishers, pub'[q].at = "inserted"
                 PROVE  /\ pub'[q].seq \in 1 .. drawn' /\ pub'[q].seq \notin rows'
                        /\ \A r \in Publishers :
                             pub'[r].at = "inserted" /\ pub'[r].seq = pub'[q].seq => q = r
      BY DEF NumbersUnique
    <3>5. CASE q = p
      BY <3>1, <3>2, <3>3, <3>4, <3>5 DEF NumbersUnique
    <3>6. CASE q # p
      BY <3>1, <3>2, <3>3, <3>4, <3>6 DEF NumbersUnique
    <3> QED
      BY <3>5, <3>6
  <2> QED
    BY <1>2, <2>1, <2>2, <2>3, NoCommit DEF PublishInsert
<1>3. CASE PublishCommit(p)
  <2> DEFINE e == pub[p].seq
  <2>1. e \in 1 .. drawn /\ e \in Seqs /\ e \notin rows
    BY <1>3 DEF PublishCommit, NumbersUnique, TypeOK, Seqs
  <2>2. /\ rows' = rows \cup {e}
        /\ kind' = [kind EXCEPT ![e] = pub[p].kind]
        /\ stamp' = [stamp EXCEPT ![e] = pub[p].time]
        /\ earlier' = [earlier EXCEPT ![e] = rows]
        /\ UNCHANGED <<drawn, now, subs>>
        /\ pub' = [pub EXCEPT ![p] = Call("notify", e, pub[p].time, pub[p].kind)]
    BY <1>3 DEF PublishCommit
  <2>3. TypeOK'
    <3>1. kind' \in [Seqs -> Kinds \cup {NoKind}] /\ stamp' \in [Seqs -> Times]
      BY <2>1, <2>2 DEF TypeOK
    <3>2. earlier' \in [Seqs -> SUBSET Seqs]
      BY <2>1, <2>2 DEF TypeOK, Seqs
    <3>3. pub' \in [Publishers -> [at: {"idle", "stamped", "inserted", "notify"},
                                   seq: 0 .. MaxSeq, time: Times, kind: Kinds \cup {NoKind}]]
      BY <2>2 DEF TypeOK, Call
    <3>4. rows' \subseteq 1 .. drawn'
      BY <2>1, <2>2 DEF TypeOK
    <3> QED
      BY <2>2, <3>1, <3>2, <3>3, <3>4 DEF TypeOK, subs
  <2>4. NumbersUnique'
    <3>1. pub'[p].at # "inserted" /\ \A q \in Publishers : q # p => pub'[q] = pub[q]
      BY <2>2 DEF TypeOK, Call
    <3>2. \A q \in Publishers : q # p /\ pub[q].at = "inserted" => pub[q].seq # e
      BY <1>3 DEF PublishCommit, NumbersUnique
    <3> QED
      BY <2>2, <3>1, <3>2 DEF NumbersUnique
  <2>5. CallsWellFormed'
    BY <1>3, <2>2 DEF PublishCommit, CallsWellFormed, TypeOK, Call
  <2>7. StreamsSound'
    <3>1. \A d \in rows : kind'[d] = kind[d] /\ stamp'[d] = stamp[d]
      BY <2>1, <2>2 DEF TypeOK, Seqs
    <3> QED
      BY <2>2, <3>1 DEF StreamsSound, subs
  <2>8. BatchComplete'
    <3> SUFFICES ASSUME NEW s \in Subscribers, NEW d \in Seqs,
                        pc[s] = "send", AskedFor(s, d)', d \notin got[s] \cup batch[s],
                        d > last[s] \/ \E f \in batch[s] : d > f
                 PROVE  batch[s] \subseteq earlier'[d]
      BY <2>2 DEF BatchComplete, subs
    <3>1. CASE d = e
      BY <2>1, <2>2, <3>1 DEF StreamsSound, TypeOK
    <3>2. CASE d # e
      <4>1. AskedFor(s, d) /\ earlier'[d] = earlier[d]
        BY <2>1, <2>2, <3>2 DEF AskedFor, TypeOK, subs
      <4> QED
        BY <4>1 DEF BatchComplete
    <3> QED
      BY <3>1, <3>2
  <2>6. LeftOut'
    <3> SUFFICES ASSUME NEW s \in Subscribers, NEW d \in Seqs,
                        pc[s] # "off", AskedFor(s, d)', d \notin got[s] \cup batch[s]
                 PROVE  \/ Missed(s, d)'
                        \/ \A f \in got[s] \cup batch[s] : f > d => f \in earlier'[d]
                        \/ pc[s] = "wait" /\ d > last[s]
      BY <2>2 DEF LeftOut, subs
    <3>1. CASE d = e
      BY <2>1, <2>2, <3>1 DEF StreamsSound, TypeOK
    <3>2. CASE d # e
      <4>1. AskedFor(s, d) /\ earlier'[d] = earlier[d] /\ got' = got /\ lost' = lost
        BY <2>1, <2>2, <3>2 DEF AskedFor, TypeOK, subs
      <4> QED
        BY <4>1 DEF LeftOut, Missed
    <3> QED
      BY <3>1, <3>2
  <2> QED
    BY <2>3, <2>4, <2>5, <2>6, <2>7, <2>8
<1>4. CASE PublishNotify(p) \/ PublishFails(p)
  <2>0. pub' = [pub EXCEPT ![p] = Idle] /\ UNCHANGED <<table, now, subs>>
    BY <1>4 DEF PublishNotify, PublishFails
  <2>1. TypeOK'
    BY <2>0 DEF TypeOK, Idle, Call, table, subs, Times
  <2>2. NumbersUnique'
    <3>1. pub'[p].at = "idle" /\ \A q \in Publishers : q # p => pub'[q] = pub[q]
      BY <2>0 DEF TypeOK, Idle, Call
    <3> QED
      BY <2>0, <3>1 DEF NumbersUnique, table
  <2>3. CallsWellFormed'
    BY <2>0 DEF CallsWellFormed, TypeOK, Idle, Call
  <2> QED
    BY <1>4, <2>1, <2>2, <2>3, NoCommit DEF PublishNotify, PublishFails, table
<1> QED
  BY <1>1, <1>2, <1>3, <1>4 DEF PublishStep

(* What passes the time filter that was given passes the one in use.       *)
LEMMA CutReached ==
  ASSUME IndInv, NEW s \in Subscribers, NEW e \in Seqs, stamp[e] >= req[s].time
  PROVE  stamp[e] >= cut[s]
<1>1. stamp[e] \in 0 .. MaxTime
  BY DEF IndInv, TypeOK, Times
<1>2. stamp[e] >= 0
  BY <1>1
<1> QED
  BY <1>2 DEF IndInv, StreamsSound

(* Subscribe keeps the invariant (server.go:120-199). *)
LEMMA SubscribeInd ==
  ASSUME IndInv, NEW s \in Subscribers, SubscribeStep(s)
  PROVE  IndInv'
<1> USE EventsAssumption DEF IndInv
<1>1. NumbersUnique' /\ CallsWellFormed' /\ UNCHANGED table
  BY DEF SubscribeStep, Subscribe, Query, Send, QueryBreaks, StreamBreaks, NumbersUnique,
     CallsWellFormed, table
<1>2. ASSUME NEW q \in 0 .. MaxSeq, NEW t \in Times, Subscribe(s, q, t) PROVE IndInv'
  <2>1. TypeOK'
    <3>1. req' \in [Subscribers -> [seq: 0 .. MaxSeq, time: Times]]
      BY <1>2 DEF Subscribe, TypeOK
    <3> QED
      BY <1>2, <3>1 DEF Subscribe, TypeOK, table
  <2>2. StreamsSound'
    BY <1>2 DEF Subscribe, TypeOK, StreamsSound, table
  <2>3. LeftOut'
    <3> SUFFICES ASSUME NEW u \in Subscribers, NEW e \in Seqs,
                        pc'[u] # "off", AskedFor(u, e)', e \notin got'[u] \cup batch'[u]
                 PROVE  \/ Missed(u, e)'
                        \/ \A f \in got'[u] \cup batch'[u] : f > e => f \in earlier'[e]
                        \/ pc'[u] = "wait" /\ e > last'[u]
      BY DEF LeftOut
    <3>1. CASE u = s
      BY <1>2, <3>1 DEF Subscribe, TypeOK, StreamsSound
    <3>2. CASE u # s
      <4>1. /\ AskedFor(u, e) /\ pc[u] # "off" /\ got'[u] = got[u] /\ batch'[u] = batch[u]
            /\ earlier' = earlier /\ lost'[u] = lost[u] /\ pc'[u] = pc[u] /\ last'[u] = last[u]
        BY <1>2, <3>2 DEF Subscribe, AskedFor, TypeOK, table
      <4> QED
        BY <4>1 DEF LeftOut, Missed
    <3> QED
      BY <3>1, <3>2
  <2>4. BatchComplete'
    <3>1. \A u \in Subscribers : pc'[u] = "send" =>
            /\ pc[u] = "send" /\ got'[u] = got[u] /\ batch'[u] = batch[u]
            /\ last'[u] = last[u] /\ req'[u] = req[u]
      BY <1>2 DEF Subscribe, TypeOK
    <3> QED
      BY <1>1, <3>1 DEF BatchComplete, AskedFor, table
  <2> QED
    BY <1>1, <2>1, <2>2, <2>3, <2>4
<1>3. CASE Query(s)
  <2>1. TypeOK'
    <3>1. Selected(s) \in SUBSET Seqs
      <4>1. rows \subseteq Seqs
        BY DEF TypeOK, Seqs
      <4> QED
        BY <4>1 DEF Selected
    <3>2. batch' \in [Subscribers -> SUBSET Seqs] /\ pc' \in [Subscribers -> {"off", "wait", "send"}]
      BY <1>3, <3>1 DEF Query, TypeOK
    <3>3. UNCHANGED <<table, now, pub, req, last, cut, got, lost>>
      BY <1>3 DEF Query
    <3> QED
      BY <3>2, <3>3 DEF TypeOK, table
  <2>2. StreamsSound'
    <3>1. \A e \in Selected(s) : e > req[s].seq /\ e # last[s]
      BY DEF Selected, StreamsSound, TypeOK
    <3>2. /\ Selected(s) \subseteq rows
          /\ \A e \in Selected(s) : kind[e] \in Wants[s] /\ stamp[e] >= cut[s]
      BY DEF Selected
    <3>3. /\ UNCHANGED <<rows, kind, stamp, req, last, cut, got>> /\ pc'[s] = "send"
          /\ \A u \in Subscribers : batch'[u] = IF u = s THEN Selected(s) ELSE batch[u]
          /\ \A u \in Subscribers : u # s => pc'[u] = pc[u]
      BY <1>3 DEF Query, TypeOK, table
    <3> QED
      BY <3>1, <3>2, <3>3 DEF StreamsSound
  <2>3. LeftOut'
    <3> SUFFICES ASSUME NEW u \in Subscribers, NEW e \in Seqs,
                        pc'[u] # "off", AskedFor(u, e)', e \notin got'[u] \cup batch'[u]
                 PROVE  \/ Missed(u, e)'
                        \/ \A f \in got'[u] \cup batch'[u] : f > e => f \in earlier'[e]
                        \/ pc'[u] = "wait" /\ e > last'[u]
      BY DEF LeftOut
    <3>1. AskedFor(u, e) /\ got' = got /\ earlier' = earlier /\ (Missed(u, e)' <=> Missed(u, e))
      BY <1>3 DEF Query, AskedFor, Missed, table
    <3>2. CASE u = s
      <4>1. e \notin Selected(s) /\ e \notin got[s] /\ batch[s] = {} /\ batch'[s] = Selected(s)
        BY <1>3, <3>1, <3>2 DEF Query, TypeOK, StreamsSound
      <4>2. last[s] > 0 /\ e <= last[s]
        <5>1. stamp[e] >= cut[s]
          BY <3>1, <3>2, CutReached DEF AskedFor
        <5> QED
          BY <3>1, <3>2, <4>1, <5>1 DEF AskedFor, Selected, TypeOK, Seqs
      <4>3. last[s] \in got[s] /\ last[s] > e /\ ~(e > last[s])
        BY <3>1, <3>2, <4>1, <4>2 DEF AskedFor, StreamsSound, TypeOK, Seqs
      <4>4. Missed(s, e)
        BY <1>3, <3>1, <3>2, <4>1, <4>3 DEF LeftOut, Missed, Query
      <4> QED
        BY <3>1, <3>2, <4>4
    <3>3. CASE u # s
      BY <1>3, <3>1, <3>3 DEF Query, LeftOut, TypeOK
    <3> QED
      BY <3>2, <3>3
  <2>4. BatchComplete'
    <3> SUFFICES ASSUME NEW u \in Subscribers, NEW d \in Seqs,
                        pc'[u] = "send", AskedFor(u, d)', d \notin got'[u] \cup batch'[u],
                        d > last'[u] \/ \E e \in batch'[u] : d > e
                 PROVE  batch'[u] \subseteq earlier'[d]
      BY DEF BatchComplete
    <3>1. AskedFor(u, d) /\ UNCHANGED <<got, earlier, last>>
      BY <1>3 DEF Query, AskedFor, table
    <3>2. CASE u = s
      <4>1. batch'[s] = Selected(s)
        BY <1>3 DEF Query, TypeOK
      <4>2. stamp[d] >= cut[s]
        BY <3>1, <3>2, CutReached DEF AskedFor
      <4>3. last[s] > 0 /\ ~(d > last[s])
        BY <3>1, <3>2, <4>1, <4>2 DEF AskedFor, Selected, TypeOK
      <4>4. PICK e \in Selected(s) : d > e
        BY <3>1, <3>2, <4>1, <4>3
      <4>5. e \in rows /\ e > last[s]
        BY <4>3, <4>4 DEF Selected
      <4>7. e \in Int
        <5>1. rows \subseteq 1 .. drawn
          BY DEF TypeOK
        <5> QED
          BY <4>5, <5>1
      <4>6. d \in Int /\ last[s] \in Int
        BY DEF TypeOK, Seqs
      <4> QED
        BY <4>3, <4>4, <4>5, <4>6, <4>7
    <3>3. CASE u # s
      BY <1>3, <3>1, <3>3 DEF Query, BatchComplete, TypeOK
    <3> QED
      BY <3>2, <3>3
  <2> QED
    BY <1>1, <2>1, <2>2, <2>3, <2>4
<1>4. CASE Send(s)
  <2>1. PICK d \in batch[s] :
          /\ batch' = [batch EXCEPT ![s] = batch[s] \ {d}]
          /\ got' = [got EXCEPT ![s] = got[s] \cup {d}]
          /\ last' = [last EXCEPT ![s] = d]
          /\ cut' = [cut EXCEPT ![s] = 0]
          /\ pc' = [pc EXCEPT ![s] = IF batch[s] = {d} THEN "wait" ELSE "send"]
    BY <1>4 DEF Send
  <2>2. d \in Seqs /\ d \in 0 .. MaxSeq /\ 0 \in Times
    BY DEF TypeOK, Seqs, Times
  <2>3. UNCHANGED <<table, now, pub, req, lost>> /\ pc[s] = "send"
    BY <1>4 DEF Send
  <2>4. TypeOK'
    <3>1. batch' \in [Subscribers -> SUBSET Seqs] /\ got' \in [Subscribers -> SUBSET Seqs]
      BY <2>1, <2>2 DEF TypeOK
    <3>2. last' \in [Subscribers -> 0 .. MaxSeq] /\ cut' \in [Subscribers -> Times]
      BY <2>1, <2>2 DEF TypeOK
    <3>3. pc' \in [Subscribers -> {"off", "wait", "send"}]
      BY <2>1 DEF TypeOK
    <3> QED
      BY <2>3, <3>1, <3>2, <3>3 DEF TypeOK, table
  <2>5. StreamsSound'
    <3>1. UNCHANGED <<rows, kind, stamp, req>>
      BY <2>3 DEF table
    <3>2. ASSUME NEW u \in Subscribers, u # s
          PROVE  UNCHANGED <<pc[u], batch[u], got[u], last[u], cut[u]>>
      BY <2>1, <3>2 DEF TypeOK
    <3>3. /\ pc'[s] # "send" => batch'[s] = {}
          /\ batch'[s] = batch[s] \ {d} /\ got'[s] = got[s] \cup {d}
          /\ last'[s] = d /\ cut'[s] = 0
      BY <2>1 DEF TypeOK
    <3>4. \A e \in batch[s] : stamp[e] >= 0
      BY DEF TypeOK, Times
    <3> SUFFICES ASSUME NEW u \in Subscribers
                 PROVE  /\ pc'[u] # "send" => batch'[u] = {}
                        /\ batch'[u] \cup got'[u] \subseteq rows
                        /\ \A e \in batch'[u] \cup got'[u] :
                             e > req[u].seq /\ kind[e] \in Wants[u]
                        /\ \A e \in batch'[u] : e # last'[u] /\ stamp[e] >= cut'[u]
                        /\ last'[u] = req[u].seq \/ last'[u] \in got'[u]
                        /\ cut'[u] \in {0, req[u].time}
      BY <3>1 DEF StreamsSound
    <3>5. CASE u = s
      BY <3>3, <3>4, <3>5 DEF StreamsSound
    <3>6. CASE u # s
      BY <3>2, <3>6 DEF StreamsSound
    <3> QED
      BY <3>5, <3>6
  <2>6. LeftOut'
    <3> SUFFICES ASSUME NEW u \in Subscribers, NEW e \in Seqs,
                        pc'[u] # "off", AskedFor(u, e)', e \notin got'[u] \cup batch'[u]
                 PROVE  \/ Missed(u, e)'
                        \/ \A f \in got'[u] \cup batch'[u] : f > e => f \in earlier'[e]
                        \/ pc'[u] = "wait" /\ e > last'[u]
      BY DEF LeftOut
    <3>1. /\ AskedFor(u, e) /\ earlier' = earlier /\ pc[u] # "off"
          /\ got[u] \subseteq got'[u] /\ got'[u] \cup batch'[u] = got[u] \cup batch[u]
      BY <2>1, <2>3 DEF AskedFor, TypeOK, table
    <3>2. Missed(u, e) => Missed(u, e)'
      BY <2>3, <3>1 DEF Missed
    <3>3. pc[u] = "wait" /\ e > last[u] => pc'[u] = "wait" /\ e > last'[u]
      BY <2>1, <2>3 DEF TypeOK
    <3> QED
      BY <3>1, <3>2, <3>3 DEF LeftOut
  <2>7. BatchComplete'
    <3> SUFFICES ASSUME NEW u \in Subscribers, NEW e \in Seqs,
                        pc'[u] = "send", AskedFor(u, e)', e \notin got'[u] \cup batch'[u],
                        e > last'[u] \/ \E f \in batch'[u] : e > f
                 PROVE  batch'[u] \subseteq earlier'[e]
      BY DEF BatchComplete
    <3>1. AskedFor(u, e) /\ earlier' = earlier /\ pc[u] = "send"
      BY <2>1, <2>3 DEF AskedFor, TypeOK, table
    <3>2. batch'[u] \subseteq batch[u] /\ e \notin got[u] \cup batch[u]
      BY <2>1 DEF TypeOK
    <3>3. e > last[u] \/ \E f \in batch[u] : e > f
      BY <2>1 DEF TypeOK
    <3> QED
      BY <3>1, <3>2, <3>3 DEF BatchComplete
  <2> QED
    BY <1>1, <2>4, <2>5, <2>6, <2>7
<1>5. CASE QueryBreaks(s)
  <2>1. /\ UNCHANGED <<table, now, pub, req, last, cut, got>> /\ pc[s] = "send"
        /\ batch' = [batch EXCEPT ![s] = {}]
        /\ lost' = [lost EXCEPT ![s] = lost[s] \cup {e \in batch[s] : e < last[s]}]
        /\ pc' = [pc EXCEPT ![s] = "wait"]
    BY <1>5 DEF QueryBreaks
  <2>2. TypeOK'
    <3>1. lost' \in [Subscribers -> SUBSET Seqs] /\ batch' \in [Subscribers -> SUBSET Seqs]
      BY <2>1 DEF TypeOK
    <3> QED
      BY <2>1, <3>1 DEF TypeOK, table
  <2>3. StreamsSound'
    BY <2>1 DEF StreamsSound, TypeOK, table
  <2>4. LeftOut'
    <3> SUFFICES ASSUME NEW u \in Subscribers, NEW e \in Seqs,
                        pc'[u] # "off", AskedFor(u, e)', e \notin got'[u] \cup batch'[u]
                 PROVE  \/ Missed(u, e)'
                        \/ \A f \in got'[u] \cup batch'[u] : f > e => f \in earlier'[e]
                        \/ pc'[u] = "wait" /\ e > last'[u]
      BY DEF LeftOut
    <3>1. AskedFor(u, e) /\ pc[u] # "off" /\ UNCHANGED <<got, earlier, last>>
      BY <2>1 DEF AskedFor, TypeOK, table
    <3>2. CASE u = s /\ e \in batch[s]
      <4>1. e # last[s]
        BY <3>1, <3>2 DEF StreamsSound, AskedFor, TypeOK, Seqs
      <4>2. CASE e < last[s]
        <5>1. e \in lost'[s]
          BY <2>1, <3>2, <4>2 DEF TypeOK
        <5> QED
          BY <3>2, <5>1 DEF Missed
      <4>3. CASE e > last[s]
        BY <2>1, <3>2, <4>3 DEF TypeOK
      <4> QED
        BY <4>1, <4>2, <4>3 DEF TypeOK, Seqs
    <3>3. CASE ~(u = s /\ e \in batch[s])
      <4>1. e \notin got[u] \cup batch[u] /\ batch'[u] \subseteq batch[u] /\ lost[u] \subseteq lost'[u]
        BY <2>1, <3>1, <3>3 DEF TypeOK
      <4>2. pc[u] = "wait" => pc'[u] = "wait"
        BY <2>1 DEF TypeOK
      <4>3. Missed(u, e) => Missed(u, e)'
        BY <3>1, <4>1 DEF Missed
      <4> QED
        BY <3>1, <4>1, <4>2, <4>3 DEF LeftOut
    <3> QED
      BY <3>2, <3>3
  <2>5. BatchComplete'
    <3>1. \A u \in Subscribers : pc'[u] = "send" => pc[u] = "send" /\ batch'[u] = batch[u]
      BY <2>1 DEF TypeOK
    <3> QED
      BY <2>1, <3>1 DEF BatchComplete, AskedFor, table
  <2> QED
    BY <1>1, <2>2, <2>3, <2>4, <2>5
<1>6. CASE StreamBreaks(s)
  <2>0. 0 \in 0 .. MaxSeq /\ 0 \in Times
    BY DEF Times
  <2>1. TypeOK'
    <3>1. NoRequest \in [seq: 0 .. MaxSeq, time: Times]
      BY <2>0 DEF NoRequest
    <3>2. /\ pc' \in [Subscribers -> {"off", "wait", "send"}]
          /\ req' \in [Subscribers -> [seq: 0 .. MaxSeq, time: Times]]
          /\ last' \in [Subscribers -> 0 .. MaxSeq] /\ cut' \in [Subscribers -> Times]
      BY <1>6, <2>0, <3>1 DEF StreamBreaks, TypeOK
    <3>3. /\ batch' \in [Subscribers -> SUBSET Seqs] /\ got' \in [Subscribers -> SUBSET Seqs]
          /\ lost' \in [Subscribers -> SUBSET Seqs]
      BY <1>6 DEF StreamBreaks, TypeOK
    <3>4. UNCHANGED <<table, now, pub>>
      BY <1>6 DEF StreamBreaks
    <3> QED
      BY <3>2, <3>3, <3>4 DEF TypeOK, table
  <2>2. /\ pc'[s] = "off" /\ batch'[s] = {} /\ got'[s] = {}
        /\ req'[s].seq = 0 /\ last'[s] = 0 /\ cut'[s] = 0
    BY <1>6 DEF StreamBreaks, TypeOK, NoRequest
  <2>3. \A u \in Subscribers \ {s} :
          UNCHANGED <<pc[u], req[u], last[u], cut[u], batch[u], got[u], lost[u]>>
    BY <1>6 DEF StreamBreaks, TypeOK
  <2>4. UNCHANGED <<rows, kind, stamp, earlier>>
    BY <1>6 DEF StreamBreaks, table
  <2>5. StreamsSound'
    BY <2>2, <2>3, <2>4 DEF StreamsSound
  <2>6. LeftOut'
    BY <2>2, <2>3, <2>4 DEF LeftOut, AskedFor, Missed
  <2>7. BatchComplete'
    BY <2>2, <2>3, <2>4 DEF BatchComplete, AskedFor
  <2> QED
    BY <1>1, <2>1, <2>5, <2>6, <2>7
<1> QED
  BY <1>2, <1>3, <1>4, <1>5, <1>6 DEF SubscribeStep

(* The inductive invariant holds in every reachable state. *)
THEOREM Inductive == Spec => []IndInv
<1>1. IndInv /\ [Next]_vars => IndInv'
  <2> SUFFICES ASSUME IndInv, [Next]_vars PROVE IndInv'
    OBVIOUS
  <2>1. CASE Tick
    BY <2>1, NoCommit, EventsAssumption
    DEF Tick, IndInv, TypeOK, CallsWellFormed, NumbersUnique, table, subs, Times
  <2>2. CASE UNCHANGED vars
    BY <2>2, NoCommit DEF vars, IndInv, TypeOK, CallsWellFormed, NumbersUnique, subs
  <2> QED
    BY <2>1, <2>2, PublishInd, SubscribeInd DEF Next
<1> QED
  BY <1>1, InitInd, PTL DEF Spec

(* A stream leaves out only events that were committed after a younger one *)
(* that it sent, and those that a query which broke off had not come to    *)
(* (server.go:134-197).                                                    *)
THEOREM NothingSkipped == Spec => []NothingElseSkipped
<1>1. IndInv => NothingElseSkipped
  <2> SUFFICES ASSUME IndInv, NEW s \in Subscribers, NEW e \in Seqs,
                      pc[s] # "off", AskedFor(s, e), e <= last[s], e \notin got[s] \cup batch[s]
               PROVE  Missed(s, e)
    BY DEF NothingElseSkipped
  <2>1. last[s] \in got[s] /\ last[s] > e /\ ~(e > last[s])
    BY DEF IndInv, TypeOK, StreamsSound, AskedFor, Seqs
  <2> QED
    BY <2>1 DEF IndInv, LeftOut, Missed
<1> QED
  BY <1>1, Inductive, PTL

(* The variables of the events service keep their types. *)
THEOREM TypeCorrect == Spec => []TypeOK
<1>1. IndInv => TypeOK
  BY DEF IndInv
<1> QED
  BY <1>1, Inductive, PTL

(* Nothing at or below the given number is sent, although lastSequence can *)
(* step back (server.go:146-149, 190).                                     *)
THEOREM SinceGiven == Spec => []SinceSequence
<1>1. IndInv => SinceSequence
  BY DEF IndInv, StreamsSound, SinceSequence
<1> QED
  BY <1>1, Inductive, PTL

-----------------------------------------------------------------------------
(* The refinement *)

(* The log is empty and no stream is open at the start. *)
LEMMA InitRefines == Init => Feed!Init
  BY DEF Init, Feed!Init, Streams, Pending

(* What a stream will get depends on the table and its own variables. *)
LEMMA PendingSame ==
  ASSUME NEW s \in Subscribers, UNCHANGED <<rows, kind, stamp>>,
         UNCHANGED <<pc[s], last[s], cut[s], batch[s]>>
  PROVE  Pending'[s] = Pending[s]
<1>1. Selected(s)' = Selected(s)
  BY DEF Selected
<1> QED
  BY <1>1 DEF Pending

(* A step that neither commits a row nor moves a stream is none of the     *)
(* log's.                                                                  *)
LEMMA Invisible ==
  ASSUME UNCHANGED <<rows, kind, stamp, earlier, subs>>
  PROVE  UNCHANGED Feed!feedVars
<1>1. \A s \in Subscribers : Pending'[s] = Pending[s]
  BY PendingSame DEF subs
<1>2. Pending' = Pending
  BY <1>1 DEF Pending
<1> QED
  BY <1>2 DEF Feed!feedVars, Feed!readers, Streams, subs

(* The commit of a row appends it to the log.  A stream that asked for it  *)
(* and has sent no younger one will select it (server.go:86-105, 146-149). *)
LEMMA CommitRefines ==
  ASSUME IndInv, NEW p \in Publishers, PublishCommit(p)
  PROVE  Feed!Next
<1> USE EventsAssumption DEF IndInv
<1>0. PICK e \in Seqs : e = pub[p].seq
  BY DEF PublishCommit, NumbersUnique, TypeOK, Seqs
<1>1. /\ e \in 1 .. drawn /\ e \notin rows
      /\ pub[p].kind \in Kinds /\ pub[p].time \in Times
  BY <1>0 DEF PublishCommit, NumbersUnique, CallsWellFormed, TypeOK
<1>2. /\ rows' = rows \cup {e}
      /\ kind' = [kind EXCEPT ![e] = pub[p].kind]
      /\ stamp' = [stamp EXCEPT ![e] = pub[p].time]
      /\ earlier' = [earlier EXCEPT ![e] = rows]
      /\ UNCHANGED <<pc, req, last, cut, batch, got>>
  BY <1>0 DEF PublishCommit, subs
<1>3. \A d \in rows : kind'[d] = kind[d] /\ stamp'[d] = stamp[d]
  BY <1>1, <1>2 DEF TypeOK, Seqs
<1>4. \A s \in Subscribers : Selected(s) \subseteq Selected(s)'
  BY <1>2, <1>3 DEF Selected
<1>5. \A s \in Subscribers : Selected(s)' \subseteq Selected(s) \cup {e}
  BY <1>2, <1>3 DEF Selected
<1>6. ASSUME NEW s \in Subscribers, Feed!AskedFor(s, e)', \A f \in got[s] : f < e
      PROVE  e \in Selected(s)'
  <2>1. kind'[e] \in Wants[s] /\ e > req[s].seq /\ stamp'[e] >= req[s].time
    BY <1>2, <1>6 DEF Feed!AskedFor, Feed!Fits
  <2>2. stamp'[e] >= cut[s]
    <3>1. stamp'[e] >= 0
      BY <1>1, <1>2 DEF TypeOK, Times
    <3> QED
      BY <2>1, <3>1 DEF StreamsSound
  <2>3. e > last[s]
    <3>1. CASE last[s] = req[s].seq
      BY <2>1, <3>1
    <3>2. CASE last[s] \in got[s]
      BY <1>1, <1>6, <3>2 DEF TypeOK
    <3> QED
      BY <3>1, <3>2 DEF StreamsSound
  <2> QED
    BY <1>2, <2>1, <2>2, <2>3 DEF Selected
<1>7. \A s \in Subscribers \ Streams : Pending'[s] = Pending[s]
  BY <1>2 DEF Streams, Pending
<1>8. \A s \in Streams : s \in Subscribers /\ Pending[s] = batch[s] \cup Selected(s)
                         /\ Pending'[s] = batch[s] \cup Selected(s)'
  BY <1>2 DEF Streams, Pending
<1>9. Feed!Append(e, pub[p].kind, pub[p].time)
  <2>1. \A s \in Streams : /\ Pending[s] \subseteq Pending'[s]
                           /\ Pending'[s] \subseteq Pending[s] \cup {e}
    BY <1>4, <1>5, <1>8
  <2>2. \A s \in Streams : Feed!AskedFor(s, e)' /\ (\A f \in got[s] : f < e) => e \in Pending'[s]
    BY <1>6, <1>8
  <2>3. UNCHANGED Feed!readers
    BY <1>2 DEF Feed!readers, Streams
  <2> QED
    BY <1>1, <1>2, <1>7, <2>1, <2>2, <2>3 DEF Feed!Append
<1> QED
  BY <1>1, <1>9 DEF Feed!Next, Feed!Seqs, Feed!Times, Seqs, Times

(* A new stream has everything pending that it asked for (server.go:126-135). *)
LEMMA OpenRefines ==
  ASSUME IndInv, NEW s \in Subscribers, NEW q \in 0 .. MaxSeq, NEW t \in Times,
         Subscribe(s, q, t)
  PROVE  Feed!Open(s, q, t)
<1> USE DEF IndInv
<1>1. /\ pc[s] = "off" /\ batch[s] = {}
      /\ req' = [req EXCEPT ![s] = [seq |-> q, time |-> t]]
      /\ got' = [got EXCEPT ![s] = {}]
      /\ UNCHANGED <<rows, kind, stamp, earlier, batch>>
      /\ pc' = [pc EXCEPT ![s] = "wait"]
  BY DEF Subscribe, StreamsSound, table
<1>2. /\ pc'[s] = "wait" /\ last'[s] = q /\ cut'[s] = t
      /\ req'[s].seq = q /\ req'[s].time = t
      /\ \A r \in Subscribers \ {s} : UNCHANGED <<pc[r], last[r], cut[r], batch[r]>>
  BY DEF Subscribe, TypeOK
<1>3. Streams' = Streams \cup {s} /\ s \notin Streams
  BY <1>1, <1>2 DEF Streams
<1>4. Selected(s)' = {e \in rows : Feed!AskedFor(s, e)'}
  <2>1. \A e \in rows : (q > 0 => e > q) <=> e > q
    BY DEF TypeOK
  <2> QED
    BY <1>1, <1>2, <2>1 DEF Selected, Feed!AskedFor, Feed!Fits
<1>5. Pending'[s] = {e \in rows : Feed!AskedFor(s, e)'}
  BY <1>1, <1>2, <1>4 DEF Pending
<1>6. Feed!Reads(s)
  BY <1>1, <1>2, PendingSame DEF Feed!Reads
<1> QED
  BY <1>1, <1>3, <1>5, <1>6 DEF Feed!Open

(* A row that is sent takes those below it out of reach.  One of them that *)
(* the stream had asked for and would have sent was committed after the    *)
(* query's snapshot, which has the row (server.go:175-190).                *)
LEMMA SendRefines ==
  ASSUME IndInv, NEW s \in Subscribers, Send(s)
  PROVE  \E e \in Pending[s] : Feed!Send(s, e)
<1> USE DEF IndInv
<1>1. PICK e \in batch[s] :
        /\ batch' = [batch EXCEPT ![s] = batch[s] \ {e}]
        /\ got' = [got EXCEPT ![s] = got[s] \cup {e}]
        /\ last' = [last EXCEPT ![s] = e]
        /\ cut' = [cut EXCEPT ![s] = 0]
        /\ pc' = [pc EXCEPT ![s] = IF batch[s] = {e} THEN "wait" ELSE "send"]
  BY DEF Send
<1>2. UNCHANGED <<rows, kind, stamp, earlier, req>> /\ pc[s] = "send"
  BY DEF Send, table
<1>3. /\ pc'[s] # "off" /\ last'[s] = e /\ cut'[s] = 0 /\ batch'[s] = batch[s] \ {e}
      /\ \A r \in Subscribers \ {s} : UNCHANGED <<pc[r], last[r], cut[r], batch[r]>>
  BY <1>1 DEF TypeOK
<1>4. e \in rows /\ e > 0 /\ e \in Int /\ rows \subseteq Int /\ rows \subseteq Seqs
  <2>1. drawn \in Int /\ drawn <= MaxSeq /\ rows \subseteq 1 .. drawn
    BY DEF TypeOK
  <2>2. rows \subseteq 1 .. MaxSeq
    BY <2>1, EventsAssumption
  <2>3. \A d \in 1 .. MaxSeq : d \in Int /\ d > 0
    BY EventsAssumption
  <2>4. e \in rows
    BY DEF StreamsSound
  <2> QED
    BY <2>2, <2>3, <2>4 DEF Seqs
<1>5. Selected(s)' = {d \in rows : kind[d] \in Wants[s] /\ d > e}
  <2>1. \A d \in rows : stamp[d] >= 0
    BY <1>4 DEF TypeOK, Times
  <2> QED
    BY <1>2, <1>3, <1>4, <2>1 DEF Selected
<1>6. /\ Pending[s] = batch[s] \cup Selected(s)
      /\ Pending'[s] = (batch[s] \ {e}) \cup Selected(s)'
  BY <1>2, <1>3 DEF Pending
<1>7. ASSUME NEW d \in Pending[s] \ {e}, d \notin Pending'[s]
      PROVE  Feed!MaySlip(s, d, e)
  <2>1. d \in Selected(s) /\ d \notin batch[s]
    BY <1>6, <1>7
  <2>2. d \in rows /\ kind[d] \in Wants[s] /\ d \in Seqs /\ d \in Int
    BY <1>4, <2>1 DEF Selected
  <2>3. d < e
    BY <1>4, <1>5, <1>6, <1>7, <2>2
  <2>4. d > last[s]
    BY <2>1, <2>2 DEF Selected, TypeOK, Seqs
  <2>5. AskedFor(s, d) /\ d \notin got[s] => e \in earlier[d]
    BY <1>2, <2>1, <2>2, <2>4 DEF BatchComplete
  <2> QED
    BY <2>3, <2>5 DEF Feed!MaySlip, Feed!AskedFor, Feed!Fits, AskedFor
<1>8. ASSUME NEW d \in Pending'[s] PROVE Feed!Fits(s, d)
  <2>1. CASE d \in batch[s]
    BY <2>1 DEF StreamsSound, Feed!Fits
  <2>2. CASE d \in Selected(s)'
    <3>1. d \in rows /\ kind[d] \in Wants[s] /\ d > e /\ e > req[s].seq
      BY <1>5, <2>2 DEF StreamsSound
    <3>2. d \in Int /\ req[s].seq \in Int
      BY <1>4, <3>1 DEF TypeOK
    <3> QED
      BY <1>4, <3>1, <3>2 DEF Feed!Fits
  <2> QED
    BY <1>6, <1>8, <2>1, <2>2
<1>9. e \notin Pending'[s]
  BY <1>4, <1>5, <1>6
<1>10. Feed!Reads(s)
  BY <1>2, <1>3, PendingSame DEF Feed!Reads
<1>11. Streams' = Streams
  BY <1>1, <1>2 DEF Streams, TypeOK
<1>12. e \in Pending[s]
  BY <1>6
<1>13. Feed!Send(s, e)
  BY <1>1, <1>2, <1>7, <1>8, <1>9, <1>10, <1>11, <1>12 DEF Feed!Send
<1> QED
  BY <1>12, <1>13

(* A query that breaks off leaves behind only what is below lastSequence,  *)
(* which it sent or one before it did (server.go:175-197).                 *)
LEMMA BreakOffRefines ==
  ASSUME IndInv, NEW s \in Subscribers, QueryBreaks(s)
  PROVE  Feed!BreakOff(s)
<1> USE DEF IndInv
<1>1. /\ UNCHANGED <<rows, kind, stamp, earlier, req, last, cut, got>> /\ pc[s] = "send"
      /\ batch' = [batch EXCEPT ![s] = {}]
      /\ pc' = [pc EXCEPT ![s] = "wait"]
  BY DEF QueryBreaks, table
<1>2. /\ pc'[s] = "wait" /\ batch'[s] = {}
      /\ \A r \in Subscribers \ {s} : UNCHANGED <<pc[r], last[r], cut[r], batch[r]>>
  BY <1>1 DEF TypeOK
<1>3. Selected(s)' = Selected(s)
  BY <1>1 DEF Selected
<1>4. Pending[s] = batch[s] \cup Selected(s) /\ Pending'[s] = Selected(s)
  BY <1>1, <1>2, <1>3 DEF Pending
<1>5. ASSUME NEW d \in Pending[s] \ Pending'[s] PROVE \E f \in got[s] : f > d
  <2>1. d \in batch[s] /\ d \notin Selected(s)
    BY <1>4, <1>5
  <2>2. /\ d \in rows /\ kind[d] \in Wants[s] /\ stamp[d] >= cut[s]
        /\ d > req[s].seq /\ d # last[s]
    BY <2>1 DEF StreamsSound
  <2>3. ~(d > last[s]) /\ d \in Int /\ last[s] \in Int
    BY <2>1, <2>2 DEF Selected, TypeOK
  <2>4. last[s] \in got[s]
    BY <2>2, <2>3 DEF StreamsSound
  <2> QED
    BY <2>2, <2>3, <2>4
<1>6. Feed!Reads(s)
  BY <1>1, <1>2, PendingSame DEF Feed!Reads
<1>7. UNCHANGED Feed!readers
  BY <1>1 DEF Feed!readers, Streams, TypeOK
<1> QED
  BY <1>4, <1>5, <1>6, <1>7 DEF Feed!BreakOff

(* A stream that breaks is closed. *)
LEMMA CloseRefines ==
  ASSUME IndInv, NEW s \in Subscribers, StreamBreaks(s)
  PROVE  Feed!Close(s)
<1> USE DEF IndInv
<1>1. /\ UNCHANGED <<rows, kind, stamp, earlier>> /\ pc[s] # "off"
      /\ pc' = [pc EXCEPT ![s] = "off"]
      /\ req' = [req EXCEPT ![s] = [seq |-> 0, time |-> 0]]
      /\ got' = [got EXCEPT ![s] = {}]
  BY DEF StreamBreaks, NoRequest, table
<1>2. /\ pc'[s] = "off"
      /\ \A r \in Subscribers \ {s} : UNCHANGED <<pc[r], last[r], cut[r], batch[r]>>
  BY DEF StreamBreaks, TypeOK
<1>3. Streams' = Streams \ {s} /\ s \in Streams
  BY <1>1, <1>2 DEF Streams
<1>4. Pending'[s] = {}
  BY <1>2 DEF Pending
<1>5. Feed!Reads(s)
  BY <1>1, <1>2, PendingSame DEF Feed!Reads
<1> QED
  BY <1>1, <1>3, <1>4, <1>5 DEF Feed!Close

(* The snapshot of a query changes nothing about what its stream will get. *)
LEMMA QueryRefines ==
  ASSUME IndInv, NEW s \in Subscribers, Query(s)
  PROVE  UNCHANGED Feed!feedVars
<1> USE DEF IndInv
<1>1. /\ UNCHANGED <<rows, kind, stamp, earlier, req, last, cut, got>> /\ pc[s] = "wait"
      /\ batch' = [batch EXCEPT ![s] = Selected(s)]
      /\ pc' = [pc EXCEPT ![s] = "send"]
  BY DEF Query, table
<1>2. \A r \in Subscribers : Selected(r)' = Selected(r)
  BY <1>1 DEF Selected
<1>3. batch[s] = {}
  BY <1>1 DEF StreamsSound
<1>4. Pending' = Pending
  BY <1>1, <1>2, <1>3 DEF Pending, TypeOK
<1>5. Streams' = Streams
  BY <1>1 DEF Streams, TypeOK
<1> QED
  BY <1>1, <1>4, <1>5 DEF Feed!feedVars, Feed!readers

(* Every step of the service is a step of the log or none. *)
LEMMA StepRefines == IndInv /\ [Next]_vars => [Feed!Next]_Feed!feedVars
<1> SUFFICES ASSUME IndInv, [Next]_vars
             PROVE  Feed!Next \/ UNCHANGED Feed!feedVars
  OBVIOUS
<1>1. CASE Tick \/ UNCHANGED vars
  BY <1>1, Invisible DEF Tick, table, subs, vars
<1>2. ASSUME NEW p \in Publishers, PublishStep(p)
      PROVE  Feed!Next \/ UNCHANGED Feed!feedVars
  BY <1>2, Invisible, CommitRefines
     DEF PublishStep, PublishStamp, PublishInsert, PublishNotify, PublishFails, table
<1>3. ASSUME NEW s \in Subscribers, SubscribeStep(s)
      PROVE  Feed!Next \/ UNCHANGED Feed!feedVars
  BY <1>3, OpenRefines, QueryRefines, SendRefines, BreakOffRefines, CloseRefines
     DEF SubscribeStep, Feed!Next, Feed!Times, Times
<1> QED
  BY <1>1, <1>2, <1>3 DEF Next

(* The service behaves as a log with readers, each of which has everything *)
(* pending that it asked for: whatever order the numbers become visible    *)
(* and the rows are sent in, an event leaves that set only as EventFeed    *)
(* allows (server.go:61-118, 120-199).                                     *)
THEOREM Refinement == Spec => FeedSpec
<1> QED
  BY InitRefines, StepRefines, Inductive, PTL DEF Spec, FeedSpec, Feed!Spec

(* A stream still has pending what is younger than all that it sent,       *)
(* because lastSequence is never above that and the time filter never      *)
(* later than the one given (server.go:134-149, 190-191).                  *)
THEOREM NoGapAbove == Spec => []GapsAreOlder
<1>1. IndInv => GapsAreOlder
  <2> SUFFICES ASSUME IndInv, NEW s \in Subscribers, pc[s] # "off", NEW e \in Seqs,
                      AskedFor(s, e), \A f \in got[s] : f < e
               PROVE  e \in Selected(s)
    BY DEF GapsAreOlder, Streams, Pending
  <2>1. e \in Int /\ last[s] \in Int /\ req[s].seq \in Int
    BY DEF IndInv, TypeOK, Seqs
  <2>2. e > last[s]
    BY <2>1 DEF IndInv, StreamsSound, AskedFor
  <2>3. stamp[e] >= cut[s]
    BY CutReached DEF AskedFor
  <2> QED
    BY <2>2, <2>3 DEF AskedFor, Selected
<1> QED
  BY <1>1, Inductive, PTL

=============================================================================
