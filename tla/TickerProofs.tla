---------------------------- MODULE TickerProofs ----------------------------
(***************************************************************************)
(* Proofs about the ticker: no wake-up is lost but where a notification or *)
(* a query fails, for any number of items and every kind of consumer.      *)
(***************************************************************************)
EXTENDS Ticker, TLAPS

(* The invariant holds at the start. *)
LEMMA InitInd == Init => IndInv
<1> SUFFICES ASSUME Init PROVE IndInv
  OBVIOUS
<1>1. TypeOK
  <2>1. 0 \in 0..MaxItems
    BY TickerAssumption
  <2> QED
    BY <2>1 DEF Init, TypeOK
<1>2. NoLostWakeUp
  <2>1. ~Serving
    BY DEF Init, Serving
  <2> QED
    BY <2>1 DEF NoLostWakeUp
<1> QED
  BY <1>1, <1>2 DEF Init, IndInv

(* The two goroutines keep the invariant (ticker.go:46-86). *)
LEMMA TickerInd ==
  ASSUME IndInv, TickerStep
  PROVE  IndInv'
<1> USE TickerAssumption DEF IndInv, TypeOK, NoLostWakeUp, Serving, Coming, One, Backlog,
        loops, env, data
<1>1. CASE Start
  BY <1>1 DEF Start
<1>2. CASE ListenerLoops
  BY <1>2 DEF ListenerLoops
<1>3. CASE ListenerNotified
  BY <1>3 DEF ListenerNotified
<1>4. CASE ListenerFails
  BY <1>4 DEF ListenerFails
<1>5. CASE ListenerPanics
  BY <1>5 DEF ListenerPanics
<1>6. CASE MainHearsListener
  BY <1>6 DEF MainHearsListener
<1>7. CASE MainTimerFires
  BY <1>7 DEF MainTimerFires
<1>8. CASE MainStops
  BY <1>8 DEF MainStops
<1>9. CASE StartFails
  BY <1>9 DEF StartFails
<1> QED
  BY <1>1, <1>2, <1>3, <1>4, <1>5, <1>6, <1>7, <1>8, <1>9 DEF TickerStep

(* What a step that leaves n items does to the counters. *)
LEMMA LeftCounts ==
  ASSUME TypeOK, NEW n \in 0..MaxItems, NEW w \in 0..1, Left(n, w)
  PROVE  /\ items' = n /\ old' \in 0..MaxItems /\ lost' \in 0..MaxItems
         /\ n = 0 => old' = 0 /\ lost' = 0
         /\ n > 0 => old' = old
         /\ n > 0 => (lost' = lost + w \/ lost' = MaxItems)
<1> USE TickerAssumption DEF TypeOK, Left
<1>1. CASE n = 0
  BY <1>1
<1>2. CASE n > 0 /\ lost + w > MaxItems
  BY <1>2
<1>3. CASE n > 0 /\ ~(lost + w > MaxItems)
  BY <1>3
<1> QED
  BY <1>1, <1>2, <1>3

(* The reader of C keeps the invariant. *)
LEMMA ConsumerInd ==
  ASSUME IndInv, ConsumerStep
  PROVE  IndInv'
<1> USE TickerAssumption DEF IndInv, TypeOK, NoLostWakeUp, Serving, Coming, One, Backlog,
        loops, env, data, AtQuery
<1>1. CASE ConsumerTakesTick
  BY <1>1 DEF ConsumerTakesTick
<1>2. CASE ConsumerReadsClosed
  BY <1>2 DEF ConsumerReadsClosed
<1>3. CASE ConsumerLeaves
  BY <1>3 DEF ConsumerLeaves
<1>4. CASE TakeOne
  <2> DEFINE n == IF items = 0 THEN 0 ELSE items - 1
  <2>1. n \in 0..MaxItems /\ 0 \in 0..1 /\ Left(n, 0)
    BY <1>4 DEF TakeOne
  <2> QED
    BY <1>4, <2>1, LeftCounts DEF TakeOne
<1>5. CASE ListenConflicts
  BY <1>5, LeftCounts DEF ListenConflicts
<1>6. CASE ReadAll
  BY <1>6, LeftCounts DEF ReadAll
<1>7. CASE BreaksOff
  <2>1. PICK n \in 0..items : Left(n, 1)
    BY <1>7 DEF BreaksOff
  <2>2. n \in 0..MaxItems /\ n <= items
    BY <2>1
  <2> QED
    BY <1>7, <2>1, <2>2, LeftCounts DEF BreaksOff
<1> QED
  BY <1>1, <1>2, <1>3, <1>4, <1>5, <1>6, <1>7 DEF ConsumerStep

(* Commits, notifications and failures keep the invariant. *)
LEMMA SurroundingsInd ==
  ASSUME IndInv, Surroundings
  PROVE  IndInv'
<1> USE TickerAssumption DEF IndInv, TypeOK, NoLostWakeUp, Serving, Coming, One, Backlog,
        loops, env, data
<1>1. CASE ContextEnds
  BY <1>1 DEF ContextEnds
<1>2. CASE ConnectionBreaks
  BY <1>2 DEF ConnectionBreaks
<1>3. CASE Commit
  BY <1>3 DEF Commit
<1>4. CASE Notify
  BY <1>4 DEF Notify
<1>5. CASE NotifyFails
  BY <1>5, LeftCounts DEF NotifyFails
<1>6. CASE LeaseRunsOut
  <2>1. items + 1 \in 0..MaxItems /\ items + 1 > 0 /\ Left(items + 1, 1)
    BY <1>6 DEF LeaseRunsOut
  <2> QED
    BY <1>6, <2>1, LeftCounts DEF LeaseRunsOut
<1>7. CASE OtherTakes
  <2>1. items - 1 \in 0..MaxItems /\ 0 \in 0..1 /\ Left(items - 1, 0)
    BY <1>7 DEF OtherTakes
  <2> QED
    BY <1>7, <2>1, LeftCounts DEF OtherTakes
<1> QED
  BY <1>1, <1>2, <1>3, <1>4, <1>5, <1>6, <1>7 DEF Surroundings

(* The invariant behind WakeUps and TypeCorrect. *)
THEOREM Inductive == Spec => []IndInv
<1>1. IndInv /\ [Next]_vars => IndInv'
  <2> SUFFICES ASSUME IndInv, [Next]_vars PROVE IndInv'
    OBVIOUS
  <2>1. CASE UNCHANGED vars
    BY <2>1 DEF vars, IndInv, TypeOK, NoLostWakeUp, Serving, Coming, One, Backlog
  <2> QED
    BY <2>1, TickerInd, ConsumerInd, SurroundingsInd DEF Next
<1> QED
  BY <1>1, InitInd, PTL DEF Spec

(* Every row that was committed and notified has its tick on the way, but  *)
(* for one row per wake-up that came to nothing (ticker.go:35-88).         *)
THEOREM WakeUps == Spec => []NoLostWakeUp
<1>1. IndInv => NoLostWakeUp
  BY DEF IndInv
<1> QED
  BY <1>1, Inductive, PTL

(* The variables of the ticker keep their types. *)
THEOREM TypeCorrect == Spec => []TypeOK
<1>1. IndInv => TypeOK
  BY DEF IndInv
<1> QED
  BY <1>1, Inductive, PTL

=============================================================================
