------------------------------- MODULE Ticker -------------------------------
(***************************************************************************)
(* The ticker, pkg/ticker/ticker.go: two goroutines that turn database     *)
(* notifications and a timer into ticks on the channel C, and the handler  *)
(* that reads C and queries the database at each tick (Listen, Subscribe,  *)
(* Aquire).                                                                *)
(*                                                                         *)
(* Both channels are unbuffered: a send and its receive are one step.      *)
(***************************************************************************)
EXTENDS Integers

CONSTANTS
  MaxItems   \* bound on the items that wait at once

ASSUME TickerAssumption == MaxItems \in Nat \ {0}

(* Who reads C.  A query of Listen sees to one item, one of Subscribe (or  *)
(* of Aquire) to all of them, unless it fails in one of the ways that the  *)
(* handler does not mind.  Both leave when their context ends or when they *)
(* fail otherwise; the test has no query and reads C until it is closed.   *)
Readers == {"Listen", "Subscribe", "TestTicker"}

VARIABLES
  reader,     \* who the consumer is
  main,       \* the main loop: blocked on C ("first", "tick"), in its select,
              \* returned after closing both channels, or "crashed"
              \* with the whole process
  listener,   \* the notification loop
  consumer,   \* the reader of C: in its select, at its query, "stuck" on a
              \* C that nobody serves, or gone
  ended,      \* the context of the handler has ended
  up,         \* the notification connection works
  items,      \* committed rows that the next query of the consumer selects
  unsent,     \* commits whose NOTIFY was not executed yet
  pending,    \* notifications that the connection holds for the listener
  (* for the properties, both 0 again once no item waits *)
  old,        \* items when LISTEN was executed
  lost        \* wake-ups that do not come or came to nothing

loops == <<main, listener, consumer>>
env   == <<reader, ended, up>>
data  == <<items, unsent, pending, old, lost>>
vars  == <<main, listener, consumer, reader, ended, up,
           items, unsent, pending, old, lost>>

TypeOK ==
  /\ reader \in Readers
  /\ main \in {"off", "first", "select", "tick", "closed", "crashed"}
  /\ listener \in {"off", "loop", "wait", "send", "gone"}
  /\ consumer \in {"ready", "busy", "stuck", "gone"}
  /\ ended \in BOOLEAN /\ up \in BOOLEAN
  /\ unsent \in Nat /\ pending \in Nat
  /\ items \in 0..MaxItems /\ old \in 0..MaxItems /\ lost \in 0..MaxItems

Init ==
  /\ reader \in Readers
  /\ main = "off" /\ listener = "off" /\ consumer = "ready"
  /\ ended = FALSE /\ up = TRUE
  /\ items = 0 /\ unsent = 0 /\ pending = 0 /\ old = 0 /\ lost = 0

-----------------------------------------------------------------------------

(* Mutant of Start: the initial tick is left out. *)
StartWithoutTick ==
  /\ main = "off" /\ consumer = "ready"
  /\ up /\ ~ended
  /\ main' = "select"
  /\ listener' = "loop"
  /\ old' = items
  /\ UNCHANGED <<consumer, env, items, unsent, pending, lost>>

(* LISTEN, then both goroutines start. *)
Start ==
  /\ main = "off" /\ consumer = "ready"
  /\ up /\ ~ended
  /\ main' = "first"
  /\ listener' = "loop"
  /\ old' = items
  /\ UNCHANGED <<consumer, env, items, unsent, pending, lost>>

(* LISTEN fails.  A handler returns; the test does not look at the error   *)
(* and reads a C that was made, and that nobody writes to.                 *)
StartFails ==
  /\ main = "off" /\ consumer = "ready"
  /\ ended \/ ~up
  /\ consumer' = IF reader = "TestTicker" THEN "stuck" ELSE "gone"
  /\ UNCHANGED <<main, listener, env, data>>

(* The listener sees that the context ended, or waits for a notification. *)
ListenerLoops ==
  /\ listener = "loop"
  /\ listener' = IF ended THEN "gone" ELSE "wait"
  /\ UNCHANGED <<main, consumer, env, data>>

(* Mutants of ListenerNotified: one returns without a notification, one    *)
(* drops the notification when the main loop is busy.                      *)
ListenerSpins ==
  /\ listener = "wait"
  /\ pending' = pending - 1
  /\ listener' = "send"
  /\ UNCHANGED <<main, consumer, env, items, unsent, old, lost>>

ListenerDrops ==
  /\ listener = "wait"
  /\ pending > 0
  /\ pending' = pending - 1
  /\ listener' = IF main = "select" THEN "send" ELSE "loop"
  /\ UNCHANGED <<main, consumer, env, items, unsent, old, lost>>

ListenerNotified ==
  /\ listener = "wait"
  /\ pending > 0
  /\ pending' = pending - 1
  /\ listener' = "send"
  /\ UNCHANGED <<main, consumer, env, items, unsent, old, lost>>

(* WaitForNotification fails: for good. *)
ListenerFails ==
  /\ listener = "wait"
  /\ ended \/ ~up
  /\ listener' = "gone"
  /\ UNCHANGED <<main, consumer, env, data>>

(* dbNotifyChannel is closed when the listener sends. *)
ListenerPanics ==
  /\ listener = "send"
  /\ main = "closed"
  /\ main' = "crashed" /\ listener' = "gone" /\ consumer' = "gone"
  /\ UNCHANGED <<env, data>>

(* Mutant of MainHearsListener: the listener does not go on. *)
MainHearsOnce ==
  /\ main = "select"
  /\ listener = "send"
  /\ main' = "tick"
  /\ listener' = "gone"
  /\ UNCHANGED <<consumer, env, data>>

(* The cases of the main loop's select; with several ready, any may win. *)
MainHearsListener ==
  /\ main = "select"
  /\ listener = "send"
  /\ main' = "tick"
  /\ listener' = "loop"
  /\ UNCHANGED <<consumer, env, data>>

(* Mutant of MainTimerFires: no polling without the connection. *)
TimerNeedsConnection ==
  /\ main = "select"
  /\ up
  /\ main' = "tick"
  /\ UNCHANGED <<listener, consumer, env, data>>

MainTimerFires ==
  /\ main = "select"
  /\ main' = "tick"
  /\ UNCHANGED <<listener, consumer, env, data>>

(* Mutant of MainStops: the broken connection is taken for the end. *)
MainStopsLate ==
  /\ main = "select"
  /\ ended /\ ~up
  /\ main' = "closed"
  /\ UNCHANGED <<listener, consumer, env, data>>

MainStops ==
  /\ main = "select"
  /\ ended
  /\ main' = "closed"
  /\ UNCHANGED <<listener, consumer, env, data>>

-----------------------------------------------------------------------------
(* The consumer *)

ConsumerTakesTick ==
  /\ consumer = "ready"
  /\ main \in {"first", "tick"}
  /\ main' = "select"
  /\ consumer' = "busy"
  /\ UNCHANGED <<listener, env, data>>

(* A query that begins after the end of the context fails. *)
AtQuery == consumer = "busy" /\ (reader = "TestTicker" \/ ~ended)

(* n items are left, and w wake-ups came to nothing.  lost stops at        *)
(* MaxItems, where it excuses every item.                                  *)
Left(n, w) ==
  /\ items' = n
  /\ old' = IF n = 0 THEN 0 ELSE old
  /\ lost' = CASE n = 0 -> 0
               [] n > 0 /\ lost + w > MaxItems -> MaxItems
               [] OTHER -> lost + w

(* The transaction of Listen commits; it found a row unless there is none. *)
TakeOne ==
  /\ AtQuery /\ reader = "Listen"
  /\ Left(IF items = 0 THEN 0 ELSE items - 1, 0)
  /\ consumer' = "ready"
  /\ UNCHANGED <<main, listener, env, unsent, pending>>

(* It could not be serialized: the tick is used up and the row still due.  *)
ListenConflicts ==
  /\ AtQuery /\ reader = "Listen"
  /\ Left(items, 1)
  /\ consumer' = "ready"
  /\ UNCHANGED <<main, listener, env, unsent, pending>>

(* The query of Subscribe (or Aquire) sees all rows.  The test has none. *)
ReadAll ==
  /\ AtQuery /\ reader # "Listen"
  /\ Left(0, 0)
  /\ consumer' = "ready"
  /\ UNCHANGED <<main, listener, env, unsent, pending>>

(* The query of Subscribe breaks off and is taken for a complete one.      *)
(* Later queries select the rows it left above lastSequence; the others    *)
(* (Events!QueryBreaks) no query selects again, so they are no items.      *)
BreaksOff ==
  /\ AtQuery /\ reader = "Subscribe"
  /\ \E n \in 0..items : Left(n, 1)
  /\ consumer' = "ready"
  /\ UNCHANGED <<main, listener, env, unsent, pending>>

(* It fails, has what it wants, or sees that its context ended. *)
ConsumerLeaves ==
  /\ reader # "TestTicker" /\ main # "off"
  /\ consumer = "busy" \/ (consumer = "ready" /\ ended)
  /\ consumer' = "gone"
  /\ UNCHANGED <<main, listener, env, data>>

(* Reading the closed C.  A service does not look at the second result and *)
(* takes it for a tick; the test stops.                                    *)
ConsumerReadsClosed ==
  /\ consumer = "ready"
  /\ main = "closed"
  /\ consumer' = IF reader = "TestTicker" THEN "gone" ELSE "busy"
  /\ UNCHANGED <<main, listener, env, data>>

-----------------------------------------------------------------------------
(* The surroundings *)

(* gRPC ends the context of a handler that returned; a client or a timeout *)
(* may end it before.                                                      *)
ContextEnds ==
  /\ ~ended
  /\ ended' = TRUE
  /\ UNCHANGED <<loops, reader, up, data>>

ConnectionBreaks ==
  /\ up
  /\ up' = FALSE
  /\ pending' = 0
  /\ UNCHANGED <<loops, reader, ended, items, unsent, old, lost>>

(* Create, Publish or Release commits; NOTIFY is a statement of its own. *)
Commit ==
  /\ items < MaxItems /\ unsent + pending < MaxItems
  /\ items' = items + 1
  /\ unsent' = unsent + 1
  /\ UNCHANGED <<loops, env, pending, old, lost>>

Notify ==
  /\ unsent > 0
  /\ unsent' = unsent - 1
  /\ pending' = IF up /\ main \notin {"off", "crashed"} THEN pending + 1 ELSE pending
  /\ UNCHANGED <<loops, env, items, old, lost>>

NotifyFails ==
  /\ unsent > 0
  /\ unsent' = unsent - 1
  /\ Left(items, 1)
  /\ UNCHANGED <<loops, env, pending>>

(* A lease runs out: a job or a lock is there again, and nobody notifies.  *)
LeaseRunsOut ==
  /\ reader # "TestTicker"
  /\ items < MaxItems
  /\ Left(items + 1, 1)
  /\ UNCHANGED <<loops, env, unsent, pending>>

(* Another stream takes a job of the queue, or a call deletes it. *)
OtherTakes ==
  /\ reader = "Listen"
  /\ items > 0
  /\ Left(items - 1, 0)
  /\ UNCHANGED <<loops, env, unsent, pending>>

TickerStep ==
  \/ Start \/ StartFails
  \/ ListenerLoops \/ ListenerNotified \/ ListenerFails \/ ListenerPanics
  \/ MainHearsListener \/ MainTimerFires \/ MainStops

ConsumerStep ==
  \/ ConsumerTakesTick \/ ConsumerReadsClosed \/ ConsumerLeaves
  \/ TakeOne \/ ListenConflicts \/ ReadAll \/ BreaksOff

Surroundings ==
  \/ ContextEnds \/ ConnectionBreaks
  \/ Commit \/ Notify \/ NotifyFails \/ LeaseRunsOut \/ OtherTakes

Next == TickerStep \/ ConsumerStep \/ Surroundings

Spec == Init /\ [][Next]_vars

(* The goroutines run, C is read, notifications arrive, and a query that   *)
(* may succeed again and again does.                                       *)
Fairness ==
  /\ WF_vars(Start \/ StartFails)
  /\ WF_vars(ListenerLoops) /\ WF_vars(ListenerNotified)
  /\ WF_vars(ListenerFails) /\ WF_vars(ListenerPanics)
  /\ SF_vars(MainHearsListener) /\ SF_vars(MainStops)
  /\ WF_vars(ConsumerTakesTick) /\ WF_vars(ConsumerReadsClosed)
  /\ WF_vars(TakeOne \/ ListenConflicts \/ ReadAll \/ BreaksOff \/ ConsumerLeaves)
  /\ SF_vars(TakeOne) /\ SF_vars(ReadAll)
  /\ WF_vars(Notify \/ NotifyFails)

FairSpec == Spec /\ Fairness

-----------------------------------------------------------------------------
(* Correctness *)

One(b) == IF b THEN 1 ELSE 0

(* The queries that are certain to come without the timer. *)
Coming == unsent + pending + One(listener = "send")
          + One(main \in {"first", "tick"}) + One(consumer = "busy")

Serving == main # "off" /\ up /\ ~ended /\ consumer # "gone"

(* Items found at LISTEN that the initial tick does not see to. *)
Backlog == IF old = 0 THEN 0 ELSE old - 1

(* As long as the connection holds, a row that is committed and notified   *)
(* has its tick on the way, however the commit, the notification and the   *)
(* handler's query interleave: LISTEN comes before the first query         *)
(* (ticker.go:40, 63) and no notification is merged with another.  At most *)
(* as many rows wait for the timer as were older than the LISTEN, of which *)
(* a Listen takes one, or as wake-ups came to nothing: a NOTIFY that       *)
(* failed, a lease that ran out, a transaction that was not serialized, a  *)
(* query that broke off.                                                   *)
NoLostWakeUp == Serving =>
  /\ items <= Coming + Backlog + lost
  /\ reader # "Listen" /\ items > 0 => Coming + lost > 0

(* The same as progress: a reader that sees to everything at each tick     *)
(* gets to the rows without the timer, unless a wake-up came to nothing.   *)
WokenUp == reader # "Listen" /\ items > 0 ~> items = 0 \/ lost > 0 \/ ~Serving

(* The timer makes up for all of that and for a broken connection          *)
(* (ticker.go:51-56, 76).  A Subscribe gets to every row that its queries  *)
(* select, and a Listen to a whole backlog, one row per tick, once no more *)
(* rows come.                                                              *)
PollCatchesUp ==
  WF_vars(MainTimerFires) =>
    /\ reader = "Subscribe" /\ items > 0 ~> items = 0 \/ ended \/ consumer = "gone"
    /\ <>[][items' <= items]_vars =>
         (reader = "Listen" /\ items > 0 ~> items = 0 \/ ended \/ consumer = "gone")

(* Once the context ended the reader of C leaves, the test because C is    *)
(* closed (ticker_test.go:24-27), and the main loop closes C, unless the   *)
(* process crashes or the loop is at a send on C (ticker.go:63, 78, 81)    *)
(* that a handler which left does not receive: there it stays for good.    *)
Closes ==
  ended /\ main # "off" ~>
    /\ consumer = "gone"
    /\ \/ main \in {"closed", "crashed"}
       \/ reader # "TestTicker" /\ main \in {"first", "tick"}

(* Ending the context ends the ticker and nothing else: the test leaves    *)
(* its loop when C is closed (ticker_test.go:24-27).  The main loop        *)
(* closes dbNotifyChannel although the listener may still send on it       *)
(* (ticker.go:52, 66), which crashes the process.                          *)
NoSendOnClosed == main # "crashed"

(* The inductive invariant behind NoLostWakeUp. *)
IndInv ==
  /\ TypeOK
  /\ main = "off" <=> listener = "off"
  /\ listener = "gone" => ended \/ ~up
  /\ consumer = "busy" => main # "off"
  /\ main \in {"closed", "crashed"} => ended
  /\ NoLostWakeUp

=============================================================================
