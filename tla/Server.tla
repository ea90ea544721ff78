------------------------------- MODULE Server -------------------------------
(***************************************************************************)
(* A server process, cmd/backbone-tools/main.go: it waits for the          *)
(* database, registers the listed components one by one, serves, and ends  *)
(* by a signal, a fatal error or a crash.  An operator may start it again, *)
(* with another list.  The tables it creates outlive it.                   *)
(*                                                                         *)
(* The goroutine that waits for the signal runs beside main.  It cancels   *)
(* the context, reads grpcServer, and stops the server it finds there.     *)
(* The race of that read with the assignment is a choice of the two        *)
(* orders.                                                                 *)
(***************************************************************************)
EXTENDS Naturals, Sequences

CONSTANTS
  Services,   \* the component names that main knows
  Lists       \* what --components may be given, sequences of names

ASSUME ServerAssumption ==
  /\ {"jobs", "cronjobs"} \subseteq Services
  /\ \A l \in Lists : l \in Seq(STRING)

VARIABLES
  srv,         \* where main is
  list,        \* the components it was started with
  next,        \* index of the one that Register comes to next
  jobsServer,  \* the variable of Register, "nil" or "server"
  backend,     \* the cronjobs backend: none, or the jobsServer it was given
  registered,  \* services that gRPC knows
  signal,      \* the goroutine that waits for the signal
  tables,      \* components whose table exists in the database
  panic        \* what ended the last process: "nil" is a call of a nil
               \* jobsServer in the backend

serverVars == <<srv, list, next, jobsServer, backend, registered, signal,
                tables, panic>>

TypeOK ==
  /\ srv \in {"off", "wait", "ping", "register", "assigned", "up", "drain"}
  /\ list \in Lists
  /\ next \in 1 .. Len(list) + 1
  /\ jobsServer \in {"nil", "server"}
  /\ backend \in {"none", "nil", "server"}
  /\ registered \subseteq Services
  /\ signal \in {"none", "sent", "cancelled", "stopped", "missed"}
  /\ tables \subseteq Services
  /\ panic \in {"none", "nil"}

Init ==
  /\ srv = "off"
  /\ list \in Lists
  /\ next = 1
  /\ jobsServer = "nil"
  /\ backend = "none"
  /\ registered = {}
  /\ signal = "none"
  /\ tables \in {{}, Services}
  /\ panic = "none"

-----------------------------------------------------------------------------
(* Helpers *)

ContextOver == signal \in {"cancelled", "stopped", "missed"}
Stopped     == signal = "stopped"
Serving     == srv = "up" /\ ~Stopped

InRegister  == srv = "register" /\ next <= Len(list)

(* The process ends, and its memory with it. *)
Off ==
  /\ srv # "off"
  /\ srv' = "off"
  /\ next' = 1
  /\ jobsServer' = "nil"
  /\ backend' = "none"
  /\ registered' = {}
  /\ signal' = "none"
  /\ UNCHANGED list

-----------------------------------------------------------------------------
(* main *)

Start(l) ==
  /\ srv = "off"
  /\ srv' = "wait"
  /\ list' = l
  /\ panic' = "none"
  /\ UNCHANGED <<next, jobsServer, backend, registered, signal, tables>>

(* Retry calls its function, which looks at the context before it pings. *)
Try ==
  /\ srv = "wait"
  /\ ~ContextOver
  /\ srv' = "ping"
  /\ UNCHANGED <<list, next, jobsServer, backend, registered, signal, tables,
                 panic>>

PingFails ==
  /\ srv = "ping"
  /\ srv' = "wait"
  /\ UNCHANGED <<list, next, jobsServer, backend, registered, signal, tables,
                 panic>>

PingAnswers ==
  /\ srv = "ping"
  /\ srv' = "register"
  /\ UNCHANGED <<list, next, jobsServer, backend, registered, signal, tables,
                 panic>>

(* Permanent, because the context is over; or 15 minutes of backoff. *)
GiveUp ==
  /\ srv = "wait"
  /\ Off
  /\ UNCHANGED <<tables, panic>>

(* Mutant of Register: jobsServer is declared anew in its case. *)
RegisterShadows ==
  /\ InRegister
  /\ ~ContextOver
  /\ list[next] \in Services \ registered
  /\ tables' = tables \cup {list[next]}
  /\ registered' = registered \cup {list[next]}
  /\ backend' = IF list[next] = "cronjobs" THEN "nil" ELSE backend
  /\ next' = next + 1
  /\ UNCHANGED <<srv, list, jobsServer, signal, panic>>

(* Mutant of Register: the error of init does not end the process. *)
RegisterUnchecked ==
  /\ InRegister
  /\ list[next] \in Services \ registered
  /\ tables' \in {tables, tables \cup {list[next]}}
  /\ registered' = registered \cup {list[next]}
  /\ jobsServer' = IF list[next] = "jobs" THEN "server" ELSE jobsServer
  /\ backend' = IF list[next] = "cronjobs" THEN jobsServer ELSE backend
  /\ next' = next + 1
  /\ UNCHANGED <<srv, list, signal, panic>>

(* NewServer creates the table under the context of main; that of the      *)
(* cronjobs also takes the jobsServer there is by then and starts the      *)
(* backend.                                                                *)
Register ==
  /\ InRegister
  /\ ~ContextOver
  /\ list[next] \in Services \ registered
  /\ tables' = tables \cup {list[next]}
  /\ registered' = registered \cup {list[next]}
  /\ jobsServer' = IF list[next] = "jobs" THEN "server" ELSE jobsServer
  /\ backend' = IF list[next] = "cronjobs" THEN jobsServer ELSE backend
  /\ next' = next + 1
  /\ UNCHANGED <<srv, list, signal, panic>>

(* A name that the switch does not know is passed over. *)
RegisterNothing ==
  /\ InRegister
  /\ list[next] \notin Services
  /\ next' = next + 1
  /\ UNCHANGED <<srv, list, jobsServer, backend, registered, signal, tables,
                 panic>>

(* The context is over, the database is gone, another server creates the   *)
(* table at the same time, or gRPC refuses a component listed twice.  Only *)
(* the answer of the database may have been lost.                          *)
RegisterFails ==
  /\ InRegister
  /\ list[next] \in Services
  /\ Off
  /\ tables' \in {tables, tables \cup {list[next]}}
  /\ UNCHANGED panic

(* New returns, and main assigns grpcServer. *)
Assign ==
  /\ srv = "register"
  /\ next > Len(list)
  /\ srv' = "assigned"
  /\ UNCHANGED <<list, next, jobsServer, backend, registered, signal, tables,
                 panic>>

Serve ==
  /\ srv = "assigned"
  /\ ~Stopped
  /\ srv' = "up"
  /\ UNCHANGED <<list, next, jobsServer, backend, registered, signal, tables,
                 panic>>

(* New, ListenAndServe or the monitoring server fails. *)
ServeFails ==
  /\ \/ srv = "register" /\ next > Len(list)
     \/ srv \in {"assigned", "up", "drain"}
  /\ Off
  /\ UNCHANGED <<tables, panic>>

(* ListenAndServe returns from a server that was stopped. *)
ServeEnds ==
  /\ srv \in {"assigned", "up", "drain"}
  /\ Stopped
  /\ Off
  /\ UNCHANGED <<tables, panic>>

(* ListenAndServe comes to notice that its context is over, and the server *)
(* takes no calls any more.  Until then it does, even if the context was   *)
(* over before it went up.                                                 *)
Drain ==
  /\ srv = "up"
  /\ ContextOver
  /\ srv' = "drain"
  /\ UNCHANGED <<list, next, jobsServer, backend, registered, signal, tables,
                 panic>>

(* Such a server ends with its last call, which its context does not end.  *)
ServeDrains(calls) ==
  /\ srv = "drain"
  /\ calls = {}
  /\ Off
  /\ UNCHANGED <<tables, panic>>

(* The backend comes to a due row and calls the nil jobsServer; a panic in *)
(* its goroutine is nobody's to recover.                                   *)
BackendPanics(due) ==
  /\ backend = "nil"
  /\ due # {}
  /\ Off
  /\ panic' = "nil"
  /\ UNCHANGED tables

Crash ==
  /\ Off
  /\ UNCHANGED <<tables, panic>>

-----------------------------------------------------------------------------
(* The goroutine of the signal; it takes one signal and leaves the others. *)

Interrupt ==
  /\ srv # "off"
  /\ signal = "none"
  /\ signal' = "sent"
  /\ UNCHANGED <<srv, list, next, jobsServer, backend, registered, tables,
                 panic>>

Cancel ==
  /\ signal = "sent"
  /\ signal' = "cancelled"
  /\ UNCHANGED <<srv, list, next, jobsServer, backend, registered, tables,
                 panic>>

(* Mutant of StopServer: the signal only cancels the context. *)
StopNothing ==
  /\ signal = "cancelled"
  /\ signal' = "missed"
  /\ UNCHANGED <<srv, list, next, jobsServer, backend, registered, tables,
                 panic>>

(* Stop, unless grpcServer is still nil. *)
StopServer ==
  /\ signal = "cancelled"
  /\ signal' = IF srv \in {"assigned", "up", "drain"} THEN "stopped" ELSE "missed"
  /\ UNCHANGED <<srv, list, next, jobsServer, backend, registered, tables,
                 panic>>

-----------------------------------------------------------------------------

(* What the process does by itself, given the calls that are open. *)
MainStep(calls) ==
  \/ Try \/ PingFails \/ PingAnswers \/ GiveUp
  \/ Register \/ RegisterNothing \/ RegisterFails \/ Assign
  \/ Serve \/ ServeEnds \/ Drain \/ ServeDrains(calls)

SignalStep == Cancel \/ StopServer

ServerNext(calls, due) ==
  \/ MainStep(calls) \/ SignalStep
  \/ \E l \in Lists : Start(l)
  \/ ServeFails \/ BackendPanics(due) \/ Crash \/ Interrupt

(***************************************************************************)
(* A server ends by a call of a nil jobsServer only if its list has        *)
(* cronjobs before jobs, or no jobs at all: the loop of Register hands the *)
(* jobsServer of one iteration to a later one.                             *)
(***************************************************************************)
Misordered(l) ==
  \E j \in DOMAIN l : /\ l[j] = "cronjobs"
                      /\ \A i \in 1 .. j - 1 : l[i] # "jobs"

NilOnlyIfMisordered == panic = "nil" => Misordered(list)

(* What Register knows of the part of the list that it is through with; for *)
(* the proofs.                                                             *)
ServerInv ==
  /\ TypeOK
  /\ srv \in {"off", "wait", "ping"} => next = 1
  /\ \A j \in 1 .. next - 1 : list[j] = "jobs" => jobsServer = "server"
  /\ jobsServer = "server" => "jobs" \in registered
  /\ backend = "nil" =>
       \E j \in 1 .. next - 1 : /\ list[j] = "cronjobs"
                               /\ \A i \in 1 .. j - 1 : list[i] # "jobs"
  /\ backend = "server" => jobsServer = "server"
  /\ registered \subseteq tables
  /\ NilOnlyIfMisordered
=============================================================================
