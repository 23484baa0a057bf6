----------------------------- MODULE Lifecycle -----------------------------
(***************************************************************************)
(* Start to end of the program: how the main thread learns that its two    *)
(* threads failed or ended, stops them and reports (main.cpp 829-1020).    *)
(*                                                                         *)
(* The threads are reduced to what main can observe of them: events pushed *)
(* to the FIFO EventQueue, an exception recorded under error_mutex, and    *)
(* the obedience to a stop token.  MinerPipeline says what they do         *)
(* meanwhile.                                                              *)
(***************************************************************************)
EXTENDS Naturals, FiniteSets, SequencesExt

CONSTANTS
  MaxEvents          \* bound: ordinary events each thread pushes

ASSUME EventsAssumption == MaxEvents \in Nat

Threads == {"control", "worker"}
Main == "main"

Event == [type : {"ordinary", "error", "exited"}, source : Threads]
         \cup [type : {"shutdown"}, source : {Main}]
Ordinary(t) == [type |-> "ordinary", source |-> t]
Error(t) == [type |-> "error", source |-> t]
Exited(t) == [type |-> "exited", source |-> t]
Shutdown == [type |-> "shutdown", source |-> Main]

VARIABLES
  (* Shared. *)
  sigint,            \* g_sigint_requested
  events,            \* EventQueue
  first_error,       \* the thread whose exception first_error holds
  stop,              \* stop[t]: the token of thread t is stopped
  (* The threads. *)
  pc,                \* pc[t]: where thread t is
  pushed,            \* pushed[t]: ordinary events so far, for the bound
  (* The main thread. *)
  mpc,               \* where the main thread is
  stop_requested,    \* its local of that name
  exited_seen,       \* control_exited and worker_exited, as a set of threads
  exit_code,         \* what main returns
  (* History. *)
  rendered,          \* events that left the queue, in order
  threw              \* threads that threw an exception

threadVars == <<pc, pushed, threw>>
mainVars == <<mpc, stop_requested, exited_seen, exit_code, rendered>>
vars == <<sigint, events, first_error, stop, threadVars, mainVars>>

ThreadPCs == {"running", "record", "report", "exit", "ended"}
MainPCs == {"loop", "sigint", "sigint_control", "sigint_worker", "error",
            "error_control", "error_worker", "pop", "leftover", "rethrow", "ended",
            "unwind_worker", "join_worker", "unwind_control", "join_control", "aborted"}

(* main holds error_mutex while it asks for the shutdown. *)
MainHoldsErrorMutex == mpc \in {"error_control", "error_worker"}

TypeOK ==
  /\ sigint \in BOOLEAN
  /\ events \in Seq(Event)
  /\ first_error \in Threads \cup {"none"}
  /\ stop \in [Threads -> BOOLEAN]
  /\ pc \in [Threads -> ThreadPCs]
  /\ pushed \in [Threads -> 0 .. MaxEvents]
  /\ mpc \in MainPCs
  /\ stop_requested \in BOOLEAN
  /\ exited_seen \subseteq Threads
  /\ exit_code \in {"none", "0", "1"}
  /\ rendered \in Seq(Event)
  /\ threw \subseteq Threads

Init ==
  /\ sigint = FALSE
  /\ events = <<>>
  /\ first_error = "none"
  /\ stop = [t \in Threads |-> FALSE]
  /\ pc = [t \in Threads |-> "running"]
  /\ pushed = [t \in Threads |-> 0]
  /\ mpc = "loop"
  /\ stop_requested = FALSE
  /\ exited_seen = {}
  /\ exit_code = "none"
  /\ rendered = <<>>
  /\ threw = {}

-----------------------------------------------------------------------------
(* The threads. *)

Goto(t, p) == pc' = [pc EXCEPT ![t] = p]
Push(e) == events' = Append(events, e)

(* Any event of a running thread that main only prints. *)
PushOrdinary(t) ==
  /\ pc[t] = "running"
  /\ pushed[t] < MaxEvents
  /\ pushed' = [pushed EXCEPT ![t] = @ + 1]
  /\ Push(Ordinary(t))
  /\ UNCHANGED <<sigint, first_error, stop, pc, threw, mainVars>>

(* An exception reaches the handler of the thread body. *)
Throw(t) ==
  /\ pc[t] = "running"
  /\ threw' = threw \cup {t}
  /\ Goto(t, "record")
  /\ UNCHANGED <<sigint, events, first_error, stop, pushed, mainVars>>

(* Faulty variant: only the first exception is reported. *)
RecordSilently(t) ==
  /\ pc[t] = "record"
  /\ ~MainHoldsErrorMutex
  /\ IF first_error = "none"
       THEN first_error' = t /\ Goto(t, "report")
       ELSE UNCHANGED first_error /\ Goto(t, "exit")
  /\ UNCHANGED <<sigint, events, stop, pushed, threw, mainVars>>

(* record_thread_exception, under the lock: the first exception is kept. *)
Record(t) ==
  /\ pc[t] = "record"
  /\ ~MainHoldsErrorMutex
  /\ first_error' = IF first_error = "none" THEN t ELSE first_error
  /\ Goto(t, "report")
  /\ UNCHANGED <<sigint, events, stop, pushed, threw, mainVars>>

(* Faulty variant: the exit is announced ahead of the error. *)
ReportLate(t) ==
  /\ pc[t] = "report"
  /\ events' = events \o <<Exited(t), Error(t)>>
  /\ Goto(t, "ended")
  /\ UNCHANGED <<sigint, first_error, stop, pushed, threw, mainVars>>

(* record_thread_exception, behind the lock. *)
Report(t) ==
  /\ pc[t] = "report"
  /\ Push(Error(t))
  /\ Goto(t, "exit")
  /\ UNCHANGED <<sigint, first_error, stop, pushed, threw, mainVars>>

(* The thread notices its stop request and leaves its loop. *)
Obey(t) ==
  /\ pc[t] = "running"
  /\ stop[t]
  /\ Goto(t, "exit")
  /\ UNCHANGED <<sigint, events, first_error, stop, pushed, threw, mainVars>>

(* ThreadExitedEvent is the last thing a thread pushes. *)
Exit(t) ==
  /\ pc[t] = "exit"
  /\ Push(Exited(t))
  /\ Goto(t, "ended")
  /\ UNCHANGED <<sigint, first_error, stop, pushed, threw, mainVars>>

Thread(t) ==
  \/ PushOrdinary(t)
  \/ Throw(t)
  \/ Record(t)
  \/ Report(t)
  \/ Obey(t)
  \/ Exit(t)

-----------------------------------------------------------------------------
(* The main thread. *)

threadsOnly == <<sigint, threadVars>>

Signal ==
  /\ ~sigint
  /\ sigint' = TRUE
  /\ UNCHANGED <<events, first_error, stop, threadVars, mainVars>>

(* Faulty variant: the first thread to end takes main with it. *)
LoopHeadEither ==
  /\ mpc = "loop"
  /\ mpc' = IF exited_seen # {} THEN "leftover" ELSE "sigint"
  /\ UNCHANGED <<threadsOnly, events, first_error, stop, stop_requested,
                 exited_seen, exit_code, rendered>>

(* while (!(control_exited && worker_exited)) *)
LoopHead ==
  /\ mpc = "loop"
  /\ mpc' = IF exited_seen = Threads THEN "leftover" ELSE "sigint"
  /\ UNCHANGED <<threadsOnly, events, first_error, stop, stop_requested,
                 exited_seen, exit_code, rendered>>

(* Faulty variant: the request is not remembered. *)
SigintCheckForgets ==
  /\ mpc = "sigint"
  /\ IF sigint /\ ~stop_requested
       THEN Push(Shutdown) /\ mpc' = "sigint_control"
       ELSE mpc' = "error" /\ UNCHANGED events
  /\ UNCHANGED <<threadsOnly, first_error, stop, stop_requested, exited_seen,
                 exit_code, rendered>>

(* The SIGINT check. *)
SigintCheck ==
  /\ mpc = "sigint"
  /\ IF sigint /\ ~stop_requested
       THEN stop_requested' = TRUE /\ Push(Shutdown) /\ mpc' = "sigint_control"
       ELSE mpc' = "error" /\ UNCHANGED <<stop_requested, events>>
  /\ UNCHANGED <<threadsOnly, first_error, stop, exited_seen, exit_code, rendered>>

(* The error check, under error_mutex. *)
ErrorCheck ==
  /\ mpc = "error"
  /\ IF first_error # "none" /\ ~stop_requested
       THEN stop_requested' = TRUE /\ Push(Shutdown) /\ mpc' = "error_control"
       ELSE mpc' = "pop" /\ UNCHANGED <<stop_requested, events>>
  /\ UNCHANGED <<threadsOnly, first_error, stop, exited_seen, exit_code, rendered>>

RequestStop(t) == stop' = [stop EXCEPT ![t] = TRUE]

(* request_stop of the control thread, then of the worker thread. *)
StopControl ==
  /\ \/ mpc = "sigint_control" /\ mpc' = "sigint_worker"
     \/ mpc = "error_control" /\ mpc' = "error_worker"
  /\ RequestStop("control")
  /\ UNCHANGED <<threadsOnly, events, first_error, stop_requested, exited_seen,
                 exit_code, rendered>>

(* Faulty variant: the worker is not told. *)
StopWorkerForgotten ==
  /\ \/ mpc = "sigint_worker" /\ mpc' = "error"
     \/ mpc = "error_worker" /\ mpc' = "pop"
  /\ UNCHANGED <<threadsOnly, events, first_error, stop, stop_requested,
                 exited_seen, exit_code, rendered>>

StopWorker ==
  /\ \/ mpc = "sigint_worker" /\ mpc' = "error"
     \/ mpc = "error_worker" /\ mpc' = "pop"
  /\ RequestStop("worker")
  /\ UNCHANGED <<threadsOnly, events, first_error, stop_requested, exited_seen,
                 exit_code, rendered>>

(* wait_pop_for times out: the queue was empty for 100 ms. *)
PopTimeout ==
  /\ mpc = "pop"
  /\ events = <<>>
  /\ mpc' = "loop"
  /\ UNCHANGED <<threadsOnly, events, first_error, stop, stop_requested,
                 exited_seen, exit_code, rendered>>

(* One event is popped and rendered; only a thread's exit changes main.    *)
PopRender ==
  /\ mpc = "pop"
  /\ events # <<>>
  /\ events' = Tail(events)
  /\ rendered' = Append(rendered, Head(events))
  /\ exited_seen' = IF Head(events).type = "exited"
                      THEN exited_seen \cup {Head(events).source}
                      ELSE exited_seen
  /\ mpc' = "loop"
  /\ UNCHANGED <<threadsOnly, first_error, stop, stop_requested, exit_code>>

(* Rendering throws: decode_coinbase, called for the StartupEvent, does    *)
(* not accept the pool's coinbase.  StartupEvent is one of the control     *)
(* thread's ordinary events.                                               *)
RenderFails ==
  /\ mpc = "pop"
  /\ events # <<>>
  /\ Head(events) = Ordinary("control")
  /\ events' = Tail(events)
  /\ rendered' = Append(rendered, Head(events))
  /\ mpc' = "unwind_worker"
  /\ UNCHANGED <<threadsOnly, first_error, stop, stop_requested, exited_seen, exit_code>>

(* The exception leaves main's block.  Destroying a std::jthread stops and *)
(* joins it, the worker first.                                             *)
UnwindStop ==
  /\ \/ mpc = "unwind_worker" /\ mpc' = "join_worker" /\ RequestStop("worker")
     \/ mpc = "unwind_control" /\ mpc' = "join_control" /\ RequestStop("control")
  /\ UNCHANGED <<threadsOnly, events, first_error, stop_requested, exited_seen,
                 exit_code, rendered>>

JoinWorker ==
  /\ mpc = "join_worker"
  /\ pc["worker"] = "ended"
  /\ mpc' = "unwind_control"
  /\ UNCHANGED <<threadsOnly, events, first_error, stop, stop_requested,
                 exited_seen, exit_code, rendered>>

JoinControl ==
  /\ mpc = "join_control"
  /\ pc["control"] = "ended"
  /\ exit_code' = "1"
  /\ mpc' = "aborted"
  /\ UNCHANGED <<threadsOnly, events, first_error, stop, stop_requested,
                 exited_seen, rendered>>

(* The leftovers: only errors among them are printed. *)
Leftover ==
  /\ mpc = "leftover"
  /\ events # <<>>
  /\ events' = Tail(events)
  /\ rendered' = IF Head(events).type = "error"
                   THEN Append(rendered, Head(events)) ELSE rendered
  /\ UNCHANGED <<threadsOnly, first_error, stop, mpc, stop_requested,
                 exited_seen, exit_code>>

LeftoverDone ==
  /\ mpc = "leftover"
  /\ events = <<>>
  /\ mpc' = "rethrow"
  /\ UNCHANGED <<threadsOnly, events, first_error, stop, stop_requested,
                 exited_seen, exit_code, rendered>>

(* The first error, if any, ends the program with 1. *)
Return ==
  /\ mpc = "rethrow"
  /\ exit_code' = IF first_error = "none" THEN "0" ELSE "1"
  /\ mpc' = "ended"
  /\ UNCHANGED <<threadsOnly, events, first_error, stop, stop_requested,
                 exited_seen, rendered>>

MainStep ==
  \/ LoopHead
  \/ SigintCheck
  \/ ErrorCheck
  \/ StopControl
  \/ StopWorker
  \/ PopTimeout
  \/ PopRender
  \/ RenderFails
  \/ UnwindStop
  \/ JoinWorker
  \/ JoinControl
  \/ Leftover
  \/ LeftoverDone
  \/ Return

Ended == mpc \in {"ended", "aborted"} /\ UNCHANGED vars

Next == (\E t \in Threads : Thread(t)) \/ Signal \/ MainStep \/ Ended

Spec == Init /\ [][Next]_vars

(* The scheduler runs every thread; a thread looks at its stop token again *)
(* and again, so that it obeys it sooner or later if it does not throw.    *)
FairSpec ==
  /\ Spec
  /\ WF_vars(MainStep)
  /\ \A t \in Threads : /\ WF_vars(Record(t) \/ Report(t) \/ Exit(t))
                        /\ WF_vars(Obey(t))

-----------------------------------------------------------------------------
(* Properties. *)

(* Everything that was or will be rendered, in order. *)
Log == rendered \o events

Unwinding ==
  mpc \in {"unwind_worker", "join_worker", "unwind_control", "join_control", "aborted"}

(* What main has learnt of a thread lies behind the thread's own steps.    *)
ProtocolInv ==
  /\ \A t \in Threads : pc[t] = "ended" <=> Exited(t) \in ToSet(Log)
  /\ exited_seen = {t \in Threads : Exited(t) \in ToSet(rendered)}
  /\ \A t \in Threads : stop[t] => stop_requested \/ Unwinding
  /\ mpc \in {"leftover", "rethrow", "ended"} => exited_seen = Threads

(* Every variable has its type, and main's flags follow the threads.       *)
TypeInv == TypeOK /\ ProtocolInv

(* The exit event of a thread is its last and its only one, so that main   *)
(* may leave its loop on it: nothing of the thread is left behind          *)
(* (main.cpp 531-555, 811-813, 890-896, 906-909, 939-943).                 *)
ExitIsLast ==
  \A i, j \in DOMAIN Log :
    Log[i].type = "exited" /\ Log[j].source = Log[i].source => j <= i

(* The loop over the leftovers never finds an error to print: all that can *)
(* be left is main's own announcement of the shutdown, which it makes and  *)
(* asks for once, whether a signal, an error or both come first (main.cpp  *)
(* 953-970, 990-1001).                                                     *)
LeftoversAreShutdown ==
  /\ mpc \in {"leftover", "rethrow", "ended"}
       => \A i \in DOMAIN events : events[i] = Shutdown
  /\ Cardinality({i \in DOMAIN Log : Log[i] = Shutdown}) <= 1

(* When the program ends by itself every exception was printed, and the    *)
(* exit code is 1 exactly when a thread threw (main.cpp 531-555,           *)
(* 1003-1019).  If main fails, only its own exception is printed.          *)
ErrorsReported ==
  /\ mpc = "ended" =>
       /\ \A t \in threw : Error(t) \in ToSet(rendered)
       /\ (exit_code = "1") <=> (threw # {})
       /\ first_error \in threw \cup {"none"}
  /\ mpc = "aborted" => \A t \in Threads : pc[t] = "ended"

(* An exception is recorded before it is reported, and reported before the *)
(* exit is announced.                                                      *)
ThreadInv ==
  /\ \A t \in Threads : pc[t] = "running" => t \notin threw
  /\ \A t \in Threads : pc[t] \in {"record", "report"} => t \in threw
  /\ \A t \in threw : pc[t] # "record" => first_error # "none"
  /\ first_error \in threw \cup {"none"}

ShutdownOnce ==
  \A i, j \in DOMAIN Log : Log[i] = Shutdown /\ Log[j] = Shutdown => i = j

(* What lies in the log of a thread that has passed a step, and of main.   *)
LogInv ==
  /\ \A t \in threw : pc[t] \in {"exit", "ended"} => Error(t) \in ToSet(Log)
  /\ Shutdown \in ToSet(Log) => stop_requested
  /\ ShutdownOnce
  /\ ExitIsLast

(* Main stops threads in one shutdown, and joins them in order. *)
MainInv ==
  /\ mpc \in {"sigint_control", "sigint_worker", "error_control", "error_worker"}
       => stop_requested
  /\ mpc \in {"leftover", "rethrow", "ended"}
       => \A i \in DOMAIN events : events[i] = Shutdown
  /\ mpc = "ended" => (exit_code = "1" <=> threw # {})
  /\ mpc \in {"unwind_control", "join_control", "aborted"} => pc["worker"] = "ended"
  /\ mpc = "aborted" => pc["control"] = "ended"

(* What every step preserves. *)
LifecycleInv ==
  /\ TypeInv
  /\ ThreadInv
  /\ LogInv
  /\ MainInv

(* A signal or an exception, in either thread or in main itself, ends the  *)
(* whole program.                                                          *)
ProgramEnds ==
  (sigint \/ threw # {} \/ Unwinding) ~> (mpc \in {"ended", "aborted"})

=============================================================================
