---------------------------- MODULE DaemonLifecycle ---------------------------
(***************************************************************************)
(* Start and stop of the process: command_run of cli.py, Daemon.start and  *)
(* Daemon.stop (daemon.py) and the handshake of serve_forever and          *)
(* shutdown in the standard library's socketserver.                        *)
(*                                                                         *)
(* The handler of SIGTERM and SIGINT runs stop() inside the main thread,   *)
(* wherever that is; what it interrupted goes on afterwards.  Event.set()  *)
(* and Event.wait() of the standard library enter the same lock, which is  *)
(* not reentrant: wait() holds it until it sleeps.  The queue that stop()  *)
(* puts its sentinel on is HistoryPipeline's; here the put returns.        *)
(***************************************************************************)
EXTENDS SolisDiagnostics, FiniteSets, SequencesExt

CONSTANT Order    \* the threads in the order start() makes them

Threads == ToSet(Order)

ASSUME LifecycleAssumption ==
    /\ Order \in Seq(STRING)
    /\ IsInjective(Order)
    /\ {"history", "api", "monitor", "solis"} \subseteq Threads

VARIABLES
    main,       \* "start", "create", "register", "enter", "wait", "finally" or "exited"
    created,    \* threads created so far
    threads,    \* Daemon.threads
    stopping,   \* stop(): "none", "set", "close", "closing", "join", "sentinel" or "event"
    joining,    \* threads that stop() has still to join
    gave_up,    \* history variable: threads whose join in this stop() timed out
    log,        \* events of component daemon
    serving,    \* the API thread is inside serve_forever
    shutdown_request, is_shut_down    \* external: fields of BaseServer

mainVars   == <<main, created, threads, log>>
stopVars   == <<stopping, joining, gave_up>>
serverVars == <<serving, shutdown_request, is_shut_down>>
daemonVars == <<stop_event, thread, diagnosticVars, mainVars, stopVars, serverVars>>

DaemonInit ==
    /\ DiagnosticsInit
    /\ stop_event = FALSE
    /\ thread = [t \in Threads |-> "none"]
    /\ main = "start" /\ created = 0 /\ threads = {} /\ log = <<>>
    /\ stopping = "none" /\ joining = {} /\ gave_up = {}
    /\ serving = FALSE /\ shutdown_request = FALSE /\ is_shut_down = FALSE

-----------------------------------------------------------------------------
(* The main thread. *)

\* record_event; sqlite3.Error leaves start().
StartEvent ==
    /\ main = "start"
    /\ \/ main' = "create" /\ log' = Append(log, "started")
       \/ main' = "finally" /\ UNCHANGED log
    /\ UNCHANGED <<stop_event, thread, created, threads, stopVars>>

\* thread.start(), and after it self.threads[name] = thread
CreateThread ==
    /\ main = "create" /\ created < Len(Order)
    /\ thread' = [thread EXCEPT ![Order[created + 1]] = "running"]
    /\ created' = created + 1
    /\ main' = "register"
    /\ UNCHANGED <<stop_event, threads, log, stopVars>>

Register ==
    /\ main = "register"
    /\ threads' = threads \cup {Order[created]}
    /\ main' = "create"
    /\ UNCHANGED <<stop_event, thread, created, log, stopVars>>

\* run_forever calls stop_event.wait(), which takes the lock of the event ...
Started ==
    /\ main = "create" /\ created = Len(Order)
    /\ main' = "enter"
    /\ UNCHANGED <<stop_event, thread, created, threads, log, stopVars>>

\* ... and gives it back to sleep.
Sleeps ==
    /\ main = "enter"
    /\ main' = "wait"
    /\ UNCHANGED <<stop_event, thread, created, threads, log, stopVars>>

\* run_forever returns
Woken ==
    /\ main = "wait" /\ stop_event
    /\ main' = "finally"
    /\ UNCHANGED <<stop_event, thread, created, threads, log, stopVars>>

Finally ==
    /\ main = "finally"
    /\ IF stop_event THEN main' = "exited" /\ UNCHANGED stopping
                     ELSE stopping' = "set" /\ UNCHANGED main
    /\ UNCHANGED <<stop_event, thread, created, threads, log, joining, gave_up>>

MainStep ==
    /\ stopping = "none"
    /\ StartEvent \/ CreateThread \/ Register \/ Started \/ Sleeps \/ Woken \/ Finally
    /\ UNCHANGED <<diagnosticVars, serverVars>>

-----------------------------------------------------------------------------
(* stop(). *)

\* A signal: a second one finds the stop event set.  That it may come before the first has
\* set the event is left out.
RequestStop ==
    /\ main # "exited" /\ ~stop_event /\ stopping = "none"
    /\ stopping' = "set"
    /\ UNCHANGED <<stop_event, thread, diagnosticVars, mainVars, joining, gave_up, serverVars>>

\* Event.set() waits for the lock of the event.
SetEvent ==
    /\ stopping = "set" /\ main # "enter"
    /\ stop_event' = TRUE
    /\ stopping' = "close"
    /\ UNCHANGED <<main, log, joining, gave_up, shutdown_request>>

CloseApi ==
    /\ stopping = "close"
    /\ shutdown_request' = TRUE
    /\ stopping' = "closing"
    /\ UNCHANGED <<main, log, joining, gave_up>>

\* Mutant for StragglersKnown: only the device workers are joined.
Mutant_ToJoin == threads \ {"history", "monitor"}

ToJoin == threads \ {"history"}

\* shutdown() returns
ApiClosed ==
    /\ stopping = "closing" /\ is_shut_down
    /\ joining' = ToJoin
    /\ stopping' = "join"
    /\ UNCHANGED <<main, log, gave_up, shutdown_request>>

\* Mutant for StopReturns: join() without a timeout.
Mutant_JoinReturns(t) == thread[t] = "ended"

\* join(timeout=5): the thread has ended, or time is up.
JoinReturns(t) == TRUE

Join ==
    /\ stopping = "join" /\ joining # {}
    /\ LET t == Order[CHOOSE k \in DOMAIN Order :
                        /\ Order[k] \in joining
                        /\ \A j \in 1 .. k - 1 : Order[j] \notin joining]
       IN  /\ JoinReturns(t)
           /\ joining' = joining \ {t}
           /\ gave_up' = IF thread[t] = "ended" THEN gave_up ELSE gave_up \cup {t}
    /\ UNCHANGED <<main, log, stopping, shutdown_request>>

PutSentinel ==
    /\ stopping = "join" /\ joining = {}
    /\ stopping' = "sentinel"
    /\ UNCHANGED <<main, log, joining, gave_up, shutdown_request>>

JoinHistory ==
    /\ stopping = "sentinel"
    /\ "history" \in threads => JoinReturns("history")
    /\ stopping' = "event"
    /\ UNCHANGED <<main, log, joining, gave_up, shutdown_request>>

\* record_event; sqlite3.Error goes up through whatever stop() had interrupted.
StopEvent ==
    /\ stopping = "event"
    /\ \/ log' = Append(log, "stopped") /\ UNCHANGED main
       \/ main' = "finally" /\ UNCHANGED log
    /\ stopping' = "none" /\ gave_up' = {}
    /\ UNCHANGED <<joining, shutdown_request>>

StopStep ==
    /\ \/ SetEvent
       \/ /\ CloseApi \/ ApiClosed \/ Join \/ PutSentinel \/ JoinHistory \/ StopEvent
          /\ UNCHANGED stop_event
    /\ UNCHANGED <<thread, diagnosticVars, created, threads, serving, is_shut_down>>

-----------------------------------------------------------------------------
(* The other threads, as long as the process lives. *)

Serve ==
    /\ thread["api"] = "running" /\ ~serving
    /\ serving' = TRUE /\ is_shut_down' = FALSE
    /\ UNCHANGED <<thread, shutdown_request>>

LeaveServe ==
    /\ serving /\ shutdown_request
    /\ serving' = FALSE /\ shutdown_request' = FALSE /\ is_shut_down' = TRUE
    /\ thread' = [thread EXCEPT !["api"] = "ended"]

ApiStep ==
    /\ main # "exited"
    /\ Serve \/ LeaveServe
    /\ UNCHANGED <<stop_event, diagnosticVars, mainVars, stopVars>>

\* Workers and the history thread end after stop, or by an exception run() lets through.
WorkerEnds(t) ==
    /\ main # "exited"
    /\ thread[t] = "running"
    /\ thread' = [thread EXCEPT ![t] = "ended"]
    /\ UNCHANGED <<stop_event, diagnosticVars, mainVars, stopVars, serverVars>>

Diagnostics ==
    /\ main # "exited"
    /\ DiagnosticsStep
    /\ UNCHANGED <<mainVars, stopVars, serverVars>>

DaemonNext ==
    \/ MainStep \/ RequestStop \/ StopStep \/ ApiStep \/ Diagnostics
    \/ \E t \in Threads \ {"api", "monitor", "solis"} : WorkerEnds(t)

DaemonSpec == DaemonInit /\ [][DaemonNext]_daemonVars

\* The scheduler runs every thread that can run; joins time out; the inverter and its port
\* owe nothing, nor does any thread have to end.
SolisRuns == main # "exited" /\ SolisStep /\ UNCHANGED <<mainVars, stopVars, serverVars>>

PortOpens == SolisRuns /\ solis' = "read"

FairDaemonSpec ==
    /\ DaemonSpec
    /\ WF_daemonVars(MainStep) /\ WF_daemonVars(StopStep) /\ WF_daemonVars(ApiStep)
    /\ WF_daemonVars(SolisRuns) /\ SF_daemonVars(PortOpens)

-----------------------------------------------------------------------------
(* Properties *)

ApiCreated == thread["api"] # "none"

\* docs/daemon-plan.md: "clean shutdown".  A stop that comes when the API thread has been
\* created, wherever start() was, ends the process: no thread can hold it up.
StopReturns == (stop_event /\ ApiCreated) ~> main = "exited"

\* Before that nobody will ever answer api.close(): the process stays, without its workers.
StopAlwaysReturns == stop_event ~> main = "exited"

\* docs/daemon-plan.md: "clean shutdown".  A signal sets the stop event; but a handler that
\* interrupts the main thread where it holds the lock of the event waits for itself.
StopTakesEffect == (stopping = "set") ~> stop_event

\* When stop() puts its sentinel every thread that may still publish is one whose join timed
\* out, or the one the signal caught between thread.start() and its entry in threads.
StragglersKnown ==
    stopping = "sentinel" =>
        \A t \in Threads \ {"history"} :
            thread[t] = "running" => t \in gave_up \/ (main = "register" /\ t = Order[created])

\* Once the inverter answers for good and no stop is requested the Solis thread reads round
\* after round: of all errors only termios.error is final.
ReadsResume ==
    <>[](answers = Groups /\ ~stop_event /\ thread["solis"] # "none" /\ solis # "broken") =>
        []<><<group = Groups /\ group' = 1>>_daemonVars
=============================================================================
