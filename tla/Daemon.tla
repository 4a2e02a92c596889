------------------------------- MODULE Daemon -------------------------------
(***************************************************************************)
(* The life of the daemon, src/src/main.rs, around one service: both       *)
(* servers listen, the service is started if its definition says so, a     *)
(* signal is awaited, and stop_all ends what is registered.  `Main` runs   *)
(* `start` and `stop` as just another caller; it, the requests, the        *)
(* watchers and the timers interleave freely, as in ServiceManager.        *)
(***************************************************************************)
EXTENDS ServiceManager

CONSTANT Main   \* the task of `run`, one of Handlers

ASSUME MainAssumption == Main \in Handlers

VARIABLES
    phase,    \* of `run`
    crossed   \* history: the processes that were Crossed before they registered

daemonVars == <<vars, phase, crossed>>

Ended == {"exited", "killed"}
ShuttingDown == {"stopping", "leaving", "dropping"}

Tasks == Callers \ {Main}

TasksRest ==
    /\ \A c \in Tasks : ~Calling(c)
    /\ \A p \in Pids : watcher[p] \notin WatcherBusy

-----------------------------------------------------------------------------
\* run

\* load_all_service_configs finds the service marked autoStart, or not.
AutoStart ==
    /\ phase = "booting"
    /\ Receive(Main, "start")
    /\ phase' = "autostart"

NoAutoStart ==
    /\ phase = "booting"
    /\ phase' = "serving"
    /\ UNCHANGED vars

AutoStarted ==
    /\ phase = "autostart"
    /\ pc[Main] = "idle"
    /\ phase' = "serving"
    /\ UNCHANGED vars

\* The handlers of SIGINT and SIGTERM are installed by shutdown_signal, after
\* the auto-start: before, a signal ends the process, as does a Web UI port
\* that cannot be bound, although the daemon API is served already.
EndsEarly ==
    /\ phase \in {"booting", "autostart"}
    /\ phase' = "killed"
    /\ UNCHANGED vars

\* The signal arrives and stop_all copies the names of the registered services.
ListServices ==
    /\ phase = "serving"
    /\ IF processes = None
       THEN phase' = "leaving" /\ UNCHANGED <<pc, op>>
       ELSE /\ phase' = "stopping"
            /\ Goto(Main, "stopAll")
            /\ op' = [op EXCEPT ![Main] = "stop"]
    /\ UNCHANGED <<maps, osVars, watcher, target>>

\* Mutant of CancelThenStop: the timer is cancelled, the process is not stopped.
CancelOnly ==
    /\ pc[Main] = "stopAll"
    /\ SetTimer(None)
    /\ Goto(Main, "idle")
    /\ UNCHANGED <<osVars, watcher, op, target, phase>>

\* stop_all cancels the timer of a listed service and then calls stop.
CancelThenStop ==
    /\ pc[Main] = "stopAll"
    /\ pc' = [c \in Callers |->
                IF c = Main THEN FirstLabel("stop")
                ELSE IF c = retryTimers /\ pc[c] = "sleeping" THEN "finished"
                ELSE pc[c]]
    /\ SetTimer(None)
    /\ UNCHANGED <<osVars, watcher, op, target, phase>>

\* Aborting the servers ends their accept loops, not their connections.
StopAllReturns ==
    /\ phase = "stopping"
    /\ pc[Main] = "idle"
    /\ phase' = "leaving"
    /\ UNCHANGED vars

\* main returns and drops the runtime: no task is polled again, but a worker
\* finishes the one it is in.
DropRuntime ==
    /\ phase = "leaving"
    /\ phase' = "dropping"
    /\ UNCHANGED vars

\* Mutant of Exit: the watchers are awaited as well.
ExitAwaitsWatchers ==
    /\ phase = "dropping"
    /\ TasksRest
    /\ \A p \in Pids : watcher[p] # "waiting"
    /\ phase' = "exited"
    /\ UNCHANGED vars

Exit ==
    /\ phase = "dropping"
    /\ TasksRest
    /\ phase' = "exited"
    /\ UNCHANGED vars

MainCall ==
    /\ phase \notin Ended
    /\ CallStep(Main)
    /\ UNCHANGED phase

MainStep ==
    \/ AutoStart \/ NoAutoStart \/ AutoStarted \/ ListServices
    \/ CancelThenStop \/ StopAllReturns \/ DropRuntime \/ Exit \/ MainCall

-----------------------------------------------------------------------------
\* Everything else.  A task begins only while the runtime polls tasks.

Polled == phase \notin Ended \cup {"dropping"}

Serve(h, request) ==
    /\ Polled
    /\ Receive(h, request)
    /\ UNCHANGED phase

Continue(c) ==
    /\ phase \notin Ended
    /\ CallStep(c)
    /\ UNCHANGED phase

Watching(p) ==
    /\ Polled \/ (phase \notin Ended /\ watcher[p] \in WatcherBusy)
    /\ WatcherStep(p)
    /\ UNCHANGED phase

Retrying(p) ==
    /\ Polled \/ (phase \notin Ended /\ Calling(p))
    /\ TimerStep(p)
    /\ UNCHANGED phase

Exiting(p) == ChildExits(p) /\ UNCHANGED phase

-----------------------------------------------------------------------------
\* stop_all has removed what it found, or has found nothing.
Passed ==
    \/ phase \in {"leaving", "dropping", "exited"}
    \/ /\ phase = "stopping"
       /\ pc[Main] \in {"clearStart", "finishStop", "lowerFlag", "idle"}

\* While c is about to register a process, somebody else is about to register
\* or to remove one by the same name, or nobody will remove it any more.
Crossed(c) ==
    /\ pc[c] = "register"
    /\ \/ \E d \in Callers \ {c} : Placing(d) \/ Removing(d)
       \/ \E p \in Pids : watcher[p] = "forget"
       \/ Passed

Recorded(A) ==
    /\ A
    /\ crossed' = crossed \cup {target'[c] : c \in {b \in Callers : Crossed(b)'}}

DaemonInit == Init /\ phase = "booting" /\ crossed = {}

DaemonNext ==
    \/ Recorded(MainStep) \/ Recorded(EndsEarly)
    \/ \E h \in Handlers \ {Main}, request \in Requests : Recorded(Serve(h, request))
    \/ \E c \in Tasks : Recorded(Continue(c))
    \/ \E p \in Pids :
          Recorded(Watching(p)) \/ Recorded(Retrying(p)) \/ Recorded(Exiting(p))

\* `run` is a task like the others; once it has been signalled it never waits.
DaemonFairness ==
    /\ WF_daemonVars(phase \in ShuttingDown /\ Recorded(MainStep))
    /\ \A h \in Handlers \ {Main} : WF_daemonVars(Recorded(Continue(h)))
    /\ WF_daemonVars(\E p \in Pids :
          Recorded(Watching(p)) \/ Recorded(Retrying(p)) \/ Recorded(Continue(p)))

DaemonSpec == DaemonInit /\ [][DaemonNext]_daemonVars

FairDaemonSpec == DaemonSpec /\ DaemonFairness

-----------------------------------------------------------------------------
\* After a signal that the daemon handles, whatever overlaps whatever, a
\* process outlives the daemon only if it was crossed: after its spawn and
\* before its registration another start, a stop, a restart or a watcher was
\* between its look at the map and its write, or stop_all was past the service.
SurvivorsAreCrossed ==
    phase = "exited" => \A p \in Pids : child[p] = "alive" => p \in crossed

\* "Start the service (no-op with an error if already running)", docs/api.md,
\* is broken in no other way than ConcurrentStarts shows: of two processes of
\* the service that live together, one was crossed before it registered.
TwoLiveOnlyIfCrossed ==
    \A p, q \in Pids : child[p] = "alive" /\ child[q] = "alive" =>
        p = q \/ p \in crossed \/ q \in crossed

\* A shutdown ends, whatever the service's processes do.
ShutdownEnds == phase = "stopping" ~> phase = "exited"
=============================================================================
