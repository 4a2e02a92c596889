------------------------ MODULE SerialServiceManager ------------------------
(***************************************************************************)
(* The same ServiceManager under the schedules in which its tasks do not   *)
(* overlap: a call, a watcher or a timer that has begun finishes before    *)
(* another task begins, and an exit is noticed before anything else        *)
(* begins.  Every behaviour here is a behaviour of ServiceManager; the     *)
(* schedules are the common ones, and separate what is wrong with the      *)
(* logic of the manager from what only overlapping critical sections do.   *)
(***************************************************************************)
EXTENDS ServiceManager

UnseenExits == {p \in Pids : child[p] \in ExitKinds /\ watcher[p] = "waiting"}

NoTaskRuns ==
    /\ \A c \in Callers : ~Calling(c)
    /\ \A p \in Pids : watcher[p] \notin WatcherBusy

\* Nothing is left to do but to serve new requests or wait for sleeping timers.
Settled == NoTaskRuns /\ UnseenExits = {}

SerialReceive(h, request) == Settled /\ Receive(h, request)

SerialWatcherStep(p) == (NoTaskRuns \/ watcher[p] \in WatcherBusy) /\ WatcherStep(p)

SerialTimerStep(p) == (Settled \/ Calling(p)) /\ TimerStep(p)

SerialNext ==
    \/ \E h \in Handlers, request \in Requests : SerialReceive(h, request)
    \/ \E c \in Callers : CallStep(c)
    \/ \E p \in Pids : ChildExits(p) \/ SerialWatcherStep(p) \/ SerialTimerStep(p)

SerialSpec == Init /\ [][SerialNext]_vars

-----------------------------------------------------------------------------
\* "Start the service (no-op with an error if already running)", docs/api.md:
\* two processes of one service are never alive together.
AtMostOneLive ==
    \A p, q \in Pids : child[p] = "alive" /\ child[q] = "alive" => p = q

\* "running: process is currently up", docs/api.md: once every task is done,
\* the registered process is alive and a process that is alive is registered.
RunningIsTrue ==
    Settled => {p \in Pids : child[p] = "alive"} = {processes} \ {None}

\* "do not leave the stopping flag behind", service_manager.rs:289: once every
\* task is done the flag is down, even while a retry is awaited, so that it
\* swallows neither the exit of a later process nor the retry.
FlagIsLowered == Settled => ~stopping

\* "duration: uptime in seconds (null when not running)", docs/api.md: once
\* every task is done a running service has a start time to measure from.
DurationIsKnown == Settled /\ processes # None => startTimes

-----------------------------------------------------------------------------
\* The state of the service that its clients may rely on.  A start counts
\* once it has reset the retries, and a failure once it is dealt with.

AskingForStart == {h \in Handlers : op[h] \in {"start", "restart"}}

Deciding == {p \in Pids : watcher[p] \in {"clearStart", "countExit", "spawnTimer"}}

ServiceUp ==
    \/ processes # None /\ \A c \in Callers : pc[c] # "resetRetries"
    \/ Deciding # {}

Failures ==
    IF \E p \in Pids : watcher[p] = "spawnTimer" THEN retryCounts - 1 ELSE retryCounts

RetriesDue ==
    {p \in Pids : pc[p] \in {"sleeping", "woken", "checkRunning",
                            "markStarting", "spawn", "register"}}

Promised == INSTANCE Supervisor WITH
    Clients <- Handlers,
    Timers <- Pids,
    Budgets <- {k.maxRetries : k \in Configs},
    asking <- AskingForStart,
    up <- ServiceUp,
    failures <- Failures,
    due <- RetriesDue

\* The manager keeps the promises of Supervisor: nobody but a client or a
\* due retry brings the service up, only a client's start forgives failures,
\* and no failure beyond the budget of "maxRetries" makes a retry due.
ImplementsSupervisor == Promised!Spec
=============================================================================
