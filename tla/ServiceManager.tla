--------------------------- MODULE ServiceManager ---------------------------
(***************************************************************************)
(* The ServiceManager of src/src/service_manager.rs, as seen by ONE        *)
(* service name.  Every map of the manager is keyed by the name and no     *)
(* operation reads the entry of another name, so the slice of one name is  *)
(* the whole behaviour of that service: a variable below is that name's    *)
(* entry of the map it is called after.                                    *)
(*                                                                         *)
(* Each map has a mutex of its own and no operation holds two of them, so  *)
(* an atomic step is one critical section, together with the thread-local  *)
(* work around it.  Request handlers, retry timers and exit watchers run   *)
(* on the worker threads of one runtime and interleave between any two     *)
(* critical sections.                                                      *)
(***************************************************************************)
EXTENDS Naturals

CONSTANTS
    Handlers,   \* concurrently served requests of either HTTP server
    Pids,       \* the processes the service may be given (bounds spawns)
    None,       \* the absence of a map entry
    Requests,   \* the operations clients ask for
    Configs,    \* what the service's definition file may say
    ExitKinds,  \* the ways the service's processes end
    Faults      \* environment failures: "spawn", "config"

Operations == {"start", "stop", "force-stop", "restart"}

ASSUME PidsAssumption == None \notin Pids /\ Handlers \cap Pids = {}
ASSUME RequestsAssumption == Requests \subseteq Operations
ASSUME ConfigsAssumption ==
    Configs # {} /\ Configs \subseteq [retry : BOOLEAN, maxRetries : Nat]
\* Exit code 0; killed by SIGTERM or SIGKILL; anything else (a wait error,
\* which yields no exit information, counts as "failed" too).
ASSUME ExitKindsAssumption ==
    ExitKinds # {} /\ ExitKinds \subseteq {"clean", "signalled", "failed"}
ASSUME FaultsAssumption == Faults \subseteq {"spawn", "config"}

VARIABLES
    processes,      \* pid of the registered process, or None
    retryCounts,    \* abnormal exits since the last requested start
    startTimes,     \* whether a start time is recorded
    pendingOps,     \* the operation shown as in flight, or None
    stopping,       \* whether the name is in the stopping set
    retryTimers,    \* the timer whose handle is stored, or None
    child,          \* the operating system's view of each process
    config,         \* the config each process was started with
    watcher,        \* program counter of the exit watcher of each process
    pc,             \* program counter of each handler and each retry timer
    op,             \* the operation it executes
    target          \* its local `pid`

maps == <<processes, retryCounts, startTimes, pendingOps, stopping, retryTimers>>
osVars == <<child, config>>
callVars == <<pc, op, target>>
vars == <<maps, osVars, watcher, callVars>>

\* The watcher of a process schedules at most one retry timer, which is
\* therefore named after that process.
Callers == Handlers \cup Pids

Unborn == {p \in Pids : child[p] = "unborn"}

-----------------------------------------------------------------------------
\* One critical section: the entry of one map is written.

SetProcess(p) ==
    /\ processes' = p
    /\ UNCHANGED <<retryCounts, startTimes, pendingOps, stopping, retryTimers>>
SetRetries(n) ==
    /\ retryCounts' = n
    /\ UNCHANGED <<processes, startTimes, pendingOps, stopping, retryTimers>>
SetStart(known) ==
    /\ startTimes' = known
    /\ UNCHANGED <<processes, retryCounts, pendingOps, stopping, retryTimers>>
SetPending(operation) ==
    /\ pendingOps' = operation
    /\ UNCHANGED <<processes, retryCounts, startTimes, stopping, retryTimers>>
SetStopping(flag) ==
    /\ stopping' = flag
    /\ UNCHANGED <<processes, retryCounts, startTimes, pendingOps, retryTimers>>
SetTimer(timer) ==
    /\ retryTimers' = timer
    /\ UNCHANGED <<processes, retryCounts, startTimes, pendingOps, stopping>>

-----------------------------------------------------------------------------
\* Control flow of a call.

Goto(c, label) == pc' = [pc EXCEPT ![c] = label]

Step(c, from, to) ==
    /\ pc[c] = from
    /\ Goto(c, to)
    /\ UNCHANGED <<op, target, osVars, watcher>>

Leave(c) ==
    /\ Goto(c, IF c \in Handlers THEN "idle" ELSE "finished")
    /\ op' = [op EXCEPT ![c] = "none"]
    /\ target' = [target EXCEPT ![c] = None]

\* `start` is also the tail of `restart`, which then lowers the flag.
ReturnFromStart(c) ==
    IF op[c] = "restart"
    THEN Goto(c, "lowerFlag") /\ UNCHANGED <<op, target>>
    ELSE Leave(c)

FirstLabel(request) ==
    CASE request = "start"   -> "checkRunning"
      [] request = "restart" -> "markRestarting"
      [] OTHER               -> "raiseFlag"

Receive(h, request) ==
    /\ pc[h] = "idle"
    /\ Goto(h, FirstLabel(request))
    /\ op' = [op EXCEPT ![h] = request]
    /\ UNCHANGED <<maps, osVars, watcher, target>>

-----------------------------------------------------------------------------
\* start(name, config, is_retry)

\* The check and the later registration are separate critical sections.
RefuseStart(c) ==
    /\ pc[c] = "checkRunning"
    /\ processes # None
    /\ ReturnFromStart(c)
    /\ UNCHANGED <<maps, osVars, watcher>>

\* Mutant of AcceptStart: the check for a running process is dropped.
AcceptAlways(c) ==
    /\ Step(c, "checkRunning", "markStarting")
    /\ UNCHANGED maps

AcceptStart(c) ==
    /\ processes = None
    /\ Step(c, "checkRunning", "markStarting")
    /\ UNCHANGED maps

MarkStarting(c) ==
    /\ Step(c, "markStarting", "spawn")
    /\ SetPending("starting")

\* The processes are used in a fixed order; which pid is new is immaterial.
NextPid == CHOOSE p \in Pids : child[p] = "unborn"

\* Mutant of Spawn: the watcher is created before the process is registered.
SpawnWatched(c) ==
    /\ pc[c] = "spawn"
    /\ Unborn # {}
    /\ Goto(c, "register")
    /\ target' = [target EXCEPT ![c] = NextPid]
    /\ child' = [child EXCEPT ![NextPid] = "alive"]
    /\ watcher' = [watcher EXCEPT ![NextPid] = "waiting"]
    /\ UNCHANGED <<maps, config, op>>

Spawn(c) ==
    /\ pc[c] = "spawn"
    /\ Unborn # {}
    /\ Goto(c, "register")
    /\ target' = [target EXCEPT ![c] = NextPid]
    /\ child' = [child EXCEPT ![NextPid] = "alive"]
    /\ \E k \in Configs : config' = [config EXCEPT ![NextPid] = k]
    /\ UNCHANGED <<maps, watcher, op>>

\* Mutant of SpawnFails: the error path forgets pending_ops.
SpawnFailsPending(c) ==
    /\ pc[c] = "spawn"
    /\ "spawn" \in Faults \/ Unborn = {}
    /\ ReturnFromStart(c)
    /\ UNCHANGED <<maps, osVars, watcher>>

\* Spawning fails when the command's cwd or the shell is missing or the
\* system is out of processes; the caller is told and nothing is retried.
SpawnFails(c) ==
    /\ pc[c] = "spawn"
    /\ "spawn" \in Faults \/ Unborn = {}
    /\ SetPending(None)
    /\ ReturnFromStart(c)
    /\ UNCHANGED <<osVars, watcher>>

\* Mutant of Register: the test of is_retry skips the start time as well.
RegisterUnstamped(c) ==
    /\ Step(c, "register", IF op[c] = "retry" THEN "finishStart" ELSE "resetRetries")
    /\ SetProcess(target[c])

\* Mutant of Register: a retry resets the count as well.
RegisterResets(c) ==
    /\ Step(c, "register", "resetRetries")
    /\ SetProcess(target[c])

Register(c) ==
    /\ Step(c, "register", IF op[c] = "retry" THEN "stampStart" ELSE "resetRetries")
    /\ SetProcess(target[c])

ResetRetries(c) ==
    /\ Step(c, "resetRetries", "stampStart")
    /\ SetRetries(0)

StampStart(c) ==
    /\ Step(c, "stampStart", "finishStart")
    /\ SetStart(TRUE)

\* Mutant of FinishStart: a retry returns without a watcher.
FinishStartUnwatched(c) ==
    /\ pc[c] = "finishStart"
    /\ SetPending(None)
    /\ watcher' = IF op[c] = "retry" THEN watcher
                  ELSE [watcher EXCEPT ![target[c]] = "waiting"]
    /\ ReturnFromStart(c)
    /\ UNCHANGED osVars

\* The last critical section of start and the spawn of the watcher task: a
\* watcher that has not run yet cannot be told from one not yet spawned.
FinishStart(c) ==
    /\ pc[c] = "finishStart"
    /\ SetPending(None)
    /\ watcher' = [watcher EXCEPT ![target[c]] = "waiting"]
    /\ ReturnFromStart(c)
    /\ UNCHANGED osVars

-----------------------------------------------------------------------------
\* stop, force_stop and restart: one skeleton, in the order of the code.

MarkRestarting(c) ==
    /\ Step(c, "markRestarting", "raiseFlag")
    /\ SetPending("restarting")

RaiseFlag(c) ==
    /\ Step(c, "raiseFlag", "cancelTimer")
    /\ SetStopping(TRUE)

\* Mutant of CancelRetryTimer: only a restart cancels, a stop takes it that
\* there is nothing to cancel.
CancelForRestart(c) ==
    /\ pc[c] = "cancelTimer"
    /\ pc' = [b \in Callers |->
                IF b = c THEN "lookup"
                ELSE IF b = retryTimers /\ pc[b] = "sleeping" /\ op[c] = "restart"
                THEN "finished"
                ELSE pc[b]]
    /\ SetTimer(None)
    /\ UNCHANGED <<osVars, watcher, op, target>>

\* cancel_retry_timer aborts the timer whose handle is stored.  An abort acts
\* at an await point, and the only one of the timer task is its sleep.
CancelRetryTimer(c) ==
    /\ pc[c] = "cancelTimer"
    /\ pc' = [b \in Callers |->
                IF b = c THEN "lookup"
                ELSE IF b = retryTimers /\ pc[b] = "sleeping" THEN "finished"
                ELSE pc[b]]
    /\ SetTimer(None)
    /\ UNCHANGED <<osVars, watcher, op, target>>

\* Mutant of LookupNothing: a stop of nothing returns with the flag raised.
LookupLeavesFlag(c) ==
    /\ pc[c] = "lookup"
    /\ processes = None
    /\ IF op[c] = "restart"
       THEN Goto(c, "checkRunning") /\ UNCHANGED <<op, target>>
       ELSE Leave(c)
    /\ UNCHANGED <<maps, osVars, watcher>>

LookupNothing(c) ==
    /\ processes = None
    /\ Step(c, "lookup", IF op[c] = "restart" THEN "checkRunning" ELSE "lowerFlag")
    /\ UNCHANGED maps

LookupRunning(c) ==
    /\ pc[c] = "lookup"
    /\ processes # None
    /\ Goto(c, IF op[c] = "restart" THEN "kill" ELSE "markStopping")
    /\ target' = [target EXCEPT ![c] = processes]
    /\ UNCHANGED <<maps, osVars, watcher, op>>

\* Mutant of MarkStopping: the request's own name is shown.
MarkRequested(c) ==
    /\ Step(c, "markStopping", "kill")
    /\ SetPending(op[c])

MarkStopping(c) ==
    /\ Step(c, "markStopping", "kill")
    /\ SetPending(IF op[c] = "stop" THEN "stopping" ELSE "force-stopping")

\* Mutant of Kill: only the SIGTERM pass, which the process may survive.
Terminate(c) ==
    /\ Step(c, "kill", "forget")
    /\ UNCHANGED maps

\* The kill passes over the tree end with SIGKILL to the root.  The children
\* of the shell are signalled before the shell, which may thus end by any
\* kind of exit; an exit between the passes is an ordinary ChildExits.
Kill(c) ==
    /\ pc[c] = "kill"
    /\ Goto(c, "forget")
    /\ IF child[target[c]] = "alive"
       THEN \E e \in ExitKinds : child' = [child EXCEPT ![target[c]] = e]
       ELSE UNCHANGED child
    /\ UNCHANGED <<maps, config, watcher, op, target>>

\* By name: this removes whichever process is registered by now.
Forget(c) ==
    /\ Step(c, "forget", "clearStart")
    /\ SetProcess(None)

ClearStart(c) ==
    /\ Step(c, "clearStart", IF op[c] = "restart" THEN "checkRunning" ELSE "finishStop")
    /\ SetStart(FALSE)

FinishStop(c) ==
    /\ pc[c] = "finishStop"
    /\ SetPending(None)
    /\ Leave(c)
    /\ UNCHANGED <<osVars, watcher>>

LowerFlag(c) ==
    /\ pc[c] = "lowerFlag"
    /\ SetStopping(FALSE)
    /\ Leave(c)
    /\ UNCHANGED <<osVars, watcher>>

StartStep(c) ==
    \/ RefuseStart(c) \/ AcceptStart(c) \/ MarkStarting(c)
    \/ Spawn(c) \/ SpawnFails(c) \/ Register(c) \/ ResetRetries(c)
    \/ StampStart(c) \/ FinishStart(c)

StopStep(c) ==
    \/ MarkRestarting(c) \/ RaiseFlag(c) \/ CancelRetryTimer(c)
    \/ LookupNothing(c) \/ LookupRunning(c) \/ MarkStopping(c)
    \/ Kill(c) \/ Forget(c) \/ ClearStart(c) \/ FinishStop(c) \/ LowerFlag(c)

CallStep(c) == StartStep(c) \/ StopStep(c)

-----------------------------------------------------------------------------
\* The process itself, and the watcher task that awaits its exit.

ChildExits(p) ==
    /\ child[p] = "alive"
    /\ \E e \in ExitKinds : child' = [child EXCEPT ![p] = e]
    /\ UNCHANGED <<maps, config, watcher, callVars>>

Watch(p, from, to) ==
    /\ watcher[p] = from
    /\ watcher' = [watcher EXCEPT ![p] = to]
    /\ UNCHANGED <<osVars, callVars>>

\* The flag is taken for whichever exit comes first, with no clean-up.
SwallowExit(p) ==
    /\ child[p] \in ExitKinds
    /\ stopping
    /\ Watch(p, "waiting", "swallowed")
    /\ SetStopping(FALSE)

NoticeExit(p) ==
    /\ child[p] \in ExitKinds
    /\ ~stopping
    /\ Watch(p, "waiting", "checkPid")
    /\ UNCHANGED maps

IgnoreReplaced(p) ==
    /\ processes # p
    /\ Watch(p, "checkPid", "replaced")
    /\ UNCHANGED maps

ConfirmPid(p) ==
    /\ processes = p
    /\ Watch(p, "checkPid", "forget")
    /\ UNCHANGED maps

\* Mutant of WatcherForget: the process stays registered.
WatcherKeepsPid(p) ==
    /\ Watch(p, "forget", "clearStart")
    /\ UNCHANGED maps

WatcherForget(p) ==
    /\ Watch(p, "forget", "clearStart")
    /\ SetProcess(None)

\* Mutant of Abnormal: exits by SIGTERM and SIGKILL count as failures.
NotClean(p) == child[p] # "clean"

Abnormal(p) == child[p] = "failed"

WatcherClearStart(p) ==
    /\ Watch(p, "clearStart",
             IF Abnormal(p) /\ config[p].retry THEN "countExit" ELSE "handled")
    /\ SetStart(FALSE)

\* Mutant of WithinBudget: off by one.
BelowBudget(count, p) == count < config[p].maxRetries

WithinBudget(count, p) == count <= config[p].maxRetries

CountExit(p) ==
    /\ Watch(p, "countExit",
             IF WithinBudget(retryCounts + 1, p) THEN "spawnTimer" ELSE "handled")
    /\ SetRetries(retryCounts + 1)

SpawnTimer(p) ==
    /\ watcher[p] = "spawnTimer"
    /\ watcher' = [watcher EXCEPT ![p] = "storeTimer"]
    /\ Goto(p, "sleeping")
    /\ UNCHANGED <<maps, osVars, op, target>>

\* Overwrites the handle of any earlier timer, which keeps running.
StoreTimer(p) ==
    /\ Watch(p, "storeTimer", "handled")
    /\ SetTimer(p)

WatcherStep(p) ==
    \/ SwallowExit(p) \/ NoticeExit(p) \/ IgnoreReplaced(p) \/ ConfirmPid(p)
    \/ WatcherForget(p) \/ WatcherClearStart(p) \/ CountExit(p)
    \/ SpawnTimer(p) \/ StoreTimer(p)

-----------------------------------------------------------------------------
\* The retry timer scheduled for the exit of p.

\* Removes whichever handle is stored under the name.
TimerWakes(p) ==
    /\ Step(p, "sleeping", "woken")
    /\ SetTimer(None)

TimerStopped(p) ==
    /\ stopping
    /\ Step(p, "woken", "finished")
    /\ SetStopping(FALSE)

\* load_service_config finds the definition and start is called on it.
TimerRestarts(p) ==
    /\ pc[p] = "woken"
    /\ ~stopping
    /\ Goto(p, "checkRunning")
    /\ op' = [op EXCEPT ![p] = "retry"]
    /\ UNCHANGED <<maps, osVars, watcher, target>>

\* The definition file is missing or malformed: the retry is dropped.
TimerConfigLost(p) ==
    /\ "config" \in Faults
    /\ ~stopping
    /\ Step(p, "woken", "finished")
    /\ UNCHANGED maps

TimerStep(p) ==
    TimerWakes(p) \/ TimerStopped(p) \/ TimerRestarts(p) \/ TimerConfigLost(p)

-----------------------------------------------------------------------------
\* A placeholder: the config of a process is read only after its start.
NoConfig == CHOOSE k \in Configs : TRUE

Init ==
    /\ processes = None
    /\ retryCounts = 0
    /\ startTimes = FALSE
    /\ pendingOps = None
    /\ stopping = FALSE
    /\ retryTimers = None
    /\ child = [p \in Pids |-> "unborn"]
    /\ config = [p \in Pids |-> NoConfig]
    /\ watcher = [p \in Pids |-> "none"]
    /\ pc = [c \in Callers |-> IF c \in Handlers THEN "idle" ELSE "unscheduled"]
    /\ op = [c \in Callers |-> "none"]
    /\ target = [c \in Callers |-> None]

Next ==
    \/ \E h \in Handlers, request \in Requests : Receive(h, request)
    \/ \E c \in Callers : CallStep(c)
    \/ \E p \in Pids : ChildExits(p) \/ WatcherStep(p) \/ TimerStep(p)

Spec == Init /\ [][Next]_vars

(***************************************************************************)
(* Every task of the runtime is eventually polled and no lock is held      *)
(* across an await or taken twice, so calls, watchers and timers make      *)
(* progress.  Watchers and timers take finitely many steps per process, so *)
(* it is enough that some of them takes one.  Nothing obliges a client to  *)
(* ask, nor a process to exit.                                             *)
(***************************************************************************)
Fairness ==
    /\ \A h \in Handlers : WF_vars(CallStep(h))
    /\ WF_vars(\E p \in Pids : WatcherStep(p) \/ TimerStep(p) \/ CallStep(p))

FairSpec == Spec /\ Fairness
-----------------------------------------------------------------------------
(***************************************************************************)
(* Properties of every interleaving.                                       *)
(***************************************************************************)
StartLabels == {"checkRunning", "markStarting", "spawn", "register",
                "resetRetries", "stampStart", "finishStart"}
StopLabels == {"markRestarting", "raiseFlag", "cancelTimer", "lookup",
               "markStopping", "kill", "forget", "clearStart", "finishStop",
               "lowerFlag"}
CallLabels == StartLabels \cup StopLabels

\* The task is running, not waiting for a request or for its sleep to end.
Calling(c) == pc[c] \in CallLabels \cup {"woken"}

\* Between start's check and its registration of what it has spawned.
Placing(c) == pc[c] \in {"markStarting", "spawn", "register"}

\* Between the look of stop, force-stop or restart and its removal by name.
Removing(c) == pc[c] \in {"markStopping", "kill", "forget"}

WatcherBusy == {"checkPid", "forget", "clearStart", "countExit",
                "spawnTimer", "storeTimer"}
WatcherOver == {"swallowed", "replaced", "handled"}

\* Every variable stays in its domain.
TypeOK ==
    /\ processes \in Pids \cup {None}
    /\ retryCounts \in Nat
    /\ startTimes \in BOOLEAN
    /\ pendingOps \in {None, "starting", "stopping", "restarting", "force-stopping"}
    /\ stopping \in BOOLEAN
    /\ retryTimers \in Pids \cup {None}
    /\ child \in [Pids -> {"unborn", "alive"} \cup ExitKinds]
    /\ config \in [Pids -> Configs]
    /\ watcher \in [Pids -> {"none", "waiting"} \cup WatcherBusy \cup WatcherOver]
    /\ pc \in [Callers -> {"idle", "unscheduled", "sleeping", "woken", "finished"}
                           \cup CallLabels]
    /\ op \in [Callers -> Operations \cup {"none", "retry"}]
    /\ target \in [Callers -> Pids \cup {None}]

\* The call is certain to clear pendingOps itself before it returns.
ClearsPending(c) ==
    \/ pc[c] \in {"markStarting", "spawn", "register", "resetRetries", "stampStart",
                  "finishStart", "markStopping", "kill", "forget", "finishStop"}
    \/ pc[c] = "clearStart" /\ op[c] # "restart"
    \/ pc[c] \in {"raiseFlag", "cancelTimer", "lookup"} /\ op[c] = "restart"

\* The restart relies on its start, which only clears what it set if the
\* service is not registered again by then.
AboutToStart(c) == pc[c] \in {"clearStart", "checkRunning"} /\ op[c] = "restart"

\* An operation is shown as in flight only while a call that will clear it
\* is in flight, even though restart leaves that to start and start may
\* refuse: a leaked entry blocks edit and delete and hides every button of
\* the service in the Web UI.
PendingHasOwner ==
    pendingOps # None =>
        \E c \in Callers : \/ ClearsPending(c)
                           \/ processes = None /\ AboutToStart(c)

Starting(c) == pc[c] \in {"register", "resetRetries", "stampStart", "finishStart"}

\* Every process that was spawned has a watcher, or the start that spawned
\* it is about to create one: no exit goes unwaited for.
EveryChildWatched ==
    \A p \in Pids : child[p] # "unborn" /\ watcher[p] = "none" =>
        \E c \in Callers : Starting(c) /\ target[c] = p

\* Once a watcher has removed its process, or found it replaced, nothing
\* registers that process again: start registers before it spawns the
\* watcher, so a process that dies at once leaves no stale pid behind.
RegistrationFinal ==
    \A p \in Pids :
        watcher[p] \in {"clearStart", "countExit", "spawnTimer", "storeTimer",
                       "replaced", "handled"} => processes # p

\* From the moment a stop, force-stop or restart unregisters a process until
\* it returns, the process it looked up is dead, whoever replaced it since.
StoppedMeansDead ==
    \A c \in Callers :
        pc[c] \in {"forget", "clearStart", "finishStop"} =>
            target[c] \in Pids /\ child[target[c]] \in ExitKinds

\* A retry timer belongs to an abnormal exit whose watcher confirmed it and
\* whose config allows retries, and a timer whose handle is stored was
\* really created.
RetryIsEarned ==
    /\ \A p \in Pids : pc[p] # "unscheduled" =>
          /\ child[p] = "failed" /\ config[p].retry
          /\ watcher[p] \in {"storeTimer", "handled"}
    /\ retryTimers # None => pc[retryTimers] # "unscheduled"

\* Every exit is eventually seen by the watcher of its process: again and again
\* there is none left that is not.
ExitsAreSeen ==
    []<>(\A p \in Pids : child[p] \in ExitKinds => watcher[p] \in WatcherOver)

\* No operation is shown as in flight for good.
PendingClears == []<>(pendingOps = None)

StopAsked == \E c \in Callers : op[c] \in {"stop", "force-stop", "restart"}

\* When a watcher counts an abnormal exit with retries left and no flag left
\* behind by an earlier stop, the service is registered again, whatever other
\* exits, starts and watchers overlap with the retry, unless a client stops or
\* restarts it meanwhile, its definition is lost or spawning fails.
FailureIsRetried ==
    (\E p \in Pids :
        /\ watcher[p] = "countExit" /\ ~stopping
        /\ retryCounts < config[p].maxRetries
        /\ Unborn # {})
    ~> processes # None \/ StopAsked
=============================================================================
