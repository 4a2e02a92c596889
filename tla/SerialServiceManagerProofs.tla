--------------------- MODULE SerialServiceManagerProofs ---------------------
(***************************************************************************)
(* What is proved of SerialServiceManager and StopIntent: when tasks do    *)
(* not overlap, the service never runs twice, its status is true, no flag  *)
(* is left behind, the manager implements Supervisor, and a service that   *)
(* was stopped stays stopped.  A serial step is a step of ServiceManager,  *)
(* so that its invariant IInv holds here too.  Of the lack of overlap the  *)
(* first needs only that certain critical sections are kept apart.         *)
(***************************************************************************)
EXTENDS StopIntent, ServiceManagerProofs

\* Tasks do not overlap.
OneTask ==
    /\ \A c, d \in Callers : Calling(c) /\ Calling(d) => c = d
    /\ \A p, q \in Pids :
          watcher[p] \in WatcherBusy /\ watcher[q] \in WatcherBusy => p = q
    /\ \A c \in Callers, p \in Pids : Calling(c) => watcher[p] \notin WatcherBusy

\* The operations that stop the process they find.
StopOperations == {"stop", "force-stop", "restart"}

\* A call is where its operation leads, and only retry timers retry.
OpMatches ==
    \A c \in Callers :
        /\ pc[c] \notin CallLabels => op[c] = "none"
        /\ c \in Handlers => pc[c] \in {"idle"} \cup CallLabels
        /\ c \in Pids => pc[c] # "idle"
        /\ pc[c] \in StartLabels =>
              IF c \in Pids THEN op[c] = "retry" ELSE op[c] \in {"start", "restart"}
        /\ pc[c] \in StopLabels => c \in Handlers /\ op[c] \in StopOperations
        /\ pc[c] \in {"markStopping", "finishStop"} => op[c] # "restart"
        /\ pc[c] = "resetRetries" => op[c] # "retry"

\* What a call knows of the registered process, as nobody interferes.
CallKnows ==
    \A c \in Callers :
        /\ pc[c] \in {"markStarting", "spawn", "register"} => processes = None
        /\ pc[c] \in {"resetRetries", "stampStart", "finishStart"} =>
              processes = target[c]
        /\ pc[c] \in {"markStopping", "kill", "forget"} => processes = target[c]
        /\ pc[c] \in {"clearStart", "finishStop"} => processes = None
        /\ pc[c] = "lowerFlag" /\ op[c] # "restart" => processes = None
        /\ pc[c] \in {"markStopping", "kill", "forget", "clearStart", "finishStop"} =>
              target[c] \in Pids /\ watcher[target[c]] = "waiting"

\* The same for a watcher.
WatcherKnows ==
    \A p \in Pids :
        /\ watcher[p] = "forget" => processes = p
        /\ watcher[p] \in {"clearStart", "countExit", "spawnTimer", "storeTimer"} =>
              processes = None
        /\ watcher[p] = "spawnTimer" => retryCounts \in 1..config[p].maxRetries

\* The registered process is watched, and no other is alive.
RegisteredWatched ==
    /\ processes # None =>
          \/ watcher[processes] \in {"waiting", "checkPid", "forget"}
          \/ \E c \in Callers : pc[c] \in {"resetRetries", "stampStart", "finishStart"}
    /\ \A p \in Pids : child[p] = "alive" =>
          \/ processes = p
          \/ \E c \in Callers : pc[c] = "register" /\ target[c] = p

\* The flag is up for a stop that runs, or for the exit that the stop caused.
FlagExplained ==
    stopping =>
        \/ \E c \in Callers : Calling(c) /\ op[c] \in StopOperations
        \/ NoTaskRuns /\ UnseenExits # {} /\ processes = None

\* The start time is missing only until the start has come to it.
StartStamped ==
    processes # None =>
        startTimes \/ \E c \in Callers : pc[c] \in {"resetRetries", "stampStart"}

SerialInv == /\ OneTask /\ OpMatches /\ CallKnows /\ WatcherKnows
             /\ RegisteredWatched /\ FlagExplained /\ StartStamped

-----------------------------------------------------------------------------
LEMMA SerialStepIsStep == [SerialNext]_vars => [Next]_vars
BY DEF SerialNext, SerialReceive, SerialWatcherStep, SerialTimerStep, Next

\* Schedules without overlap are schedules of the manager: what is proved of
\* every interleaving holds in them too.
THEOREM SerialIsManager == SerialSpec => Spec
BY SerialStepIsStep, PTL DEF SerialSpec, Spec

LEMMA SerialInvInit == Init => SerialInv
BY PidsAssumption, ExitKindsAssumption
   DEF Init, SerialInv, OneTask, OpMatches, CallKnows, WatcherKnows,
       RegisteredWatched, FlagExplained, StartStamped, Calling, Callers,
       StartLabels, StopLabels, CallLabels, WatcherBusy

\* Each serial step keeps the knowledge of the task that runs true.
LEMMA SerialInvStep == IInv /\ SerialInv /\ [SerialNext]_vars => SerialInv'
<1> SUFFICES ASSUME TypeOK, WatchInv, RetryInv, VictimInv, SerialInv,
                    [SerialNext]_vars
             PROVE  SerialInv'
  BY DEF IInv
<1> USE DEF SerialInv, OneTask, OpMatches, CallKnows, WatcherKnows,
            RegisteredWatched, FlagExplained, StartStamped, Calling,
            UnseenExits, NoTaskRuns, Settled, StopOperations, Operations,
            StartLabels, StopLabels, CallLabels, WatcherBusy, WatcherOver,
            WatchInv, Born, StartOwnsChild, Starting, RetryInv, ExitDecided,
            VictimInv, StoppedMeansDead, TypeOK, Callers, maps, osVars,
            callVars, Goto, Step, Leave, ReturnFromStart, SetProcess,
            SetRetries, SetStart, SetPending, SetStopping, SetTimer
<1>1. ASSUME NEW h \in Handlers, NEW request \in Requests,
             SerialReceive(h, request)
      PROVE  SerialInv'
  BY <1>1, RequestsAssumption, PidsAssumption DEF SerialReceive, Receive, FirstLabel
<1>2. ASSUME NEW c \in Callers, StartStep(c)
      PROVE  SerialInv'
  <2>1. CASE RefuseStart(c)
    BY <2>1, PidsAssumption DEF RefuseStart
  <2>2. CASE AcceptStart(c)
    BY <2>2 DEF AcceptStart
  <2>3. CASE MarkStarting(c)
    BY <2>3 DEF MarkStarting
  <2>4. CASE Spawn(c)
    BY <2>4, NextPidIsNew, ExitKindsAssumption DEF Spawn
  <2>5. CASE SpawnFails(c)
    BY <2>5, PidsAssumption DEF SpawnFails
  <2>6. CASE Register(c)
    BY <2>6, PidsAssumption DEF Register
  <2>7. CASE ResetRetries(c)
    BY <2>7 DEF ResetRetries
  <2>8. CASE StampStart(c)
    BY <2>8 DEF StampStart
  <2>9. CASE FinishStart(c)
    BY <2>9, PidsAssumption DEF FinishStart
  <2> QED
    BY <1>2, <2>1, <2>2, <2>3, <2>4, <2>5, <2>6, <2>7, <2>8, <2>9 DEF StartStep
<1>3. ASSUME NEW c \in Callers, StopStep(c)
      PROVE  SerialInv'
  <2>1. CASE MarkRestarting(c)
    BY <2>1 DEF MarkRestarting
  <2>2. CASE RaiseFlag(c)
    BY <2>2 DEF RaiseFlag
  <2>3. CASE CancelRetryTimer(c)
    BY <2>3 DEF CancelRetryTimer
  <2>4. CASE LookupNothing(c)
    BY <2>4, PidsAssumption DEF LookupNothing
  <2>5. CASE LookupRunning(c)
    BY <2>5 DEF LookupRunning
  <2>6. CASE MarkStopping(c)
    BY <2>6 DEF MarkStopping
  <2>7. CASE Kill(c)
    BY <2>7, ExitKindsAssumption DEF Kill
  <2>8. CASE Forget(c)
    BY <2>8, PidsAssumption, ExitKindsAssumption DEF Forget
  <2>9. CASE ClearStart(c)
    BY <2>9, PidsAssumption DEF ClearStart
  <2>10. CASE FinishStop(c)
    BY <2>10, PidsAssumption DEF FinishStop
  <2>11. CASE LowerFlag(c)
    BY <2>11, PidsAssumption DEF LowerFlag
  <2> QED
    BY <1>3, <2>1, <2>2, <2>3, <2>4, <2>5, <2>6, <2>7, <2>8, <2>9, <2>10, <2>11
       DEF StopStep
<1>4. ASSUME NEW p \in Pids, ChildExits(p)
      PROVE  SerialInv'
  BY <1>4, ExitKindsAssumption DEF ChildExits
<1>5. ASSUME NEW p \in Pids, SerialWatcherStep(p)
      PROVE  SerialInv'
  <2>0. NoTaskRuns \/ watcher[p] \in WatcherBusy
    BY <1>5 DEF SerialWatcherStep
  <2>1. CASE SwallowExit(p)
    BY <2>1, <2>0, PidsAssumption, ExitKindsAssumption DEF SwallowExit, Watch
  <2>2. CASE NoticeExit(p)
    BY <2>2, <2>0 DEF NoticeExit, Watch
  <2>3. CASE IgnoreReplaced(p)
    BY <2>3, <2>0 DEF IgnoreReplaced, Watch
  <2>4. CASE ConfirmPid(p)
    BY <2>4, <2>0 DEF ConfirmPid, Watch
  <2>5. CASE WatcherForget(p)
    BY <2>5, <2>0, PidsAssumption, ExitKindsAssumption DEF WatcherForget, Watch
  <2>6. CASE WatcherClearStart(p)
    BY <2>6, <2>0 DEF WatcherClearStart, Watch, Abnormal
  <2>7. CASE CountExit(p)
    BY <2>7, <2>0 DEF CountExit, Watch, WithinBudget
  <2>8. CASE SpawnTimer(p)
    BY <2>8, <2>0 DEF SpawnTimer, Watch
  <2>9. CASE StoreTimer(p)
    BY <2>9, <2>0 DEF StoreTimer, Watch
  <2> QED
    BY <1>5, <2>1, <2>2, <2>3, <2>4, <2>5, <2>6, <2>7, <2>8, <2>9
       DEF SerialWatcherStep, WatcherStep
<1>6. ASSUME NEW p \in Pids, SerialTimerStep(p)
      PROVE  SerialInv'
  <2>0. Settled \/ Calling(p)
    BY <1>6 DEF SerialTimerStep
  <2>1. CASE TimerWakes(p)
    BY <2>1, <2>0, PidsAssumption DEF TimerWakes
  <2>2. CASE TimerStopped(p)
    BY <2>2, <2>0, PidsAssumption DEF TimerStopped
  <2>3. CASE TimerRestarts(p)
    BY <2>3, <2>0, PidsAssumption DEF TimerRestarts
  <2>4. CASE TimerConfigLost(p)
    BY <2>4, <2>0, PidsAssumption DEF TimerConfigLost
  <2> QED
    BY <1>6, <2>1, <2>2, <2>3, <2>4 DEF SerialTimerStep, TimerStep
<1>7. CASE UNCHANGED vars
  BY <1>7 DEF vars
<1> QED
  BY <1>1, <1>2, <1>3, <1>4, <1>5, <1>6, <1>7 DEF SerialNext, CallStep

\* Both invariants hold in every state of every serial schedule.
THEOREM SerialLifecycle == SerialSpec => [](IInv /\ SerialInv)
<1>1. IInv /\ [Next]_vars => IInv'
  BY TypeOKStep, WatchStep, RetryStep, VictimStep, PendingStep DEF IInv
<1>2. IInv /\ SerialInv /\ [SerialNext]_vars => (IInv /\ SerialInv)'
  BY <1>1, SerialStepIsStep, SerialInvStep
<1> QED
  BY <1>2, IInvInit, SerialInvInit, PTL DEF SerialSpec

\* Whatever clients ask for, and however often processes fail and are
\* retried, two processes of the service are never alive together.
THEOREM NeverTwoLive == SerialSpec => []AtMostOneLive
<1>1. IInv /\ SerialInv => AtMostOneLive
  BY PidsAssumption
     DEF IInv, TypeOK, SerialInv, OneTask, CallKnows, RegisteredWatched,
         AtMostOneLive, Calling, StartLabels, CallLabels
<1> QED
  BY <1>1, SerialLifecycle, PTL

\* Whenever no task is left to run, the registered process is alive and the
\* only one that is: the status the daemon reports is the truth.
THEOREM StatusIsTrue == SerialSpec => []RunningIsTrue
<1>1. IInv /\ SerialInv => RunningIsTrue
  <2> SUFFICES ASSUME IInv, SerialInv, Settled
               PROVE  {p \in Pids : child[p] = "alive"} = {processes} \ {None}
    BY DEF RunningIsTrue
  <2> USE DEF IInv, TypeOK, SerialInv, RegisteredWatched, Settled, NoTaskRuns,
              Calling, StartLabels, CallLabels, UnseenExits, WatcherBusy
  <2>1. \A p \in Pids : child[p] = "alive" => processes = p
    OBVIOUS
  <2>2. processes # None => processes \in Pids /\ watcher[processes] = "waiting"
    OBVIOUS
  <2>3. processes # None => child[processes] = "alive"
    BY <2>2 DEF WatchInv, Born
  <2> QED
    BY <2>1, <2>2, <2>3, PidsAssumption
<1> QED
  BY <1>1, SerialLifecycle, PTL

\* Whenever no task is left to run the stopping flag is down, even if a retry
\* is still awaited: no later exit is mistaken for a requested stop.
THEOREM FlagNotLeftBehind == SerialSpec => []FlagIsLowered
<1>1. SerialInv => FlagIsLowered
  BY DEF SerialInv, FlagExplained, FlagIsLowered, Settled, NoTaskRuns
<1> QED
  BY <1>1, SerialLifecycle, PTL

\* A service that is reported as running has a start time, after a retry too.
THEOREM DurationKnown == SerialSpec => []DurationIsKnown
<1>1. SerialInv => DurationIsKnown
  BY DEF SerialInv, StartStamped, DurationIsKnown, Settled, NoTaskRuns,
         Calling, StartLabels, CallLabels
<1> QED
  BY <1>1, SerialLifecycle, PTL

-----------------------------------------------------------------------------
(***************************************************************************)
(* What of the lack of overlap keeps a second process from coming to life, *)
(* among all interleavings of ServiceManager: that a start is never        *)
(* between its check for a running process and its registration while      *)
(* another start is, or while a stop or a watcher is between its look at   *)
(* the registered process and its removal.                                 *)
(***************************************************************************)

UpdatesApart ==
    \A c \in Callers : Placing(c) =>
        /\ \A d \in Callers \ {c} : ~Placing(d) /\ ~Removing(d)
        /\ \A p \in Pids : watcher[p] # "forget"

\* Every process that lives is one that a stop finds, or is about to be.
LiveInReach ==
    \A p \in Pids : child[p] = "alive" =>
        \/ processes = p
        \/ \E c \in Callers : pc[c] = "register" /\ target[c] = p

\* What was read of the registered process is still true, or it is gone.
UpdatesKnow ==
    /\ \A c \in Callers : Placing(c) => processes = None
    /\ \A c \in Callers : Removing(c) => processes \in {target[c], None}
    /\ \A p \in Pids : watcher[p] = "forget" => processes \in {p, None}
    /\ LiveInReach

\* Each step of any interleaving keeps that, if such updates are apart.
LEMMA UpdatesKnowStep ==
    ASSUME IInv, UpdatesApart, UpdatesKnow, [Next]_vars
    PROVE  UpdatesKnow'
<1> USE DEF IInv, UpdatesApart, UpdatesKnow, LiveInReach, Placing, Removing, VictimInv,
            StoppedMeansDead, VictimKnown, WatchInv, StartOwnsChild, Starting,
            RetryInv, RetryIsEarned, ExitDecided, TypeOK, Callers, maps, osVars, callVars,
            Goto, Step, Leave, ReturnFromStart, SetProcess, SetRetries, SetStart,
            SetPending, SetStopping, SetTimer
<1>1. ASSUME NEW h \in Handlers, NEW request \in Requests, Receive(h, request)
      PROVE  UpdatesKnow'
  BY <1>1, RequestsAssumption DEF Receive, FirstLabel
<1>2. ASSUME NEW c \in Callers, StartStep(c)
      PROVE  UpdatesKnow'
  <2>1. CASE RefuseStart(c)
    BY <2>1 DEF RefuseStart
  <2>2. CASE AcceptStart(c)
    BY <2>2 DEF AcceptStart
  <2>3. CASE MarkStarting(c)
    BY <2>3 DEF MarkStarting
  <2>4. CASE Spawn(c)
    BY <2>4, NextPidIsNew, ExitKindsAssumption DEF Spawn
  <2>5. CASE SpawnFails(c)
    BY <2>5 DEF SpawnFails
  <2>6. CASE Register(c)
    BY <2>6, PidsAssumption DEF Register
  <2>7. CASE ResetRetries(c)
    BY <2>7 DEF ResetRetries
  <2>8. CASE StampStart(c)
    BY <2>8 DEF StampStart
  <2>9. CASE FinishStart(c)
    BY <2>9 DEF FinishStart
  <2> QED
    BY <1>2, <2>1, <2>2, <2>3, <2>4, <2>5, <2>6, <2>7, <2>8, <2>9
       DEF StartStep
<1>3. ASSUME NEW c \in Callers, StopStep(c)
      PROVE  UpdatesKnow'
  <2>1. CASE MarkRestarting(c)
    BY <2>1 DEF MarkRestarting
  <2>2. CASE RaiseFlag(c)
    BY <2>2 DEF RaiseFlag
  <2>3. CASE CancelRetryTimer(c)
    <3>1. \A d \in Callers :
             pc'[d] # pc[d] => /\ pc[d] \in {"cancelTimer", "sleeping"}
                               /\ pc'[d] \in {"lookup", "finished"}
      BY <2>3 DEF CancelRetryTimer
    <3>2. \A d \in Callers : /\ (Placing(d)' <=> Placing(d))
                             /\ (Removing(d)' <=> Removing(d))
                             /\ (pc'[d] = "register" <=> pc[d] = "register")
      BY <3>1
    <3>3. UNCHANGED <<processes, child, watcher, target>>
      BY <2>3 DEF CancelRetryTimer
    <3> QED
      BY <3>2, <3>3
  <2>4. CASE LookupNothing(c)
    BY <2>4 DEF LookupNothing
  <2>5. CASE LookupRunning(c)
    BY <2>5 DEF LookupRunning
  <2>6. CASE MarkStopping(c)
    BY <2>6 DEF MarkStopping
  <2>7. CASE Kill(c)
    BY <2>7, ExitKindsAssumption DEF Kill
  <2>8. CASE Forget(c)
    BY <2>8, PidsAssumption, ExitKindsAssumption DEF Forget
  <2>9. CASE ClearStart(c)
    BY <2>9 DEF ClearStart
  <2>10. CASE FinishStop(c)
    BY <2>10 DEF FinishStop
  <2>11. CASE LowerFlag(c)
    BY <2>11 DEF LowerFlag
  <2> QED
    BY <1>3, <2>1, <2>2, <2>3, <2>4, <2>5, <2>6, <2>7, <2>8, <2>9, <2>10,
       <2>11
       DEF StopStep
<1>4. ASSUME NEW p \in Pids, ChildExits(p)
      PROVE  UpdatesKnow'
  BY <1>4, ExitKindsAssumption DEF ChildExits
<1>5. ASSUME NEW p \in Pids, WatcherStep(p)
      PROVE  UpdatesKnow'
  <2>1. CASE SwallowExit(p)
    BY <2>1 DEF SwallowExit, Watch
  <2>2. CASE NoticeExit(p)
    BY <2>2 DEF NoticeExit, Watch
  <2>3. CASE IgnoreReplaced(p)
    BY <2>3 DEF IgnoreReplaced, Watch
  <2>4. CASE ConfirmPid(p)
    BY <2>4 DEF ConfirmPid, Watch
  <2>5. CASE WatcherForget(p)
    BY <2>5, PidsAssumption, ExitKindsAssumption DEF WatcherForget, Watch
  <2>6. CASE WatcherClearStart(p)
    BY <2>6 DEF WatcherClearStart, Watch
  <2>7. CASE CountExit(p)
    BY <2>7 DEF CountExit, Watch
  <2>8. CASE SpawnTimer(p)
    BY <2>8 DEF SpawnTimer
  <2>9. CASE StoreTimer(p)
    BY <2>9 DEF StoreTimer, Watch
  <2> QED
    BY <1>5, <2>1, <2>2, <2>3, <2>4, <2>5, <2>6, <2>7, <2>8, <2>9
       DEF WatcherStep
<1>6. ASSUME NEW p \in Pids, TimerStep(p)
      PROVE  UpdatesKnow'
  <2>1. CASE TimerWakes(p)
    BY <2>1 DEF TimerWakes
  <2>2. CASE TimerStopped(p)
    BY <2>2 DEF TimerStopped
  <2>3. CASE TimerRestarts(p)
    BY <2>3 DEF TimerRestarts
  <2>4. CASE TimerConfigLost(p)
    BY <2>4 DEF TimerConfigLost
  <2> QED
    BY <1>6, <2>1, <2>2, <2>3, <2>4
       DEF TimerStep
<1>7. CASE UNCHANGED vars
  BY <1>7 DEF vars
<1> QED
  BY <1>1, <1>2, <1>3, <1>4, <1>5, <1>6, <1>7 DEF Next, CallStep

THEOREM UpdatesLifecycle == Spec /\ []UpdatesApart => []UpdatesKnow
<1>1. Init => UpdatesKnow
  BY ExitKindsAssumption DEF Init, UpdatesKnow, LiveInReach, Placing, Removing
<1>2. IInv /\ UpdatesApart /\ UpdatesKnow /\ [Next]_vars => UpdatesKnow'
  BY UpdatesKnowStep
<1> QED
  BY <1>1, <1>2, Lifecycle, PTL DEF Spec

\* However calls, watchers and timers interleave otherwise: two processes of
\* the service are never alive together unless a start has its check and its
\* registration apart from each other while another task is between a look at
\* the registered process and an update that rests on it.
THEOREM ApartNeverTwoLive == Spec /\ []UpdatesApart => []AtMostOneLive
<1>1. UpdatesApart /\ UpdatesKnow => AtMostOneLive
  BY PidsAssumption
     DEF UpdatesApart, UpdatesKnow, LiveInReach, Placing, AtMostOneLive
<1> QED
  BY <1>1, UpdatesLifecycle, PTL

\* In the same interleavings no live process is out of reach: it is the one
\* that a stop looks up and kills, as soon as its start has registered it.
THEOREM ApartInReach == Spec /\ []UpdatesApart => []LiveInReach
<1>1. UpdatesKnow => LiveInReach
  BY DEF UpdatesKnow
<1> QED
  BY <1>1, UpdatesLifecycle, PTL

\* Tasks that do not overlap keep these sections apart.
THEOREM SerialIsApart == SerialSpec => []UpdatesApart
<1>1. SerialInv => UpdatesApart
  BY DEF SerialInv, OneTask, UpdatesApart, Placing, Removing, Calling,
         StartLabels, StopLabels, CallLabels, WatcherBusy
<1> QED
  BY <1>1, SerialLifecycle, PTL

-----------------------------------------------------------------------------
(***************************************************************************)
(* The refinement of Supervisor.  A step is invisible to clients unless it *)
(* changes who is asking, whether the service is up, its failures or the   *)
(* retries that are due.                                                   *)
(***************************************************************************)

LEMMA SupervisorInit == Init => Promised!Init
BY PidsAssumption
   DEF Init, Promised!Init, AskingForStart, ServiceUp, Deciding, Failures,
       RetriesDue, Callers

\* Every serial step is a step of Supervisor, or invisible to it.
LEMMA SupervisorStep ==
    IInv /\ SerialInv /\ [SerialNext]_vars => [Promised!Next]_Promised!promise
<1> SUFFICES ASSUME TypeOK, WatchInv, SerialInv, [SerialNext]_vars
             PROVE  Promised!Next \/ UNCHANGED Promised!promise
  BY DEF IInv
<1> USE DEF Promised!promise, AskingForStart, ServiceUp, Deciding, Failures,
            RetriesDue, SerialInv, OneTask, OpMatches, CallKnows, WatcherKnows,
            Calling, NoTaskRuns, Settled, StopOperations, Operations,
            StartLabels, StopLabels, CallLabels, WatcherBusy,
            WatchInv, StartOwnsChild, Starting, TypeOK, Callers, maps, osVars,
            callVars, Goto, Step, Leave, ReturnFromStart, SetProcess,
            SetRetries, SetStart, SetPending, SetStopping, SetTimer
<1>1. ASSUME NEW h \in Handlers, NEW request \in Requests,
             SerialReceive(h, request)
      PROVE  Promised!Next \/ UNCHANGED Promised!promise
  <2>1. CASE request \in {"start", "restart"}
    <3>1. Promised!Ask(h)
      BY <1>1, <2>1, PidsAssumption
         DEF SerialReceive, Receive, FirstLabel, Promised!Ask
    <3> QED
      BY <3>1 DEF Promised!Next
  <2>2. CASE request \in {"stop", "force-stop"}
    BY <1>1, <2>2, PidsAssumption DEF SerialReceive, Receive, FirstLabel
  <2> QED
    BY <2>1, <2>2, RequestsAssumption
<1>2. ASSUME NEW c \in Callers, StartStep(c)
      PROVE  Promised!Next \/ UNCHANGED Promised!promise
  <2>1. CASE RefuseStart(c)
    <3>1. CASE op[c] = "retry"
      <4>1. c \in Pids /\ Promised!Drop(c)
        BY <2>1, <3>1, PidsAssumption DEF RefuseStart, Promised!Drop
      <4> QED
        BY <4>1 DEF Promised!Next
    <3>2. CASE op[c] = "start"
      <4>1. c \in Handlers /\ Promised!Answer(c)
        BY <2>1, <3>2, PidsAssumption DEF RefuseStart, Promised!Answer
      <4> QED
        BY <4>1 DEF Promised!Next
    <3>3. CASE op[c] = "restart"
      BY <2>1, <3>3, PidsAssumption DEF RefuseStart
    <3> QED
      BY <3>1, <3>2, <3>3, <2>1 DEF RefuseStart
  <2>2. CASE AcceptStart(c)
    BY <2>2, PidsAssumption DEF AcceptStart
  <2>3. CASE MarkStarting(c)
    BY <2>3, PidsAssumption DEF MarkStarting
  <2>4. CASE Spawn(c)
    BY <2>4, PidsAssumption DEF Spawn
  <2>5. CASE SpawnFails(c)
    <3>1. CASE op[c] = "retry"
      <4>1. c \in Pids /\ Promised!Drop(c)
        BY <2>5, <3>1, PidsAssumption DEF SpawnFails, Promised!Drop
      <4> QED
        BY <4>1 DEF Promised!Next
    <3>2. CASE op[c] = "start"
      <4>1. c \in Handlers /\ Promised!Answer(c)
        BY <2>5, <3>2, PidsAssumption DEF SpawnFails, Promised!Answer
      <4> QED
        BY <4>1 DEF Promised!Next
    <3>3. CASE op[c] = "restart"
      BY <2>5, <3>3, PidsAssumption DEF SpawnFails
    <3> QED
      BY <3>1, <3>2, <3>3, <2>5 DEF SpawnFails
  <2>6. CASE Register(c)
    <3>1. CASE op[c] = "retry"
      <4>1. c \in Pids /\ Promised!Retry(c)
        BY <2>6, <3>1, PidsAssumption DEF Register, Promised!Retry
      <4> QED
        BY <4>1 DEF Promised!Next
    <3>2. CASE op[c] # "retry"
      BY <2>6, <3>2, PidsAssumption DEF Register
    <3> QED
      BY <3>1, <3>2
  <2>7. CASE ResetRetries(c)
    <3>1. c \in Handlers /\ Promised!Start(c)
      BY <2>7, PidsAssumption DEF ResetRetries, Promised!Start
    <3> QED
      BY <3>1 DEF Promised!Next
  <2>8. CASE StampStart(c)
    BY <2>8, PidsAssumption DEF StampStart
  <2>9. CASE FinishStart(c)
    <3>1. CASE op[c] = "retry"
      BY <2>9, <3>1, PidsAssumption DEF FinishStart
    <3>2. CASE op[c] = "start"
      <4>1. c \in Handlers /\ Promised!Answer(c)
        BY <2>9, <3>2, PidsAssumption DEF FinishStart, Promised!Answer
      <4> QED
        BY <4>1 DEF Promised!Next
    <3>3. CASE op[c] = "restart"
      BY <2>9, <3>3, PidsAssumption DEF FinishStart
    <3> QED
      BY <3>1, <3>2, <3>3, <2>9 DEF FinishStart
  <2> QED
    BY <1>2, <2>1, <2>2, <2>3, <2>4, <2>5, <2>6, <2>7, <2>8, <2>9 DEF StartStep
<1>3. ASSUME NEW c \in Callers, StopStep(c)
      PROVE  Promised!Next \/ UNCHANGED Promised!promise
  <2>1. CASE MarkRestarting(c)
    BY <2>1, PidsAssumption DEF MarkRestarting
  <2>2. CASE RaiseFlag(c)
    BY <2>2, PidsAssumption DEF RaiseFlag
  <2>3. CASE CancelRetryTimer(c)
    <3>1. ASSUME NEW t \in Pids, t = retryTimers, pc[t] = "sleeping"
          PROVE  Promised!Next
      <4>1. Promised!Drop(t)
        BY <2>3, <3>1, PidsAssumption DEF CancelRetryTimer, Promised!Drop
      <4> QED
        BY <4>1 DEF Promised!Next
    <3>2. CASE \A t \in Pids : t = retryTimers => pc[t] # "sleeping"
      BY <2>3, <3>2, PidsAssumption DEF CancelRetryTimer
    <3> QED
      BY <3>1, <3>2
  <2>4. CASE LookupNothing(c)
    BY <2>4, PidsAssumption DEF LookupNothing
  <2>5. CASE LookupRunning(c)
    BY <2>5, PidsAssumption DEF LookupRunning
  <2>6. CASE MarkStopping(c)
    BY <2>6, PidsAssumption DEF MarkStopping
  <2>7. CASE Kill(c)
    BY <2>7, PidsAssumption DEF Kill
  <2>8. CASE Forget(c)
    <3>1. Promised!GoDown
      BY <2>8, PidsAssumption DEF Forget, Promised!GoDown
    <3> QED
      BY <3>1 DEF Promised!Next
  <2>9. CASE ClearStart(c)
    BY <2>9, PidsAssumption DEF ClearStart
  <2>10. CASE FinishStop(c)
    BY <2>10, PidsAssumption DEF FinishStop
  <2>11. CASE LowerFlag(c)
    <3>1. CASE op[c] = "restart"
      <4>1. c \in Handlers /\ Promised!Answer(c)
        BY <2>11, <3>1, PidsAssumption DEF LowerFlag, Promised!Answer
      <4> QED
        BY <4>1 DEF Promised!Next
    <3>2. CASE op[c] # "restart"
      BY <2>11, <3>2, PidsAssumption DEF LowerFlag
    <3> QED
      BY <3>1, <3>2
  <2> QED
    BY <1>3, <2>1, <2>2, <2>3, <2>4, <2>5, <2>6, <2>7, <2>8, <2>9, <2>10, <2>11
       DEF StopStep
<1>4. ASSUME NEW p \in Pids, ChildExits(p)
      PROVE  Promised!Next \/ UNCHANGED Promised!promise
  BY <1>4 DEF ChildExits
<1>5. ASSUME NEW p \in Pids, SerialWatcherStep(p)
      PROVE  Promised!Next \/ UNCHANGED Promised!promise
  <2>0. NoTaskRuns \/ watcher[p] \in WatcherBusy
    BY <1>5 DEF SerialWatcherStep
  <2>1. CASE SwallowExit(p)
    BY <2>1, <2>0, PidsAssumption DEF SwallowExit, Watch
  <2>2. CASE NoticeExit(p)
    BY <2>2, <2>0, PidsAssumption DEF NoticeExit, Watch
  <2>3. CASE IgnoreReplaced(p)
    BY <2>3, <2>0, PidsAssumption DEF IgnoreReplaced, Watch
  <2>4. CASE ConfirmPid(p)
    BY <2>4, <2>0, PidsAssumption DEF ConfirmPid, Watch
  <2>5. CASE WatcherForget(p)
    BY <2>5, <2>0, PidsAssumption DEF WatcherForget, Watch
  <2>6. CASE WatcherClearStart(p)
    <3>1. CASE watcher'[p] = "countExit"
      BY <2>6, <3>1, PidsAssumption DEF WatcherClearStart, Watch
    <3>2. CASE watcher'[p] = "handled"
      <4>1. Promised!GoDown
        BY <2>6, <3>2, PidsAssumption DEF WatcherClearStart, Watch, Promised!GoDown
      <4> QED
        BY <4>1 DEF Promised!Next
    <3> QED
      BY <3>1, <3>2, <2>6 DEF WatcherClearStart, Watch
  <2>7. CASE CountExit(p)
    <3>1. CASE watcher'[p] = "spawnTimer"
      BY <2>7, <3>1, PidsAssumption DEF CountExit, Watch
    <3>2. CASE watcher'[p] = "handled"
      <4>1. Promised!GiveUp
        BY <2>7, <3>2, PidsAssumption DEF CountExit, Watch, Promised!GiveUp
      <4> QED
        BY <4>1 DEF Promised!Next
    <3> QED
      BY <3>1, <3>2, <2>7 DEF CountExit, Watch
  <2>8. CASE SpawnTimer(p)
    <3>1. p \in Pids /\ Promised!FailAgain(p)
      BY <2>8, PidsAssumption DEF SpawnTimer, Promised!FailAgain
    <3> QED
      BY <3>1 DEF Promised!Next
  <2>9. CASE StoreTimer(p)
    BY <2>9, <2>0, PidsAssumption DEF StoreTimer, Watch
  <2> QED
    BY <1>5, <2>1, <2>2, <2>3, <2>4, <2>5, <2>6, <2>7, <2>8, <2>9
       DEF SerialWatcherStep, WatcherStep
<1>6. ASSUME NEW p \in Pids, SerialTimerStep(p)
      PROVE  Promised!Next \/ UNCHANGED Promised!promise
  <2>0. Settled \/ Calling(p)
    BY <1>6 DEF SerialTimerStep
  <2>1. CASE TimerWakes(p)
    BY <2>1, <2>0, PidsAssumption DEF TimerWakes
  <2>2. CASE TimerStopped(p)
    <3>1. p \in Pids /\ Promised!Drop(p)
      BY <2>2, <2>0, PidsAssumption DEF TimerStopped, Promised!Drop
    <3> QED
      BY <3>1 DEF Promised!Next
  <2>3. CASE TimerRestarts(p)
    BY <2>3, <2>0, PidsAssumption DEF TimerRestarts
  <2>4. CASE TimerConfigLost(p)
    <3>1. p \in Pids /\ Promised!Drop(p)
      BY <2>4, <2>0, PidsAssumption DEF TimerConfigLost, Promised!Drop
    <3> QED
      BY <3>1 DEF Promised!Next
  <2> QED
    BY <1>6, <2>1, <2>2, <2>3, <2>4 DEF SerialTimerStep, TimerStep
<1>7. CASE UNCHANGED vars
  BY <1>7 DEF vars
<1> QED
  BY <1>1, <1>2, <1>3, <1>4, <1>5, <1>6, <1>7 DEF SerialNext, CallStep

\* Every serial schedule of the manager keeps the promises of Supervisor: only
\* a client or a due retry brings the service up, only a client's start
\* forgives failures, and none beyond the budget makes a retry due.
THEOREM KeepsPromises == SerialSpec => ImplementsSupervisor
BY SupervisorInit, SupervisorStep, SerialLifecycle, PTL
   DEF SerialSpec, ImplementsSupervisor, Promised!Spec

-----------------------------------------------------------------------------
(***************************************************************************)
(* A stopped service stays stopped.  The invariant describes the schedules *)
(* in which no client has been impatient: at most one retry is awaited,    *)
(* its handle is where the next stop looks for it, and everything that     *)
(* could bring the service up is wanted.                                   *)
(***************************************************************************)
\* A call that a client wants to end with the service up.
ActsForStart(c) == pc[c] \in CallLabels /\ op[c] \in {"start", "restart"}

\* A call that a client wants to end with the service down.
Stops(c) ==
    /\ op[c] \in {"stop", "force-stop"}
    /\ pc[c] \in {"raiseFlag", "cancelTimer", "lookup", "markStopping", "kill", "forget"}

\* While a retry is awaited the service is down and wanted, the timer is the
\* only one, its handle is stored (or about to be), and any call is a stop
\* or restart that has not cancelled it yet.
AwaitedAlone ==
    \A t \in Pids : pc[t] = "sleeping" =>
        /\ processes = None /\ wanted
        /\ retryTimers = t \/ watcher[t] = "storeTimer"
        /\ \A u \in Pids : pc[u] = "sleeping" => u = t
        /\ \A c \in Callers : Calling(c) =>
              pc[c] \in {"markRestarting", "raiseFlag", "cancelTimer"}
        /\ Deciding = {}

\* Whoever may bring the service up, or schedule a retry, does so for a
\* service that is wanted.
WantedUp ==
    /\ \A t \in Pids : Calling(t) => wanted
    /\ Deciding # {} => wanted
    /\ processes # None => wanted \/ \E c \in Callers : Stops(c)

\* The timer whose handle is about to be stored has not woken up.
TimerStored == \A p \in Pids : watcher[p] = "storeTimer" => pc[p] = "sleeping"

\* As long as no client has been impatient.
IntentInv ==
    /\ wanted \in BOOLEAN /\ impatient \in BOOLEAN
    /\ \A c \in Callers : ActsForStart(c) => wanted
    /\ TimerStored
    /\ impatient \/ (AwaitedAlone /\ WantedUp)

LEMMA IntentIsSerial == IntentSpec => SerialSpec
<1>1. [IntentNext]_intentVars => [SerialNext]_vars
  BY DEF IntentNext, intentVars, Ask, Proceed, SerialBackground, SerialReceive,
     SerialNext
<1> QED
  BY <1>1, PTL DEF IntentSpec, IntentInit, SerialSpec

LEMMA IntentInvInit == IntentInit => IntentInv
BY PidsAssumption
   DEF IntentInit, Init, IntentInv, ActsForStart, AwaitedAlone, WantedUp, Stops,
       TimerStored, Deciding, Calling, Callers, StartLabels, StopLabels, CallLabels

\* Each step keeps a pending retry within reach of the next stop.
LEMMA IntentInvStep ==
    IInv /\ SerialInv /\ IntentInv /\ [IntentNext]_intentVars => IntentInv'
<1> SUFFICES ASSUME TypeOK, WatchInv, SerialInv, IntentInv,
                    [IntentNext]_intentVars
             PROVE  IntentInv'
  BY DEF IInv
<1> USE DEF IntentInv, StopEnds, ActsForStart, AwaitedAlone, WantedUp, Stops, TimerStored,
            Deciding, SerialInv, OneTask, OpMatches, CallKnows, WatcherKnows,
            Calling, NoTaskRuns, Settled, StopOperations, Operations,
            StartLabels, StopLabels, CallLabels, WatcherBusy,
            WatchInv, StartOwnsChild, Starting, TypeOK, Callers, maps, osVars,
            callVars, Goto, Step, Leave, ReturnFromStart, SetProcess,
            SetRetries, SetStart, SetPending, SetStopping, SetTimer
<1>1. ASSUME NEW h \in Handlers, NEW request \in Requests,
             Settled, Ask(h, request)
      PROVE  IntentInv'
  <2> USE DEF Ask, RetryAwaited, Receive, FirstLabel
  <2>0. wanted' \in BOOLEAN /\ impatient' \in BOOLEAN /\ TimerStored'
    BY <1>1, PidsAssumption
  <2>1. ASSUME NEW d \in Callers, ActsForStart(d)'
        PROVE  wanted'
    <3>1. d = h
      BY <1>1, <2>1
    <3> QED
      BY <1>1, <2>1, <3>1
  <2>2. impatient' \/ AwaitedAlone'
    BY <1>1, RequestsAssumption, PidsAssumption
  <2>3. impatient' \/ WantedUp'
    BY <1>1, RequestsAssumption, PidsAssumption
  <2> QED
    BY <2>0, <2>1, <2>2, <2>3
<1>2. ASSUME NEW c \in Callers, StartStep(c),
             wanted' = (wanted /\ ~StopEnds(c)), impatient' = impatient
      PROVE  IntentInv'
  <2>1. CASE RefuseStart(c)
    BY <2>1, <1>2, PidsAssumption DEF RefuseStart
  <2>2. CASE AcceptStart(c)
    BY <2>2, <1>2, PidsAssumption DEF AcceptStart
  <2>3. CASE MarkStarting(c)
    BY <2>3, <1>2, PidsAssumption DEF MarkStarting
  <2>4. CASE Spawn(c)
    BY <2>4, <1>2, PidsAssumption DEF Spawn
  <2>5. CASE SpawnFails(c)
    BY <2>5, <1>2, PidsAssumption DEF SpawnFails
  <2>6. CASE Register(c)
    BY <2>6, <1>2, PidsAssumption DEF Register
  <2>7. CASE ResetRetries(c)
    BY <2>7, <1>2, PidsAssumption DEF ResetRetries
  <2>8. CASE StampStart(c)
    BY <2>8, <1>2, PidsAssumption DEF StampStart
  <2>9. CASE FinishStart(c)
    BY <2>9, <1>2, PidsAssumption DEF FinishStart
  <2> QED
    BY <1>2, <2>1, <2>2, <2>3, <2>4, <2>5, <2>6, <2>7, <2>8, <2>9 DEF StartStep
<1>3. ASSUME NEW c \in Callers, StopStep(c),
             wanted' = (wanted /\ ~StopEnds(c)), impatient' = impatient
      PROVE  IntentInv'
  <2>1. CASE MarkRestarting(c)
    BY <2>1, <1>3, PidsAssumption DEF MarkRestarting
  <2>2. CASE RaiseFlag(c)
    BY <2>2, <1>3, PidsAssumption DEF RaiseFlag
  <2>3. CASE CancelRetryTimer(c)
    BY <2>3, <1>3, PidsAssumption DEF CancelRetryTimer
  <2>4. CASE LookupNothing(c)
    BY <2>4, <1>3, PidsAssumption DEF LookupNothing
  <2>5. CASE LookupRunning(c)
    BY <2>5, <1>3, PidsAssumption DEF LookupRunning
  <2>6. CASE MarkStopping(c)
    BY <2>6, <1>3, PidsAssumption DEF MarkStopping
  <2>7. CASE Kill(c)
    BY <2>7, <1>3, PidsAssumption DEF Kill
  <2>8. CASE Forget(c)
    BY <2>8, <1>3, PidsAssumption DEF Forget
  <2>9. CASE ClearStart(c)
    BY <2>9, <1>3, PidsAssumption DEF ClearStart
  <2>10. CASE FinishStop(c)
    BY <2>10, <1>3, PidsAssumption DEF FinishStop
  <2>11. CASE LowerFlag(c)
    BY <2>11, <1>3, PidsAssumption DEF LowerFlag
  <2> QED
    BY <1>3, <2>1, <2>2, <2>3, <2>4, <2>5, <2>6, <2>7, <2>8, <2>9, <2>10, <2>11
       DEF StopStep
<1>4. ASSUME NEW p \in Pids, ChildExits(p),
             UNCHANGED <<wanted, impatient>>
      PROVE  IntentInv'
  BY <1>4, PidsAssumption DEF ChildExits
<1>5. ASSUME NEW p \in Pids, SerialWatcherStep(p),
             UNCHANGED <<wanted, impatient>>
      PROVE  IntentInv'
  <2>0. NoTaskRuns \/ watcher[p] \in WatcherBusy
    BY <1>5 DEF SerialWatcherStep
  <2>1. CASE SwallowExit(p)
    BY <2>1, <1>5, <2>0, PidsAssumption DEF SwallowExit, Watch
  <2>2. CASE NoticeExit(p)
    BY <2>2, <1>5, <2>0, PidsAssumption DEF NoticeExit, Watch
  <2>3. CASE IgnoreReplaced(p)
    BY <2>3, <1>5, <2>0, PidsAssumption DEF IgnoreReplaced, Watch
  <2>4. CASE ConfirmPid(p)
    BY <2>4, <1>5, <2>0, PidsAssumption DEF ConfirmPid, Watch
  <2>5. CASE WatcherForget(p)
    BY <2>5, <1>5, <2>0, PidsAssumption DEF WatcherForget, Watch
  <2>6. CASE WatcherClearStart(p)
    BY <2>6, <1>5, <2>0, PidsAssumption DEF WatcherClearStart, Watch, Abnormal
  <2>7. CASE CountExit(p)
    BY <2>7, <1>5, <2>0, PidsAssumption DEF CountExit, Watch, WithinBudget
  <2>8. CASE SpawnTimer(p)
    BY <2>8, <1>5, <2>0, PidsAssumption DEF SpawnTimer, Watch
  <2>9. CASE StoreTimer(p)
    BY <2>9, <1>5, <2>0, PidsAssumption DEF StoreTimer, Watch
  <2> QED
    BY <1>5, <2>1, <2>2, <2>3, <2>4, <2>5, <2>6, <2>7, <2>8, <2>9
       DEF SerialWatcherStep, WatcherStep
<1>6. ASSUME NEW p \in Pids, SerialTimerStep(p),
             UNCHANGED <<wanted, impatient>>
      PROVE  IntentInv'
  <2>0. Settled \/ Calling(p)
    BY <1>6 DEF SerialTimerStep
  <2>1. CASE TimerWakes(p)
    BY <2>1, <1>6, <2>0, PidsAssumption DEF TimerWakes
  <2>2. CASE TimerStopped(p)
    BY <2>2, <1>6, <2>0, PidsAssumption DEF TimerStopped
  <2>3. CASE TimerRestarts(p)
    BY <2>3, <1>6, <2>0, PidsAssumption DEF TimerRestarts
  <2>4. CASE TimerConfigLost(p)
    BY <2>4, <1>6, <2>0, PidsAssumption DEF TimerConfigLost
  <2> QED
    BY <1>6, <2>1, <2>2, <2>3, <2>4 DEF SerialTimerStep, TimerStep
<1>7. CASE UNCHANGED intentVars
  BY <1>7 DEF intentVars, vars
<1> QED
  BY <1>1, <1>2, <1>3, <1>4, <1>5, <1>6, <1>7
     DEF IntentNext, Proceed, SerialBackground, CallStep

\* A stopped service stays stopped: no retry starts it again before a client
\* does, unless a client started it while it awaited an earlier retry.
THEOREM StopsAreFinal == IntentSpec => []StopIsFinal
<1>1. IInv /\ SerialInv /\ IntentInv => StopIsFinal
  BY PidsAssumption
     DEF StopIsFinal, NoRestartAfterStop, IntentInv, WantedUp, Starting, Calling,
         StartLabels, CallLabels
<1>2. (IInv /\ SerialInv) /\ IntentInv /\ [IntentNext]_intentVars => IntentInv'
  BY IntentInvStep
<1> QED
  BY <1>1, <1>2, IntentInvInit, IntentIsSerial, SerialLifecycle, PTL DEF IntentSpec
=============================================================================
