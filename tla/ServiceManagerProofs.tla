------------------------ MODULE ServiceManagerProofs ------------------------
(***************************************************************************)
(* The safety invariants of ServiceManager, proved for any set of          *)
(* handlers, any number of processes and any configuration.                *)
(***************************************************************************)
EXTENDS ServiceManager, TLAPS

\* The pid a start is given belongs to no earlier process.
LEMMA NextPidIsNew ==
    ASSUME Unborn # {}
    PROVE  NextPid \in Pids /\ child[NextPid] = "unborn"
BY DEF NextPid, Unborn

-----------------------------------------------------------------------------
\* Type correctness.

LEMMA TypeOKInit == Init => TypeOK
<1>1. \E k : k \in Configs /\ TRUE
  BY ConfigsAssumption
<1>2. NoConfig \in Configs
  BY <1>1, Zenon DEF NoConfig
<1> SUFFICES ASSUME Init
             PROVE  TypeOK
  OBVIOUS
<1>3. /\ processes \in Pids \cup {None}
      /\ retryCounts \in Nat
      /\ startTimes \in BOOLEAN /\ stopping \in BOOLEAN
      /\ pendingOps = None
      /\ retryTimers \in Pids \cup {None}
      /\ child \in [Pids -> {"unborn", "alive"} \cup ExitKinds]
  BY DEF Init
<1>4. config \in [Pids -> Configs]
  BY <1>2 DEF Init
<1>5. watcher \in [Pids -> {"none", "waiting"} \cup WatcherBusy \cup WatcherOver]
  BY DEF Init
<1>6. pc \in [Callers -> {"idle", "unscheduled", "sleeping", "woken", "finished"}
                          \cup CallLabels]
  BY DEF Init
<1>7. /\ op \in [Callers -> Operations \cup {"none", "retry"}]
      /\ target \in [Callers -> Pids \cup {None}]
  BY DEF Init
<1> QED
  BY <1>3, <1>4, <1>5, <1>6, <1>7 DEF TypeOK

\* Each action keeps every variable in its domain.
LEMMA TypeOKStep == TypeOK /\ [Next]_vars => TypeOK'
<1> SUFFICES ASSUME TypeOK, [Next]_vars
             PROVE  TypeOK'
  OBVIOUS
<1> USE DEF TypeOK, Callers, Operations, StartLabels, StopLabels, CallLabels,
            WatcherBusy, WatcherOver, maps, osVars, callVars, Goto, Step, Leave,
            ReturnFromStart, SetProcess, SetRetries, SetStart, SetPending,
            SetStopping, SetTimer
<1>1. ASSUME NEW h \in Handlers, NEW request \in Requests, Receive(h, request)
      PROVE  TypeOK'
  BY <1>1, RequestsAssumption DEF Receive, FirstLabel
<1>2. ASSUME NEW c \in Callers, StartStep(c)
      PROVE  TypeOK'
  <2>1. CASE RefuseStart(c)
    BY <2>1 DEF RefuseStart
  <2>2. CASE AcceptStart(c)
    BY <2>2 DEF AcceptStart
  <2>3. CASE MarkStarting(c)
    BY <2>3 DEF MarkStarting
  <2>4. CASE Spawn(c)
    BY <2>4, NextPidIsNew DEF Spawn
  <2>5. CASE SpawnFails(c)
    BY <2>5 DEF SpawnFails
  <2>6. CASE Register(c)
    BY <2>6 DEF Register
  <2>7. CASE ResetRetries(c)
    BY <2>7 DEF ResetRetries
  <2>8. CASE StampStart(c)
    BY <2>8 DEF StampStart
  <2>9. CASE FinishStart(c)
    BY <2>9 DEF FinishStart
  <2> QED
    BY <1>2, <2>1, <2>2, <2>3, <2>4, <2>5, <2>6, <2>7, <2>8, <2>9 DEF StartStep
<1>3. ASSUME NEW c \in Callers, StopStep(c)
      PROVE  TypeOK'
  <2>1. CASE MarkRestarting(c)
    BY <2>1 DEF MarkRestarting
  <2>2. CASE RaiseFlag(c)
    BY <2>2 DEF RaiseFlag
  <2>3. CASE CancelRetryTimer(c)
    BY <2>3 DEF CancelRetryTimer
  <2>4. CASE LookupNothing(c)
    BY <2>4 DEF LookupNothing
  <2>5. CASE LookupRunning(c)
    BY <2>5 DEF LookupRunning
  <2>6. CASE MarkStopping(c)
    BY <2>6 DEF MarkStopping
  <2>7. CASE Kill(c)
    BY <2>7 DEF Kill
  <2>8. CASE Forget(c)
    BY <2>8 DEF Forget
  <2>9. CASE ClearStart(c)
    BY <2>9 DEF ClearStart
  <2>10. CASE FinishStop(c)
    BY <2>10 DEF FinishStop
  <2>11. CASE LowerFlag(c)
    BY <2>11 DEF LowerFlag
  <2> QED
    BY <1>3, <2>1, <2>2, <2>3, <2>4, <2>5, <2>6, <2>7, <2>8, <2>9, <2>10, <2>11
       DEF StopStep
<1>4. ASSUME NEW p \in Pids, ChildExits(p)
      PROVE  TypeOK'
  BY <1>4 DEF ChildExits
<1>5. ASSUME NEW p \in Pids, WatcherStep(p)
      PROVE  TypeOK'
  <2>1. CASE SwallowExit(p)
    BY <2>1 DEF SwallowExit, Watch
  <2>2. CASE NoticeExit(p)
    BY <2>2 DEF NoticeExit, Watch
  <2>3. CASE IgnoreReplaced(p)
    BY <2>3 DEF IgnoreReplaced, Watch
  <2>4. CASE ConfirmPid(p)
    BY <2>4 DEF ConfirmPid, Watch
  <2>5. CASE WatcherForget(p)
    BY <2>5 DEF WatcherForget, Watch
  <2>6. CASE WatcherClearStart(p)
    BY <2>6 DEF WatcherClearStart, Watch
  <2>7. CASE CountExit(p)
    BY <2>7 DEF CountExit, Watch
  <2>8. CASE SpawnTimer(p)
    BY <2>8 DEF SpawnTimer, Watch
  <2>9. CASE StoreTimer(p)
    BY <2>9 DEF StoreTimer, Watch
  <2> QED
    BY <1>5, <2>1, <2>2, <2>3, <2>4, <2>5, <2>6, <2>7, <2>8, <2>9 DEF WatcherStep
<1>6. ASSUME NEW p \in Pids, TimerStep(p)
      PROVE  TypeOK'
  <2>1. CASE TimerWakes(p)
    BY <2>1 DEF TimerWakes
  <2>2. CASE TimerStopped(p)
    BY <2>2 DEF TimerStopped
  <2>3. CASE TimerRestarts(p)
    BY <2>3 DEF TimerRestarts
  <2>4. CASE TimerConfigLost(p)
    BY <2>4 DEF TimerConfigLost
  <2> QED
    BY <1>6, <2>1, <2>2, <2>3, <2>4 DEF TimerStep
<1>7. CASE UNCHANGED vars
  BY <1>7 DEF vars
<1> QED
  BY <1>1, <1>2, <1>3, <1>4, <1>5, <1>6, <1>7 DEF Next, CallStep

\* Every reachable state of ServiceManager is well typed, for any number of
\* handlers and processes.
THEOREM TypeCorrect == Spec => []TypeOK
BY TypeOKInit, TypeOKStep, PTL DEF Spec

-----------------------------------------------------------------------------
(***************************************************************************)
(* The inductive invariant.  None of the safety invariants is inductive    *)
(* alone: that a watcher creates a timer of its own needs the watcher to   *)
(* be the only one of its process, which needs the process to be owned by  *)
(* the start that spawned it, whose caller must not be a timer still to be *)
(* created.                                                                *)
(***************************************************************************)

\* Only processes that exist are registered or watched.
Born ==
    /\ processes # None => child[processes] # "unborn"
    /\ \A p \in Pids : watcher[p] # "none" => child[p] # "unborn"

\* A start that has spawned a process is the only one to know of it.
StartOwnsChild ==
    \A c \in Callers : Starting(c) =>
        /\ target[c] \in Pids
        /\ child[target[c]] # "unborn"
        /\ watcher[target[c]] = "none"
        /\ \A d \in Callers : Starting(d) /\ target[d] = target[c] => d = c

\* A watcher moves only after the exit, and schedules a retry only after a
\* failure, with the timer it stores created.
ExitDecided ==
    \A p \in Pids :
        /\ watcher[p] \notin {"none", "waiting"} => child[p] \in ExitKinds
        /\ watcher[p] \in {"countExit", "spawnTimer", "storeTimer"} =>
              child[p] = "failed" /\ config[p].retry
        /\ watcher[p] = "storeTimer" => pc[p] # "unscheduled"

\* The process a stop is about to kill was really started.
VictimKnown ==
    \A c \in Callers : pc[c] \in {"markStopping", "kill"} =>
        target[c] \in Pids /\ child[target[c]] # "unborn"

\* Only a restart shows the operation "restarting".
MarkedRestart ==
    \A c \in Callers : pc[c] = "markRestarting" => op[c] = "restart"

WatchInv == EveryChildWatched /\ RegistrationFinal /\ Born /\ StartOwnsChild
RetryInv == RetryIsEarned /\ ExitDecided
VictimInv == StoppedMeansDead /\ VictimKnown
PendingInv == PendingHasOwner /\ MarkedRestart

IInv == TypeOK /\ WatchInv /\ RetryInv /\ VictimInv /\ PendingInv

LEMMA IInvInit == Init => IInv
<1> SUFFICES ASSUME Init
             PROVE  IInv
  OBVIOUS
<1>1. TypeOK
  BY TypeOKInit
<1>2. WatchInv
  BY DEF Init, WatchInv, EveryChildWatched, RegistrationFinal, Born,
         StartOwnsChild, Starting
<1>3. RetryInv
  BY PidsAssumption DEF Init, RetryInv, RetryIsEarned, ExitDecided, Callers
<1>4. VictimInv
  BY DEF Init, VictimInv, StoppedMeansDead, VictimKnown
<1>5. PendingInv
  BY DEF Init, PendingInv, PendingHasOwner, MarkedRestart
<1> QED
  BY <1>1, <1>2, <1>3, <1>4, <1>5 DEF IInv

\* Each step keeps processes registered, watched and owned consistently.
LEMMA WatchStep == IInv /\ [Next]_vars => WatchInv'
<1> SUFFICES ASSUME TypeOK, WatchInv, RetryInv, [Next]_vars
             PROVE  WatchInv'
  BY DEF IInv
<1> USE DEF WatchInv, RetryInv, EveryChildWatched, RegistrationFinal, Born,
            StartOwnsChild, Starting, RetryIsEarned, ExitDecided, TypeOK,
            Callers, maps, osVars, callVars, Goto, Step, Leave, ReturnFromStart,
            SetProcess, SetRetries, SetStart, SetPending, SetStopping, SetTimer
<1>1. ASSUME NEW h \in Handlers, NEW request \in Requests, Receive(h, request)
      PROVE  WatchInv'
  BY <1>1, RequestsAssumption DEF Receive, FirstLabel
<1>2. ASSUME NEW c \in Callers, StartStep(c)
      PROVE  WatchInv'
  <2>1. CASE RefuseStart(c)
    BY <2>1 DEF RefuseStart
  <2>2. CASE AcceptStart(c)
    BY <2>2 DEF AcceptStart
  <2>3. CASE MarkStarting(c)
    BY <2>3 DEF MarkStarting
  <2>4. CASE Spawn(c)
    BY <2>4, NextPidIsNew DEF Spawn
  <2>5. CASE SpawnFails(c)
    BY <2>5 DEF SpawnFails
  <2>6. CASE Register(c)
    BY <2>6 DEF Register
  <2>7. CASE ResetRetries(c)
    BY <2>7 DEF ResetRetries
  <2>8. CASE StampStart(c)
    BY <2>8 DEF StampStart
  <2>9. CASE FinishStart(c)
    BY <2>9 DEF FinishStart
  <2> QED
    BY <1>2, <2>1, <2>2, <2>3, <2>4, <2>5, <2>6, <2>7, <2>8, <2>9
       DEF StartStep
<1>3. ASSUME NEW c \in Callers, StopStep(c)
      PROVE  WatchInv'
  <2>1. CASE MarkRestarting(c)
    BY <2>1 DEF MarkRestarting
  <2>2. CASE RaiseFlag(c)
    BY <2>2 DEF RaiseFlag
  <2>3. CASE CancelRetryTimer(c)
    <3>1. \A d \in Callers :
             pc'[d] # pc[d] => /\ pc[d] \in {"cancelTimer", "sleeping"}
                               /\ pc'[d] \in {"lookup", "finished"}
      BY <2>3 DEF CancelRetryTimer
    <3>2. \A d \in Callers : Starting(d)' <=> Starting(d)
      BY <3>1 DEF Starting
    <3>3. UNCHANGED <<processes, child, watcher, target>>
      BY <2>3 DEF CancelRetryTimer
    <3> QED
      BY <3>2, <3>3
  <2>4. CASE LookupNothing(c)
    BY <2>4 DEF LookupNothing
  <2>5. CASE LookupRunning(c)
    BY <2>5 DEF LookupRunning
  <2>6. CASE MarkStopping(c)
    BY <2>6 DEF MarkStopping
  <2>7. CASE Kill(c)
    BY <2>7, ExitKindsAssumption DEF Kill
  <2>8. CASE Forget(c)
    BY <2>8, PidsAssumption DEF Forget
  <2>9. CASE ClearStart(c)
    BY <2>9 DEF ClearStart
  <2>10. CASE FinishStop(c)
    BY <2>10 DEF FinishStop
  <2>11. CASE LowerFlag(c)
    BY <2>11 DEF LowerFlag
  <2> QED
    BY <1>3, <2>1, <2>2, <2>3, <2>4, <2>5, <2>6, <2>7, <2>8, <2>9, <2>10, <2>11
       DEF StopStep
<1>4. ASSUME NEW p \in Pids, ChildExits(p)
      PROVE  WatchInv'
  BY <1>4, ExitKindsAssumption DEF ChildExits
<1>5. ASSUME NEW p \in Pids, WatcherStep(p)
      PROVE  WatchInv'
  <2>1. CASE SwallowExit(p)
    BY <2>1 DEF SwallowExit, Watch
  <2>2. CASE NoticeExit(p)
    BY <2>2 DEF NoticeExit, Watch
  <2>3. CASE IgnoreReplaced(p)
    BY <2>3 DEF IgnoreReplaced, Watch
  <2>4. CASE ConfirmPid(p)
    BY <2>4 DEF ConfirmPid, Watch
  <2>5. CASE WatcherForget(p)
    BY <2>5, PidsAssumption DEF WatcherForget, Watch
  <2>6. CASE WatcherClearStart(p)
    BY <2>6 DEF WatcherClearStart, Watch
  <2>7. CASE CountExit(p)
    BY <2>7 DEF CountExit, Watch
  <2>8. CASE SpawnTimer(p)
    BY <2>8 DEF SpawnTimer, Watch
  <2>9. CASE StoreTimer(p)
    BY <2>9 DEF StoreTimer, Watch
  <2> QED
    BY <1>5, <2>1, <2>2, <2>3, <2>4, <2>5, <2>6, <2>7, <2>8, <2>9
       DEF WatcherStep
<1>6. ASSUME NEW p \in Pids, TimerStep(p)
      PROVE  WatchInv'
  <2>1. CASE TimerWakes(p)
    BY <2>1 DEF TimerWakes
  <2>2. CASE TimerStopped(p)
    BY <2>2 DEF TimerStopped
  <2>3. CASE TimerRestarts(p)
    BY <2>3 DEF TimerRestarts
  <2>4. CASE TimerConfigLost(p)
    BY <2>4 DEF TimerConfigLost
  <2> QED
    BY <1>6, <2>1, <2>2, <2>3, <2>4
       DEF TimerStep
<1>7. CASE UNCHANGED vars
  BY <1>7 DEF vars
<1> QED
  BY <1>1, <1>2, <1>3, <1>4, <1>5, <1>6, <1>7 DEF Next, CallStep

\* Each step keeps retries tied to the failures that earned them.
LEMMA RetryStep == IInv /\ [Next]_vars => RetryInv'
<1> SUFFICES ASSUME TypeOK, WatchInv, RetryInv, [Next]_vars
             PROVE  RetryInv'
  BY DEF IInv
<1> USE DEF RetryInv, WatchInv, StartOwnsChild, Starting, Born, RetryIsEarned,
            ExitDecided, TypeOK, Callers, maps, osVars, callVars, Goto, Step,
            Leave, ReturnFromStart, SetProcess, SetRetries, SetStart,
            SetPending, SetStopping, SetTimer
<1>1. ASSUME NEW h \in Handlers, NEW request \in Requests, Receive(h, request)
      PROVE  RetryInv'
  BY <1>1, RequestsAssumption DEF Receive, FirstLabel
<1>2. ASSUME NEW c \in Callers, StartStep(c)
      PROVE  RetryInv'
  <2>1. CASE RefuseStart(c)
    BY <2>1 DEF RefuseStart
  <2>2. CASE AcceptStart(c)
    BY <2>2 DEF AcceptStart
  <2>3. CASE MarkStarting(c)
    BY <2>3 DEF MarkStarting
  <2>4. CASE Spawn(c)
    BY <2>4, NextPidIsNew, ExitKindsAssumption DEF Spawn
  <2>5. CASE SpawnFails(c)
    BY <2>5 DEF SpawnFails
  <2>6. CASE Register(c)
    BY <2>6 DEF Register
  <2>7. CASE ResetRetries(c)
    BY <2>7 DEF ResetRetries
  <2>8. CASE StampStart(c)
    BY <2>8 DEF StampStart
  <2>9. CASE FinishStart(c)
    BY <2>9 DEF FinishStart
  <2> QED
    BY <1>2, <2>1, <2>2, <2>3, <2>4, <2>5, <2>6, <2>7, <2>8, <2>9
       DEF StartStep
<1>3. ASSUME NEW c \in Callers, StopStep(c)
      PROVE  RetryInv'
  <2>1. CASE MarkRestarting(c)
    BY <2>1 DEF MarkRestarting
  <2>2. CASE RaiseFlag(c)
    BY <2>2 DEF RaiseFlag
  <2>3. CASE CancelRetryTimer(c)
    BY <2>3 DEF CancelRetryTimer
  <2>4. CASE LookupNothing(c)
    BY <2>4 DEF LookupNothing
  <2>5. CASE LookupRunning(c)
    BY <2>5 DEF LookupRunning
  <2>6. CASE MarkStopping(c)
    BY <2>6 DEF MarkStopping
  <2>7. CASE Kill(c)
    BY <2>7 DEF Kill
  <2>8. CASE Forget(c)
    BY <2>8 DEF Forget
  <2>9. CASE ClearStart(c)
    BY <2>9 DEF ClearStart
  <2>10. CASE FinishStop(c)
    BY <2>10 DEF FinishStop
  <2>11. CASE LowerFlag(c)
    BY <2>11 DEF LowerFlag
  <2> QED
    BY <1>3, <2>1, <2>2, <2>3, <2>4, <2>5, <2>6, <2>7, <2>8, <2>9, <2>10, <2>11
       DEF StopStep
<1>4. ASSUME NEW p \in Pids, ChildExits(p)
      PROVE  RetryInv'
  BY <1>4 DEF ChildExits
<1>5. ASSUME NEW p \in Pids, WatcherStep(p)
      PROVE  RetryInv'
  <2>1. CASE SwallowExit(p)
    BY <2>1 DEF SwallowExit, Watch
  <2>2. CASE NoticeExit(p)
    BY <2>2 DEF NoticeExit, Watch
  <2>3. CASE IgnoreReplaced(p)
    BY <2>3 DEF IgnoreReplaced, Watch
  <2>4. CASE ConfirmPid(p)
    BY <2>4 DEF ConfirmPid, Watch
  <2>5. CASE WatcherForget(p)
    BY <2>5 DEF WatcherForget, Watch
  <2>6. CASE WatcherClearStart(p)
    BY <2>6 DEF WatcherClearStart, Abnormal, Watch
  <2>7. CASE CountExit(p)
    BY <2>7 DEF CountExit, Watch
  <2>8. CASE SpawnTimer(p)
    BY <2>8 DEF SpawnTimer, Watch
  <2>9. CASE StoreTimer(p)
    BY <2>9 DEF StoreTimer, Watch
  <2> QED
    BY <1>5, <2>1, <2>2, <2>3, <2>4, <2>5, <2>6, <2>7, <2>8, <2>9
       DEF WatcherStep
<1>6. ASSUME NEW p \in Pids, TimerStep(p)
      PROVE  RetryInv'
  <2>1. CASE TimerWakes(p)
    BY <2>1 DEF TimerWakes
  <2>2. CASE TimerStopped(p)
    BY <2>2 DEF TimerStopped
  <2>3. CASE TimerRestarts(p)
    BY <2>3 DEF TimerRestarts
  <2>4. CASE TimerConfigLost(p)
    BY <2>4 DEF TimerConfigLost
  <2> QED
    BY <1>6, <2>1, <2>2, <2>3, <2>4
       DEF TimerStep
<1>7. CASE UNCHANGED vars
  BY <1>7 DEF vars
<1> QED
  BY <1>1, <1>2, <1>3, <1>4, <1>5, <1>6, <1>7 DEF Next, CallStep

\* Each step keeps a stopped process dead.
LEMMA VictimStep == IInv /\ [Next]_vars => VictimInv'
<1> SUFFICES ASSUME TypeOK, WatchInv, RetryInv, VictimInv, [Next]_vars
             PROVE  VictimInv'
  BY DEF IInv
<1> USE DEF VictimInv, StoppedMeansDead, VictimKnown, WatchInv, Born, RetryInv,
            RetryIsEarned, TypeOK, Callers, maps, osVars, callVars, Goto, Step,
            Leave, ReturnFromStart, SetProcess, SetRetries, SetStart,
            SetPending, SetStopping, SetTimer
<1>1. ASSUME NEW h \in Handlers, NEW request \in Requests, Receive(h, request)
      PROVE  VictimInv'
  BY <1>1, RequestsAssumption DEF Receive, FirstLabel
<1>2. ASSUME NEW c \in Callers, StartStep(c)
      PROVE  VictimInv'
  <2>1. CASE RefuseStart(c)
    BY <2>1 DEF RefuseStart
  <2>2. CASE AcceptStart(c)
    BY <2>2 DEF AcceptStart
  <2>3. CASE MarkStarting(c)
    BY <2>3 DEF MarkStarting
  <2>4. CASE Spawn(c)
    BY <2>4, NextPidIsNew, ExitKindsAssumption DEF Spawn
  <2>5. CASE SpawnFails(c)
    BY <2>5 DEF SpawnFails
  <2>6. CASE Register(c)
    BY <2>6 DEF Register
  <2>7. CASE ResetRetries(c)
    BY <2>7 DEF ResetRetries
  <2>8. CASE StampStart(c)
    BY <2>8 DEF StampStart
  <2>9. CASE FinishStart(c)
    BY <2>9 DEF FinishStart
  <2> QED
    BY <1>2, <2>1, <2>2, <2>3, <2>4, <2>5, <2>6, <2>7, <2>8, <2>9
       DEF StartStep
<1>3. ASSUME NEW c \in Callers, StopStep(c)
      PROVE  VictimInv'
  <2>1. CASE MarkRestarting(c)
    BY <2>1 DEF MarkRestarting
  <2>2. CASE RaiseFlag(c)
    BY <2>2 DEF RaiseFlag
  <2>3. CASE CancelRetryTimer(c)
    BY <2>3 DEF CancelRetryTimer
  <2>4. CASE LookupNothing(c)
    BY <2>4 DEF LookupNothing
  <2>5. CASE LookupRunning(c)
    BY <2>5 DEF LookupRunning
  <2>6. CASE MarkStopping(c)
    BY <2>6 DEF MarkStopping
  <2>7. CASE Kill(c)
    BY <2>7, ExitKindsAssumption DEF Kill
  <2>8. CASE Forget(c)
    BY <2>8 DEF Forget
  <2>9. CASE ClearStart(c)
    BY <2>9 DEF ClearStart
  <2>10. CASE FinishStop(c)
    BY <2>10 DEF FinishStop
  <2>11. CASE LowerFlag(c)
    BY <2>11 DEF LowerFlag
  <2> QED
    BY <1>3, <2>1, <2>2, <2>3, <2>4, <2>5, <2>6, <2>7, <2>8, <2>9, <2>10, <2>11
       DEF StopStep
<1>4. ASSUME NEW p \in Pids, ChildExits(p)
      PROVE  VictimInv'
  BY <1>4, ExitKindsAssumption DEF ChildExits
<1>5. ASSUME NEW p \in Pids, WatcherStep(p)
      PROVE  VictimInv'
  <2>1. CASE SwallowExit(p)
    BY <2>1 DEF SwallowExit, Watch
  <2>2. CASE NoticeExit(p)
    BY <2>2 DEF NoticeExit, Watch
  <2>3. CASE IgnoreReplaced(p)
    BY <2>3 DEF IgnoreReplaced, Watch
  <2>4. CASE ConfirmPid(p)
    BY <2>4 DEF ConfirmPid, Watch
  <2>5. CASE WatcherForget(p)
    BY <2>5 DEF WatcherForget, Watch
  <2>6. CASE WatcherClearStart(p)
    BY <2>6 DEF WatcherClearStart, Watch
  <2>7. CASE CountExit(p)
    BY <2>7 DEF CountExit, Watch
  <2>8. CASE SpawnTimer(p)
    BY <2>8 DEF SpawnTimer, Watch
  <2>9. CASE StoreTimer(p)
    BY <2>9 DEF StoreTimer, Watch
  <2> QED
    BY <1>5, <2>1, <2>2, <2>3, <2>4, <2>5, <2>6, <2>7, <2>8, <2>9
       DEF WatcherStep
<1>6. ASSUME NEW p \in Pids, TimerStep(p)
      PROVE  VictimInv'
  <2>1. CASE TimerWakes(p)
    BY <2>1 DEF TimerWakes
  <2>2. CASE TimerStopped(p)
    BY <2>2 DEF TimerStopped
  <2>3. CASE TimerRestarts(p)
    BY <2>3 DEF TimerRestarts
  <2>4. CASE TimerConfigLost(p)
    BY <2>4 DEF TimerConfigLost
  <2> QED
    BY <1>6, <2>1, <2>2, <2>3, <2>4
       DEF TimerStep
<1>7. CASE UNCHANGED vars
  BY <1>7 DEF vars
<1> QED
  BY <1>1, <1>2, <1>3, <1>4, <1>5, <1>6, <1>7 DEF Next, CallStep

\* Each step leaves an operation shown as in flight with a call to clear it.
LEMMA PendingStep == IInv /\ [Next]_vars => PendingInv'
<1> SUFFICES ASSUME TypeOK, RetryInv, PendingInv, [Next]_vars
             PROVE  PendingInv'
  BY DEF IInv
<1> USE DEF PendingInv, PendingHasOwner, MarkedRestart, ClearsPending,
            AboutToStart, RetryInv, RetryIsEarned, ExitDecided, TypeOK, Callers,
            maps, osVars, callVars, Goto, Step, Leave, ReturnFromStart,
            SetProcess, SetRetries, SetStart, SetPending, SetStopping, SetTimer
<1>1. ASSUME NEW h \in Handlers, NEW request \in Requests, Receive(h, request)
      PROVE  PendingInv'
  BY <1>1, RequestsAssumption DEF Receive, FirstLabel
<1>2. ASSUME NEW c \in Callers, StartStep(c)
      PROVE  PendingInv'
  <2>1. CASE RefuseStart(c)
    BY <2>1 DEF RefuseStart
  <2>2. CASE AcceptStart(c)
    BY <2>2 DEF AcceptStart
  <2>3. CASE MarkStarting(c)
    BY <2>3 DEF MarkStarting
  <2>4. CASE Spawn(c)
    BY <2>4 DEF Spawn
  <2>5. CASE SpawnFails(c)
    BY <2>5 DEF SpawnFails
  <2>6. CASE Register(c)
    BY <2>6 DEF Register
  <2>7. CASE ResetRetries(c)
    BY <2>7 DEF ResetRetries
  <2>8. CASE StampStart(c)
    BY <2>8 DEF StampStart
  <2>9. CASE FinishStart(c)
    BY <2>9 DEF FinishStart
  <2> QED
    BY <1>2, <2>1, <2>2, <2>3, <2>4, <2>5, <2>6, <2>7, <2>8, <2>9
       DEF StartStep
<1>3. ASSUME NEW c \in Callers, StopStep(c)
      PROVE  PendingInv'
  <2>1. CASE MarkRestarting(c)
    BY <2>1 DEF MarkRestarting
  <2>2. CASE RaiseFlag(c)
    BY <2>2 DEF RaiseFlag
  <2>3. CASE CancelRetryTimer(c)
    BY <2>3 DEF CancelRetryTimer
  <2>4. CASE LookupNothing(c)
    BY <2>4 DEF LookupNothing
  <2>5. CASE LookupRunning(c)
    BY <2>5 DEF LookupRunning
  <2>6. CASE MarkStopping(c)
    BY <2>6 DEF MarkStopping
  <2>7. CASE Kill(c)
    BY <2>7 DEF Kill
  <2>8. CASE Forget(c)
    BY <2>8 DEF Forget
  <2>9. CASE ClearStart(c)
    BY <2>9 DEF ClearStart
  <2>10. CASE FinishStop(c)
    BY <2>10 DEF FinishStop
  <2>11. CASE LowerFlag(c)
    BY <2>11 DEF LowerFlag
  <2> QED
    BY <1>3, <2>1, <2>2, <2>3, <2>4, <2>5, <2>6, <2>7, <2>8, <2>9, <2>10, <2>11
       DEF StopStep
<1>4. ASSUME NEW p \in Pids, ChildExits(p)
      PROVE  PendingInv'
  BY <1>4 DEF ChildExits
<1>5. ASSUME NEW p \in Pids, WatcherStep(p)
      PROVE  PendingInv'
  <2>1. CASE SwallowExit(p)
    BY <2>1 DEF SwallowExit, Watch
  <2>2. CASE NoticeExit(p)
    BY <2>2 DEF NoticeExit, Watch
  <2>3. CASE IgnoreReplaced(p)
    BY <2>3 DEF IgnoreReplaced, Watch
  <2>4. CASE ConfirmPid(p)
    BY <2>4 DEF ConfirmPid, Watch
  <2>5. CASE WatcherForget(p)
    BY <2>5 DEF WatcherForget, Watch
  <2>6. CASE WatcherClearStart(p)
    BY <2>6 DEF WatcherClearStart, Watch
  <2>7. CASE CountExit(p)
    BY <2>7 DEF CountExit, Watch
  <2>8. CASE SpawnTimer(p)
    BY <2>8 DEF SpawnTimer, Watch
  <2>9. CASE StoreTimer(p)
    BY <2>9 DEF StoreTimer, Watch
  <2> QED
    BY <1>5, <2>1, <2>2, <2>3, <2>4, <2>5, <2>6, <2>7, <2>8, <2>9
       DEF WatcherStep
<1>6. ASSUME NEW p \in Pids, TimerStep(p)
      PROVE  PendingInv'
  <2>1. CASE TimerWakes(p)
    BY <2>1 DEF TimerWakes
  <2>2. CASE TimerStopped(p)
    BY <2>2 DEF TimerStopped
  <2>3. CASE TimerRestarts(p)
    BY <2>3 DEF TimerRestarts
  <2>4. CASE TimerConfigLost(p)
    BY <2>4 DEF TimerConfigLost
  <2> QED
    BY <1>6, <2>1, <2>2, <2>3, <2>4
       DEF TimerStep
<1>7. CASE UNCHANGED vars
  BY <1>7 DEF vars
<1> QED
  BY <1>1, <1>2, <1>3, <1>4, <1>5, <1>6, <1>7 DEF Next, CallStep

-----------------------------------------------------------------------------
\* The inductive invariant holds in every reachable state.
THEOREM Lifecycle == Spec => []IInv
<1>1. IInv /\ [Next]_vars => IInv'
  BY TypeOKStep, WatchStep, RetryStep, VictimStep, PendingStep DEF IInv
<1> QED
  BY <1>1, IInvInit, PTL DEF Spec

\* No child process goes without a watcher: its exit is waited for, or the
\* start that spawned it is still on its way to creating the watcher.
THEOREM ChildrenAreWatched == Spec => []EveryChildWatched
<1>1. IInv => EveryChildWatched
  BY DEF IInv, WatchInv
<1> QED
  BY <1>1, Lifecycle, PTL

\* However early a process dies, and whatever other requests do meanwhile, it
\* is not registered again once its watcher has dealt with its exit.
THEOREM RegistrationIsFinal == Spec => []RegistrationFinal
<1>1. IInv => RegistrationFinal
  BY DEF IInv, WatchInv
<1> QED
  BY <1>1, Lifecycle, PTL

\* A retry timer exists only for a failure whose config allows retries, and
\* no watcher creates two.
THEOREM RetriesAreEarned == Spec => []RetryIsEarned
<1>1. IInv => RetryIsEarned
  BY DEF IInv, RetryInv
<1> QED
  BY <1>1, Lifecycle, PTL

\* A stop, force-stop or restart never unregisters a process before the one
\* it looked up is dead.
THEOREM StopKills == Spec => []StoppedMeansDead
<1>1. IInv => StoppedMeansDead
  BY DEF IInv, VictimInv
<1> QED
  BY <1>1, Lifecycle, PTL

\* An operation shown as in flight is never left behind: in every state some
\* call that will clear it is still running.
THEOREM PendingIsOwned == Spec => []PendingHasOwner
<1>1. IInv => PendingHasOwner
  BY DEF IInv, PendingInv
<1> QED
  BY <1>1, Lifecycle, PTL
=============================================================================
