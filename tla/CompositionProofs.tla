-------------------------- MODULE CompositionProofs --------------------------
(***************************************************************************)
(* What is proved of ServiceManager among its surroundings: with the       *)
(* definition file and its editors (ServiceDefinitions), that a registered *)
(* service runs the definition its file has as long as edits do not        *)
(* overlap calls of the manager; in the daemon (Daemon), that only         *)
(* processes whose start another task or the shutdown has crossed ever     *)
(* live beside another one or outlive the daemon.                          *)
(***************************************************************************)
EXTENDS ServiceDefinitions, Daemon, ServiceManagerProofs

-----------------------------------------------------------------------------
\* ServiceDefinitions.  Calls may overlap each other, and so may editors.

LEMMA DefStepIsStep == [DefNext]_defVars => [Next]_vars
BY DEF DefNext, defVars, ReceiveLoaded, CallLoaded, RetryLoaded,
       RetryUnreadable, Elsewhere, Submit, EditStep, CheckExists, CheckRunning,
       CheckOperation, Truncate, Put, PutUnlinked, EditFails, Remove,
       EditorGoto, Next, WatcherStep, TimerStep

LEMMA ApartStepIsStep == [ApartNext]_defVars => [Next]_vars
<1>1. ApartNext => DefNext
  BY DEF ApartNext, DefNext
<1> QED
  BY <1>1, DefStepIsStep

\* Loading definitions and editing them lets the manager do nothing that it
\* would not do by itself: what is proved of ServiceManager holds beside any
\* number of editors, whether or not edits overlap calls.
THEOREM DefinitionsKeepManager == DefSpec => Spec
<1>1. DefInit => Init
  BY DEF DefInit
<1> QED
  BY <1>1, DefStepIsStep, PTL DEF DefSpec, Spec

\* An editor that has found the service not running acts on that.
Editing == {"operation", "truncate", "put", "remove", "unlinked"}

DefTypeOK ==
    /\ loaded \in [Callers -> Configs]
    /\ editor \in [Editors -> {"idle", "exists", "running"} \cup Editing]

\* A call that is under way has loaded what the file has.
LoadedIsCurrent ==
    \A c \in Callers : pc[c] \in CallLabels =>
        /\ NoEdit /\ loaded[c] = file
        /\ Starting(c) => config[target[c]] = file

\* Nothing is registered once an editor has passed the check for that.
EditsAreGuarded ==
    \A e \in Editors : editor[e] \in Editing => processes = None

DefInv == DefTypeOK /\ LoadedIsCurrent /\ EditsAreGuarded /\ RunsItsDefinition

LEMMA DefInvInit == DefInit => DefInv
<1>1. \E k : k \in Configs /\ TRUE
  BY ConfigsAssumption
<1>2. NoConfig \in Configs
  BY <1>1, Zenon DEF NoConfig
<1> QED
  BY <1>2 DEF DefInit, Init, DefInv, DefTypeOK, LoadedIsCurrent, EditsAreGuarded,
              RunsItsDefinition, CallLabels, StartLabels, StopLabels, Editing

\* Each step keeps calls and editors from what the other relies on.
LEMMA DefInvStep == IInv /\ DefInv /\ [ApartNext]_defVars => DefInv'
<1> SUFFICES ASSUME TypeOK, WatchInv, DefInv, [ApartNext]_defVars
             PROVE  DefInv'
  BY DEF IInv
<1> USE DEF DefInv, DefTypeOK, LoadedIsCurrent, EditsAreGuarded, Editing,
            RunsItsDefinition, NoEdit, NoCall, Readable, editorVars, vars,
            StartLabels, StopLabels, CallLabels, WatchInv, StartOwnsChild,
            Starting, TypeOK, Callers, maps, osVars, callVars, Goto, Step, Leave,
            ReturnFromStart, SetProcess, SetRetries, SetStart, SetPending,
            SetStopping, SetTimer
<1>1. ASSUME NEW h \in Handlers, NEW request \in Requests,
             NoEdit, ReceiveLoaded(h, request)
      PROVE  DefInv'
  BY <1>1, RequestsAssumption DEF ReceiveLoaded, Receive, FirstLabel
<1>2. ASSUME NEW c \in Callers, CallLoaded(c)
      PROVE  DefInv'
  <2> USE DEF CallLoaded
  <2>1. CASE RefuseStart(c)
    BY <2>1, <1>2 DEF RefuseStart
  <2>2. CASE AcceptStart(c)
    BY <2>2, <1>2 DEF AcceptStart
  <2>3. CASE MarkStarting(c)
    BY <2>3, <1>2 DEF MarkStarting
  <2>4. CASE Spawn(c)
    BY <2>4, <1>2, NextPidIsNew, ExitKindsAssumption DEF Spawn
  <2>5. CASE SpawnFails(c)
    BY <2>5, <1>2 DEF SpawnFails
  <2>6. CASE Register(c)
    BY <2>6, <1>2 DEF Register
  <2>7. CASE ResetRetries(c)
    BY <2>7, <1>2 DEF ResetRetries
  <2>8. CASE StampStart(c)
    BY <2>8, <1>2 DEF StampStart
  <2>9. CASE FinishStart(c)
    BY <2>9, <1>2 DEF FinishStart
  <2>10. CASE MarkRestarting(c)
    BY <2>10, <1>2 DEF MarkRestarting
  <2>11. CASE RaiseFlag(c)
    BY <2>11, <1>2 DEF RaiseFlag
  <2>12. CASE CancelRetryTimer(c)
    BY <2>12, <1>2 DEF CancelRetryTimer
  <2>13. CASE LookupNothing(c)
    BY <2>13, <1>2 DEF LookupNothing
  <2>14. CASE LookupRunning(c)
    BY <2>14, <1>2 DEF LookupRunning
  <2>15. CASE MarkStopping(c)
    BY <2>15, <1>2 DEF MarkStopping
  <2>16. CASE Kill(c)
    BY <2>16, <1>2 DEF Kill
  <2>17. CASE Forget(c)
    BY <2>17, <1>2, PidsAssumption DEF Forget
  <2>18. CASE ClearStart(c)
    BY <2>18, <1>2 DEF ClearStart
  <2>19. CASE FinishStop(c)
    BY <2>19, <1>2 DEF FinishStop
  <2>20. CASE LowerFlag(c)
    BY <2>20, <1>2 DEF LowerFlag
  <2> QED
    BY <1>2, <2>1, <2>2, <2>3, <2>4, <2>5, <2>6, <2>7, <2>8, <2>9, <2>10, <2>11,
       <2>12, <2>13, <2>14, <2>15, <2>16, <2>17, <2>18, <2>19, <2>20
       DEF CallStep, StartStep, StopStep
<1>3. ASSUME NEW p \in Pids, NoEdit, RetryLoaded(p)
      PROVE  DefInv'
  BY <1>3 DEF RetryLoaded, TimerRestarts
<1>4. ASSUME NEW p \in Pids, Elsewhere(p)
      PROVE  DefInv'
  <2> USE DEF Elsewhere
  <2>0. CASE ChildExits(p)
    BY <1>4, <2>0 DEF ChildExits
  <2>1. CASE SwallowExit(p)
    BY <2>1, <1>4 DEF SwallowExit, Watch
  <2>2. CASE NoticeExit(p)
    BY <2>2, <1>4 DEF NoticeExit, Watch
  <2>3. CASE IgnoreReplaced(p)
    BY <2>3, <1>4 DEF IgnoreReplaced, Watch
  <2>4. CASE ConfirmPid(p)
    BY <2>4, <1>4 DEF ConfirmPid, Watch
  <2>5. CASE WatcherForget(p)
    BY <2>5, <1>4, PidsAssumption DEF WatcherForget, Watch
  <2>6. CASE WatcherClearStart(p)
    BY <2>6, <1>4 DEF WatcherClearStart, Watch
  <2>7. CASE CountExit(p)
    BY <2>7, <1>4 DEF CountExit, Watch
  <2>8. CASE SpawnTimer(p)
    BY <2>8, <1>4 DEF SpawnTimer, Watch
  <2>9. CASE StoreTimer(p)
    BY <2>9, <1>4 DEF StoreTimer, Watch
  <2>10. CASE TimerWakes(p)
    BY <1>4, <2>10 DEF TimerWakes
  <2>11. CASE TimerStopped(p)
    BY <1>4, <2>11 DEF TimerStopped
  <2> QED
    BY <1>4, <2>0, <2>1, <2>2, <2>3, <2>4, <2>5, <2>6, <2>7, <2>8, <2>9, <2>10,
       <2>11
       DEF WatcherStep
<1>5. ASSUME NEW p \in Pids, RetryUnreadable(p)
      PROVE  DefInv'
  BY <1>5 DEF RetryUnreadable, TimerConfigLost
<1>6. ASSUME NEW e \in Editors, NEW request \in EditRequests,
             NoCall, Submit(e, request)
      PROVE  DefInv'
  BY <1>6 DEF Submit
<1>7. ASSUME NEW e \in Editors, EditStep(e)
      PROVE  DefInv'
  <2> USE DEF EditorGoto
  <2>1. CASE CheckExists(e)
    BY <2>1 DEF CheckExists
  <2>2. CASE CheckRunning(e)
    BY <2>2 DEF CheckRunning
  <2>3. CASE CheckOperation(e)
    BY <2>3 DEF CheckOperation, Mutator
  <2>4. CASE Truncate(e)
    BY <2>4 DEF Truncate
  <2>5. CASE Put(e)
    BY <2>5 DEF Put
  <2>6. CASE PutUnlinked(e)
    BY <2>6 DEF PutUnlinked
  <2>7. CASE EditFails(e)
    BY <2>7 DEF EditFails
  <2>8. CASE Remove(e)
    BY <2>8 DEF Remove
  <2> QED
    BY <1>7, <2>1, <2>2, <2>3, <2>4, <2>5, <2>6, <2>7, <2>8 DEF EditStep
<1>8. CASE UNCHANGED defVars
  BY <1>8 DEF defVars
<1> QED
  BY <1>1, <1>2, <1>3, <1>4, <1>5, <1>6, <1>7, <1>8 DEF ApartNext

\* Whatever edits, deletions, crashes and retries precede it, the service that
\* is registered runs what its definition file says: it is neither edited nor
\* deleted under it, nor is it started from what a file no longer has.
THEOREM RunsWhatIsDefined == ApartSpec => []RunsItsDefinition
<1>1. IInv /\ [Next]_vars => IInv'
  BY TypeOKStep, WatchStep, RetryStep, VictimStep, PendingStep DEF IInv
<1>2. IInv /\ DefInv /\ [ApartNext]_defVars => (IInv /\ DefInv)'
  BY <1>1, ApartStepIsStep, DefInvStep
<1>3. DefInit => IInv /\ DefInv
  BY IInvInit, DefInvInit DEF DefInit
<1>4. DefInv => RunsItsDefinition
  BY DEF DefInv
<1> QED
  BY <1>2, <1>3, <1>4, PTL DEF ApartSpec

-----------------------------------------------------------------------------
\* Daemon.  The inductive invariant is about what a task has read of the map of
\* processes and still relies on when it writes: crossed processes excepted, it
\* is still true.

\* The variables that the argument is about are in their domains.
DaemonTypeOK ==
    /\ processes \in Pids \cup {None}
    /\ child \in [Pids -> {"unborn", "alive"} \cup ExitKinds]
    /\ watcher \in [Pids -> {"none", "waiting"} \cup WatcherBusy \cup WatcherOver]
    /\ pc \in [Callers -> {"idle", "unscheduled", "sleeping", "woken", "finished",
                            "stopAll"} \cup CallLabels]
    /\ op \in [Callers -> Operations \cup {"none", "retry"}]
    /\ target \in [Callers -> Pids \cup {None}]
    /\ phase \in {"booting", "autostart", "serving"} \cup ShuttingDown \cup Ended

\* Main is where the phase of `run` leads: it starts, or it stops, or it rests.
MainKnown ==
    /\ pc[Main] # "idle" =>
          \/ phase = "autostart" /\ pc[Main] \in StartLabels /\ op[Main] = "start"
          \/ /\ phase = "stopping" /\ op[Main] = "stop"
             /\ pc[Main] \in {"stopAll"} \cup StopLabels
          \/ phase = "killed"
    /\ \A c \in Callers \ {Main} : pc[c] # "stopAll"

\* The history knows of every process that is crossed.
CrossedRecorded ==
    /\ crossed \subseteq Pids
    /\ \A c \in Callers : Crossed(c) => target[c] \in crossed

\* A watcher, of which every process has one, creates its timer only once.
TimersOnce ==
    \A p \in Pids : pc[p] # "unscheduled" => watcher[p] \in {"storeTimer", "handled"}

\* A start has seen nothing registered, and only crossed processes are now.
StartKnows == \A c \in Callers : Placing(c) => processes \in {None} \cup crossed

\* What is registered is what a stop is about to remove, or crossed.
StopKnows ==
    \A c \in Callers : Removing(c) =>
        /\ target[c] \in Pids /\ child[target[c]] # "unborn"
        /\ processes \in {target[c], None} \cup crossed
        /\ pc[c] = "forget" => child[target[c]] \in ExitKinds

\* The same for a watcher.
ExitSeen ==
    \A p \in Pids :
        /\ watcher[p] \in {"checkPid", "forget"} => child[p] \in ExitKinds
        /\ watcher[p] = "forget" => processes \in {p, None} \cup crossed

\* A process lives unregistered only if it is crossed or about to be registered.
Accounted ==
    \A p \in Pids : child[p] = "alive" =>
        \/ processes = p \/ p \in crossed
        \/ \E c \in Callers : pc[c] = "register" /\ target[c] = p

\* Whatever is registered behind the back of stop_all is crossed.
MainStops == Passed => processes \in {None} \cup crossed

DaemonInv == /\ DaemonTypeOK /\ MainKnown /\ CrossedRecorded /\ Born
             /\ StartOwnsChild /\ TimersOnce /\ StartKnows /\ StopKnows /\ ExitSeen
             /\ Accounted /\ MainStops

-----------------------------------------------------------------------------
\* Where each task is, and what it knows.
Control == DaemonTypeOK /\ MainKnown
Knowledge ==
    /\ Born /\ StartOwnsChild /\ TimersOnce
    /\ StartKnows /\ StopKnows /\ ExitSeen /\ Accounted /\ MainStops

\* What a step does, apart from its record.
DaemonStep ==
    \/ AutoStart \/ NoAutoStart \/ AutoStarted \/ ListServices
    \/ CancelThenStop \/ StopAllReturns \/ DropRuntime \/ Exit \/ EndsEarly
    \/ \E h \in Handlers \ {Main}, request \in Requests : Serve(h, request)
    \/ \E c \in Callers :
          CallStep(c) /\ phase \notin Ended /\ phase' = phase
    \/ \E p \in Pids : Watching(p) \/ Retrying(p) \/ Exiting(p)

\* What the record of a step guarantees.
HistoryGrows ==
    /\ crossed \subseteq crossed'
    /\ \A c \in Callers : Crossed(c)' => target'[c] \in crossed'
    /\ \A p \in crossed' :
          p \in crossed \/ \E c \in Callers : pc'[c] = "register" /\ target'[c] = p

\* The record is kept with every step of the daemon.
LEMMA StepIsRecorded == DaemonNext => DaemonStep /\ HistoryGrows
<1>1. DaemonNext => DaemonStep
  BY MainAssumption DEF DaemonNext, DaemonStep, Recorded, MainStep, MainCall,
     Continue, Callers, Tasks
<1>2. DaemonNext => HistoryGrows
  BY DEF DaemonNext, Recorded, HistoryGrows, Crossed
<1> QED
  BY <1>1, <1>2

LEMMA DaemonInvInit == DaemonInit => DaemonInv
<1> SUFFICES ASSUME DaemonInit
             PROVE  DaemonInv
  OBVIOUS
<1> USE PidsAssumption, MainAssumption, ExitKindsAssumption DEF DaemonInit, Init,
        Callers, ShuttingDown, StartLabels, StopLabels, CallLabels, WatcherBusy,
        WatcherOver
<1>1. DaemonTypeOK /\ MainKnown
  BY DEF DaemonTypeOK, MainKnown, Ended, Operations
<1>2. CrossedRecorded
  BY DEF CrossedRecorded, Crossed
<1>3. Born /\ StartOwnsChild /\ TimersOnce
  BY DEF Born, StartOwnsChild, Starting, TimersOnce
<1>4. StartKnows /\ StopKnows /\ ExitSeen
  BY DEF StartKnows, Placing, StopKnows, Removing, ExitSeen
<1>5. Accounted /\ MainStops
  BY DEF Accounted, MainStops
<1> QED
  BY <1>1, <1>2, <1>3, <1>4, <1>5 DEF DaemonInv

\* Each step keeps Main where its phase leads.
LEMMA ControlStep ==
    ASSUME DaemonInv, DaemonStep
    PROVE  Control'
<1> USE DEF DaemonInv, DaemonTypeOK, MainKnown, Control, ShuttingDown, Ended,
            Callers, Operations, StartLabels, StopLabels, CallLabels,
            WatcherBusy, WatcherOver, maps, osVars, callVars, vars, Goto, Step,
            Leave, ReturnFromStart, SetProcess, SetRetries, SetStart, SetPending,
            SetStopping, SetTimer
<1>1. CASE AutoStart
  BY <1>1, MainAssumption DEF AutoStart, Receive, FirstLabel
<1>2. CASE NoAutoStart
  BY <1>2 DEF NoAutoStart
<1>3. CASE AutoStarted
  BY <1>3 DEF AutoStarted
<1>4. CASE ListServices
  BY <1>4 DEF ListServices
<1>5. CASE CancelThenStop
  BY <1>5, MainAssumption DEF CancelThenStop, FirstLabel
<1>6. CASE StopAllReturns
  BY <1>6 DEF StopAllReturns
<1>7. CASE DropRuntime
  BY <1>7 DEF DropRuntime
<1>8. CASE Exit
  BY <1>8 DEF Exit
<1>9. CASE EndsEarly
  BY <1>9 DEF EndsEarly
<1>10. ASSUME NEW h \in Handlers \ {Main}, NEW request \in Requests,
              Serve(h, request)
       PROVE  Control'
  BY <1>10, RequestsAssumption DEF Serve, Receive, FirstLabel
<1>11. ASSUME NEW c \in Callers, StartStep(c), phase \notin Ended, phase' = phase
       PROVE  Control'
  <2>1. CASE RefuseStart(c)
    BY <2>1, <1>11, MainAssumption DEF RefuseStart
  <2>2. CASE AcceptStart(c)
    BY <2>2, <1>11 DEF AcceptStart
  <2>3. CASE MarkStarting(c)
    BY <2>3, <1>11 DEF MarkStarting
  <2>4. CASE Spawn(c)
    BY <2>4, <1>11, NextPidIsNew DEF Spawn
  <2>5. CASE SpawnFails(c)
    BY <2>5, <1>11, MainAssumption DEF SpawnFails
  <2>6. CASE Register(c)
    BY <2>6, <1>11 DEF Register
  <2>7. CASE ResetRetries(c)
    BY <2>7, <1>11 DEF ResetRetries
  <2>8. CASE StampStart(c)
    BY <2>8, <1>11 DEF StampStart
  <2>9. CASE FinishStart(c)
    <3>1. DaemonTypeOK'
      BY <2>9, <1>11 DEF FinishStart
    <3>2. MainKnown'
      BY <2>9, <1>11, MainAssumption DEF FinishStart
    <3> QED
      BY <3>1, <3>2
  <2> QED
    BY <1>11, <2>1, <2>2, <2>3, <2>4, <2>5, <2>6, <2>7, <2>8, <2>9 DEF StartStep
<1>12. ASSUME NEW c \in Callers, StopStep(c), phase \notin Ended, phase' = phase
       PROVE  Control'
  <2>1. CASE MarkRestarting(c)
    BY <2>1, <1>12 DEF MarkRestarting
  <2>2. CASE RaiseFlag(c)
    BY <2>2, <1>12 DEF RaiseFlag
  <2>3. CASE CancelRetryTimer(c)
    BY <2>3, <1>12, MainAssumption DEF CancelRetryTimer
  <2>4. CASE LookupNothing(c)
    BY <2>4, <1>12 DEF LookupNothing
  <2>5. CASE LookupRunning(c)
    BY <2>5, <1>12 DEF LookupRunning
  <2>6. CASE MarkStopping(c)
    BY <2>6, <1>12 DEF MarkStopping
  <2>7. CASE Kill(c)
    BY <2>7, <1>12 DEF Kill
  <2>8. CASE Forget(c)
    BY <2>8, <1>12 DEF Forget
  <2>9. CASE ClearStart(c)
    BY <2>9, <1>12 DEF ClearStart
  <2>10. CASE FinishStop(c)
    BY <2>10, <1>12, MainAssumption DEF FinishStop
  <2>11. CASE LowerFlag(c)
    BY <2>11, <1>12, MainAssumption DEF LowerFlag
  <2> QED
    BY <1>12, <2>1, <2>2, <2>3, <2>4, <2>5, <2>6, <2>7, <2>8, <2>9, <2>10, <2>11
       DEF StopStep
<1>13. ASSUME NEW p \in Pids, Watching(p)
       PROVE  Control'
  <2> USE DEF Watching
  <2>1. CASE SwallowExit(p)
    BY <2>1, <1>13 DEF SwallowExit, Watch
  <2>2. CASE NoticeExit(p)
    BY <2>2, <1>13 DEF NoticeExit, Watch
  <2>3. CASE IgnoreReplaced(p)
    BY <2>3, <1>13 DEF IgnoreReplaced, Watch
  <2>4. CASE ConfirmPid(p)
    BY <2>4, <1>13 DEF ConfirmPid, Watch
  <2>5. CASE WatcherForget(p)
    BY <2>5, <1>13 DEF WatcherForget, Watch
  <2>6. CASE WatcherClearStart(p)
    BY <2>6, <1>13 DEF WatcherClearStart, Watch
  <2>7. CASE CountExit(p)
    BY <2>7, <1>13 DEF CountExit, Watch
  <2>8. CASE SpawnTimer(p)
    BY <2>8, <1>13, MainAssumption, PidsAssumption DEF SpawnTimer
  <2>9. CASE StoreTimer(p)
    BY <2>9, <1>13 DEF StoreTimer, Watch
  <2> QED
    BY <1>13, <2>1, <2>2, <2>3, <2>4, <2>5, <2>6, <2>7, <2>8, <2>9 DEF WatcherStep
<1>14. ASSUME NEW p \in Pids, Retrying(p)
       PROVE  Control'
  <2> USE DEF Retrying
  <2>1. CASE TimerWakes(p)
    BY <2>1, <1>14 DEF TimerWakes
  <2>2. CASE TimerStopped(p)
    BY <2>2, <1>14 DEF TimerStopped
  <2>3. CASE TimerRestarts(p)
    BY <2>3, <1>14 DEF TimerRestarts
  <2>4. CASE TimerConfigLost(p)
    BY <2>4, <1>14 DEF TimerConfigLost
  <2> QED
    BY <1>14, <2>1, <2>2, <2>3, <2>4 DEF TimerStep
<1>15. ASSUME NEW p \in Pids, Exiting(p)
       PROVE  Control'
  BY <1>15 DEF Exiting, ChildExits
<1> QED
  BY <1>1, <1>2, <1>3, <1>4, <1>5, <1>6, <1>7, <1>8, <1>9, <1>10, <1>11, <1>12,
     <1>13, <1>14, <1>15
     DEF DaemonStep, CallStep

\* Each step keeps what each task knows true, and every process accounted for.
LEMMA KnowledgeStep ==
    ASSUME DaemonInv, DaemonStep, HistoryGrows
    PROVE  Knowledge'
<1> USE DEF DaemonInv, DaemonTypeOK, MainKnown, CrossedRecorded, Born,
            StartOwnsChild, TimersOnce, StartKnows, StopKnows, ExitSeen,
            Accounted, MainStops, Knowledge, HistoryGrows, Crossed, Passed,
            Placing, Removing, Starting, ShuttingDown, Ended, Callers,
            Operations, StartLabels, StopLabels, CallLabels, WatcherBusy,
            WatcherOver, maps, osVars, callVars, vars, Goto, Step, Leave,
            ReturnFromStart, SetProcess, SetRetries, SetStart, SetPending,
            SetStopping, SetTimer
<1>1. CASE AutoStart
  BY <1>1 DEF AutoStart, Receive, FirstLabel
<1>2. CASE NoAutoStart
  BY <1>2 DEF NoAutoStart
<1>3. CASE AutoStarted
  BY <1>3 DEF AutoStarted
<1>4. CASE ListServices
  <2>1. /\ Born' /\ StartOwnsChild' /\ TimersOnce'
        /\ StartKnows' /\ StopKnows' /\ ExitSeen'
    BY <1>4 DEF ListServices
  <2>2. Accounted'
    BY <1>4 DEF ListServices
  <2>3. MainStops'
    BY <1>4, MainAssumption, PidsAssumption DEF ListServices
  <2> QED
    BY <2>1, <2>2, <2>3
<1>5. CASE CancelThenStop
  <2>1. /\ pc[Main] = "stopAll" /\ pc'[Main] = "raiseFlag"
        /\ \A d \in Callers \ {Main} :
             pc'[d] # pc[d] => pc[d] = "sleeping" /\ pc'[d] = "finished"
    BY <1>5, MainAssumption DEF CancelThenStop, FirstLabel
  <2>2. UNCHANGED <<processes, child, watcher, target, phase>>
    BY <1>5 DEF CancelThenStop
  <2>3. Born' /\ StartOwnsChild' /\ TimersOnce'
    BY <2>1, <2>2
  <2>4. StartKnows'
    BY <2>1, <2>2
  <2>5. StopKnows'
    BY <2>1, <2>2
  <2>6. ExitSeen'
    BY <2>1, <2>2
  <2>7. Accounted'
    BY <2>1, <2>2
  <2>8. MainStops'
    BY <2>1, <2>2
  <2> QED
    BY <2>3, <2>4, <2>5, <2>6, <2>7, <2>8
<1>6. CASE StopAllReturns
  BY <1>6 DEF StopAllReturns
<1>7. CASE DropRuntime
  BY <1>7 DEF DropRuntime
<1>8. CASE Exit
  BY <1>8 DEF Exit
<1>9. CASE EndsEarly
  BY <1>9 DEF EndsEarly
<1>10. ASSUME NEW h \in Handlers \ {Main}, NEW request \in Requests,
              Serve(h, request)
       PROVE  Knowledge'
  BY <1>10, RequestsAssumption DEF Serve, Receive, FirstLabel
<1>11. ASSUME NEW c \in Callers, StartStep(c), phase \notin Ended, phase' = phase
       PROVE  Knowledge'
  <2>1. CASE RefuseStart(c)
    BY <2>1, <1>11, MainAssumption DEF RefuseStart
  <2>2. CASE AcceptStart(c)
    BY <2>2, <1>11 DEF AcceptStart
  <2>3. CASE MarkStarting(c)
    BY <2>3, <1>11 DEF MarkStarting
  <2>4. CASE Spawn(c)
    BY <2>4, <1>11, NextPidIsNew, ExitKindsAssumption DEF Spawn
  <2>5. CASE SpawnFails(c)
    BY <2>5, <1>11, PidsAssumption DEF SpawnFails
  <2>6. CASE Register(c)
    <3>1. Born' /\ StartOwnsChild' /\ TimersOnce'
      BY <2>6, <1>11 DEF Register
    <3>2. StartKnows'
      BY <2>6, <1>11 DEF Register
    <3>3. StopKnows'
      BY <2>6, <1>11 DEF Register
    <3>4. ExitSeen'
      BY <2>6, <1>11, PidsAssumption DEF Register
    <3>5. Accounted'
      BY <2>6, <1>11, PidsAssumption DEF Register
    <3>6. MainStops'
      BY <2>6, <1>11 DEF Register
    <3> QED
      BY <3>1, <3>2, <3>3, <3>4, <3>5, <3>6
  <2>7. CASE ResetRetries(c)
    BY <2>7, <1>11 DEF ResetRetries
  <2>8. CASE StampStart(c)
    BY <2>8, <1>11 DEF StampStart
  <2>9. CASE FinishStart(c)
    BY <2>9, <1>11, MainAssumption DEF FinishStart
  <2> QED
    BY <1>11, <2>1, <2>2, <2>3, <2>4, <2>5, <2>6, <2>7, <2>8, <2>9 DEF StartStep
<1>12. ASSUME NEW c \in Callers, StopStep(c), phase \notin Ended, phase' = phase
       PROVE  Knowledge'
  <2>1. CASE MarkRestarting(c)
    BY <2>1, <1>12 DEF MarkRestarting
  <2>2. CASE RaiseFlag(c)
    BY <2>2, <1>12 DEF RaiseFlag
  <2>3. CASE CancelRetryTimer(c)
    <3>1. \A d \in Callers :
             pc'[d] # pc[d] => /\ pc[d] \in {"cancelTimer", "sleeping"}
                               /\ pc'[d] \in {"lookup", "finished"}
      BY <2>3 DEF CancelRetryTimer
    <3>2. UNCHANGED <<processes, child, watcher, target, phase>>
      BY <2>3, <1>12 DEF CancelRetryTimer
    <3>3. Born' /\ StartOwnsChild' /\ TimersOnce'
      BY <2>3, <1>12, <3>1, <3>2 DEF CancelRetryTimer
    <3>4. StartKnows'
      <4>1. ASSUME NEW d \in Callers, Placing(d)'
            PROVE  processes \in {None} \cup crossed'
        BY <3>1, <4>1
      <4> QED
        BY <4>1, <3>2
    <3>5. StopKnows'
      BY <2>3, <1>12, <3>1, <3>2 DEF CancelRetryTimer
    <3>6. ExitSeen'
      BY <2>3, <1>12, <3>1, <3>2 DEF CancelRetryTimer
    <3>7. Accounted'
      <4>1. \A d \in Callers : pc[d] = "register" <=> pc'[d] = "register"
        BY <3>1
      <4> QED
        BY <4>1, <3>2
    <3>8. MainStops'
      BY <2>3, <1>12, <3>1, <3>2, MainAssumption DEF CancelRetryTimer
    <3> QED
      BY <3>3, <3>4, <3>5, <3>6, <3>7, <3>8
  <2>4. CASE LookupNothing(c)
    BY <2>4, <1>12, PidsAssumption DEF LookupNothing
  <2>5. CASE LookupRunning(c)
    BY <2>5, <1>12 DEF LookupRunning
  <2>6. CASE MarkStopping(c)
    BY <2>6, <1>12 DEF MarkStopping
  <2>7. CASE Kill(c)
    BY <2>7, <1>12, ExitKindsAssumption DEF Kill
  <2>8. CASE Forget(c)
    BY <2>8, <1>12, ExitKindsAssumption DEF Forget
  <2>9. CASE ClearStart(c)
    BY <2>9, <1>12 DEF ClearStart
  <2>10. CASE FinishStop(c)
    BY <2>10, <1>12 DEF FinishStop
  <2>11. CASE LowerFlag(c)
    BY <2>11, <1>12 DEF LowerFlag
  <2> QED
    BY <1>12, <2>1, <2>2, <2>3, <2>4, <2>5, <2>6, <2>7, <2>8, <2>9, <2>10, <2>11
       DEF StopStep
<1>13. ASSUME NEW p \in Pids, Watching(p)
       PROVE  Knowledge'
  <2> USE DEF Watching
  <2>1. CASE SwallowExit(p)
    BY <2>1, <1>13 DEF SwallowExit, Watch
  <2>2. CASE NoticeExit(p)
    BY <2>2, <1>13 DEF NoticeExit, Watch
  <2>3. CASE IgnoreReplaced(p)
    BY <2>3, <1>13 DEF IgnoreReplaced, Watch
  <2>4. CASE ConfirmPid(p)
    BY <2>4, <1>13 DEF ConfirmPid, Watch
  <2>5. CASE WatcherForget(p)
    BY <2>5, <1>13, ExitKindsAssumption DEF WatcherForget, Watch
  <2>6. CASE WatcherClearStart(p)
    BY <2>6, <1>13 DEF WatcherClearStart, Watch
  <2>7. CASE CountExit(p)
    BY <2>7, <1>13 DEF CountExit, Watch
  <2>8. CASE SpawnTimer(p)
    BY <2>8, <1>13, MainAssumption, PidsAssumption DEF SpawnTimer
  <2>9. CASE StoreTimer(p)
    BY <2>9, <1>13 DEF StoreTimer, Watch
  <2> QED
    BY <1>13, <2>1, <2>2, <2>3, <2>4, <2>5, <2>6, <2>7, <2>8, <2>9 DEF WatcherStep
<1>14. ASSUME NEW p \in Pids, Retrying(p)
       PROVE  Knowledge'
  <2> USE DEF Retrying
  <2>1. CASE TimerWakes(p)
    BY <2>1, <1>14 DEF TimerWakes
  <2>2. CASE TimerStopped(p)
    BY <2>2, <1>14 DEF TimerStopped
  <2>3. CASE TimerRestarts(p)
    BY <2>3, <1>14 DEF TimerRestarts
  <2>4. CASE TimerConfigLost(p)
    BY <2>4, <1>14 DEF TimerConfigLost
  <2> QED
    BY <1>14, <2>1, <2>2, <2>3, <2>4 DEF TimerStep
<1>15. ASSUME NEW p \in Pids, Exiting(p)
       PROVE  Knowledge'
  BY <1>15, ExitKindsAssumption DEF Exiting, ChildExits
<1> QED
  BY <1>1, <1>2, <1>3, <1>4, <1>5, <1>6, <1>7, <1>8, <1>9, <1>10, <1>11, <1>12,
     <1>13, <1>14, <1>15
     DEF DaemonStep, CallStep


LEMMA DaemonInvStep == DaemonInv /\ [DaemonNext]_daemonVars => DaemonInv'
<1> SUFFICES ASSUME DaemonInv, [DaemonNext]_daemonVars
             PROVE  DaemonInv'
  OBVIOUS
<1>1. CASE DaemonNext
  <2>1. DaemonStep /\ HistoryGrows
    BY <1>1, StepIsRecorded
  <2>2. Control' /\ Knowledge'
    BY <2>1, ControlStep, KnowledgeStep
  <2>3. CrossedRecorded'
    BY <2>1, <2>2
       DEF DaemonInv, CrossedRecorded, HistoryGrows, Knowledge, StartOwnsChild,
           Starting
  <2> QED
    BY <2>2, <2>3 DEF Control, Knowledge, DaemonInv
<1>2. CASE UNCHANGED daemonVars
  BY <1>2 DEF daemonVars, vars, maps, osVars, callVars, DaemonInv, DaemonTypeOK,
       MainKnown, CrossedRecorded, Born, StartOwnsChild, TimersOnce, StartKnows,
       StopKnows, ExitSeen, Accounted, MainStops, Crossed, Passed, Placing,
       Removing, Starting
<1> QED
  BY <1>1, <1>2

THEOREM DaemonLifecycle == DaemonSpec => []DaemonInv
BY DaemonInvInit, DaemonInvStep, PTL DEF DaemonSpec

\* Whatever requests, exits, retries and failures precede the signal and overlap
\* each other and the shutdown, a process outlives the daemon only if, before it
\* was registered, another task was between its look at the map of processes
\* and its write, or stop_all was past the service.
THEOREM ShutdownLeavesCrossed == DaemonSpec => []SurvivorsAreCrossed
<1>1. DaemonInv => SurvivorsAreCrossed
  BY PidsAssumption DEF DaemonInv, SurvivorsAreCrossed, Accounted, MainStops,
     CrossedRecorded, Crossed, Passed
<1> QED
  BY <1>1, DaemonLifecycle, PTL

\* In every interleaving, a second process of the service comes to live beside
\* another only if one of the two was crossed in that way: no longer sequence
\* of starts, stops, exits and retries brings it about.
THEOREM SecondIsCrossed == DaemonSpec => []TwoLiveOnlyIfCrossed
<1>1. DaemonInv => TwoLiveOnlyIfCrossed
  <2> SUFFICES ASSUME DaemonInv, NEW p \in Pids, NEW q \in Pids,
                      child[p] = "alive", child[q] = "alive",
                      p \notin crossed, q \notin crossed
               PROVE  p = q
    BY DEF TwoLiveOnlyIfCrossed
  <2> USE DEF DaemonInv
  <2>1. ASSUME NEW c \in Callers, pc[c] = "register", target[c] \in {p, q}
        PROVE  processes \notin {p, q}
    BY <2>1, PidsAssumption DEF StartKnows, Placing
  <2>2. ASSUME NEW c \in Callers, NEW d \in Callers,
               pc[c] = "register", target[c] \in {p, q},
               pc[d] = "register", target[d] \in {p, q}
        PROVE  c = d
    BY <2>2 DEF CrossedRecorded, Crossed, Placing
  <2> QED
    BY <2>1, <2>2 DEF Accounted
<1> QED
  BY <1>1, DaemonLifecycle, PTL
=============================================================================
