# RustDaemon in TLA+

TLA+ modules, TLC configurations and TLAPS proofs for RustDaemon, a daemon that
supervises services: it starts them through the shell, restarts them after
abnormal exits, stops their process trees, writes their logs, and takes its
orders from an HTTP API with signed requests and from a Web UI with sessions.
Paths below are relative to the repository (`src/` is its root).

## 1. The system

| Component | Source | State it keeps | Operations |
|---|---|---|---|
| Service manager | `src/service_manager.rs` | per service name: `processes` (pid), `retry_counts`, `start_times`, `pending_ops`, `stopping` (a set of names), `retry_timers` (task handles), `loggers`; each map in a mutex of its own | `start`, `stop`, `force_stop`, `restart`, `stop_all`, `get_detailed_status`; per process an exit watcher and two output pumps; per failure a retry timer |
| Service definitions | `src/config.rs` | one JSON file per service | load (every request, every retry), save, delete, list |
| Service log | `src/logger.rs` | per service a directory: `current.log` and one log per date | `open` (merge, truncate, clean up), `write` |
| Daemon API | `src/daemon_server.rs` | none | `service_control`, `service_status`, `status_all`, `os_status`, each behind a signature check |
| Web UI server | `src/webui_server.rs` | `sessions`, `csrf_tokens`, `login_attempts`, `cache`, each in a mutex of its own | login (rate limited), logout, service actions, create / edit / delete, static files, an hourly clean-up |
| Daemon life cycle | `src/main.rs` | how far `run` has come | auto-start in order of priority, serving, shutdown by `stop_all`, drop of the runtime |
| Process tree | `src/service_manager.rs` | the processes below the shell of a service, and the stack of a recursive walk | `kill_process_tree` |
| Static files | `src/webui_server.rs` | `cache`: per path a content and its modification time | `serve_file` |
| System status | `src/os_status.rs` | none | a snapshot of operating system counters |
| Helpers | `src/util.rs` | none | clock, cookies, MIME types, responses |
| Front end | `webui/` | browser state | rendering what the API returns |

How they interact: both HTTP servers and `main` call the service manager
directly, on the worker threads of one Tokio runtime (up to four).  `start`,
`stop` and the others are synchronous; what they leave behind are tasks (watcher,
pumps, retry timer) that call back into the manager: the retry timer loads the
definition again and calls `start`.  The Web UI checks the status of a service
before it changes the definition that the next `start` will load.  The manager
creates a `ServiceLogger` for every start; the pumps of the previous process keep
the previous logger.

What is hard here, and what would make each component correct:

* **Service manager.**  No operation holds two of the maps' mutexes, so each operation is
  a sequence of critical sections that interleaves with every other request,
  watcher and timer of the same service; entries are looked up in one section and
  removed *by name* in another; `stopping` is a flag of the name that is meant for
  one process; a timer can be aborted only while its handle is stored.  Correct
  means: one process per service at a time; the status is true when nothing is in
  flight; every exit is noticed; a failure is retried within its budget, and a
  service that was stopped is not; no operation is shown as in flight for good.
* **Definitions.**  Check-then-write against concurrent calls and editors; files
  written in place.  Correct means: a running service runs its definition;
  creation never overwrites.
* **Rate limiter.**  A clock that is read outside the lock and may be set back; a
  clean-up by another criterion than the end of the block; a fixed window.
  Correct means: a block lasts; attempts are bounded over any period; a
  block is earned.
* **Service log.**  Rotation in several file system calls against writers of older
  loggers, and failing calls whose results are dropped.  Correct means: no line is
  lost before its retention is over, duplicated or reordered.
* **Sessions.**  Login, expiry, logout and clean-up change two maps, in up to two
  critical sections, and decide by a wall clock that may be set back.  Correct means: a
  session that is over stays over, one that is not is honoured together with its
  token, and both are dropped in the end.
* **Life cycle.**  `stop_all` works on a copy of the registered names while both
  servers still serve requests and watchers and timers still run.  Correct
  means: the shutdown ends, and nothing it could know of outlives the daemon.
* **Process tree.**  The walk asks `ps` for the children of one process at a time while the tree
  forks, exits and is adopted.  Correct means: the walk ends, the shell dies, and what
  survives was out of the walk's reach.
* **Static files.**  The modification time is looked up before the lock and the content read
  under it.  Correct means: no response is older than its request.

`PROJECT.json` lists the hazards one by one, at the lines where they bite, with
the properties that cover them.

## 2. Modules

| Module | Models | Extends |
|---|---|---|
| `ServiceManager` | all of `start`, `stop`, `force_stop`, `restart`, watcher and retry timer, one service name | |
| `SerialServiceManager` | the same under schedules without overlap; the properties the documentation promises | `ServiceManager` |
| `Supervisor` | the abstract specification: what the daemon promises about one service | |
| `StopIntent` | history variables: is the service wanted, was a client impatient | `SerialServiceManager` |
| `Daemon` | `run` and `stop_all`, composed with the manager | `ServiceManager` |
| `ProcessTree` | `kill_process_tree` over one service's processes | |
| `ServiceDefinitions` | the manager composed with the definition file and its editors | `SerialServiceManager` |
| `LoginLimiter` | the rate limiter of one client address | |
| `LoginBlocks` | history variables: the last block and the grants of a window | `LoginLimiter` |
| `ServiceLogger` | the log directory of one service | |
| `LogLosses` | history variables: the lines there is a reason to have lost, and those that may be merged again | `ServiceLogger` |
| `WebUiSessions` | sessions and CSRF tokens of one session id | |
| `StaticFiles` | `serve_file` and its cache for one file | |
| `MC*` | finite instances: symmetry sets and sets of configs | |
| `ServiceManagerProofs`, `LoginLimiterProofs`, `WebUiSessionsProofs`, `StaticFilesProofs`, `ProcessTreeProofs`, `ServiceLoggerProofs` | theorems and proofs | the module of that name; `LoginBlocks` for the limiter, `LogLosses` for the logger |
| `SerialServiceManagerProofs` | theorems and proofs about serial schedules, the refinement, and the history variables of `StopIntent` | `StopIntent`, `ServiceManagerProofs` |
| `CompositionProofs` | theorems and proofs about definitions and about the daemon | `ServiceDefinitions`, `Daemon`, `ServiceManagerProofs` |

An operator described by "Mutant of X" is X with a plausible bug; it takes part in
no specification.  It documents which bug a property would catch, and
`PROJECT.json` pairs it with the run that does.

### 2.1 ServiceManager

*State.*  Every map of the manager is keyed by the service name and no operation reads
an entry of another name, so the module keeps one entry of each map, under the name of the map.
`child` is the operating system's view of each process (`unborn`, `alive`, or the
kind of its exit), `config` what it was started with; `watcher` the program
counter of its exit watcher; `pc`, `op` and `target` are the program counter, the operation
and the local `pid` of each *caller*: a handler of either HTTP server, or a
retry timer.  A watcher schedules at most one timer, so timers are named after
the process whose exit scheduled them.

*Actions.*  One per critical section, in program order, each on exactly one map:
`Goto` labels play the role of line numbers.  `RefuseStart` ... `FinishStart` are
`start`; `MarkRestarting` ... `LowerFlag` are `stop`, `force_stop` and `restart`,
which have one skeleton and differ in where `Step` leads; `SwallowExit` ...
`StoreTimer` are the watcher; `TimerWakes` ... `TimerConfigLost` the retry timer,
whose `start` is the callers' `start` with `op = "retry"`.

*Abstractions.*
* The `loggers` map is left out: it decides only where lines are written
  (`ServiceLogger` has the loggers).  `loggers` is locked together with a logger's
  own mutex, never with another map.
* `Kill` is the effect of the TERM and KILL passes on the root of the tree, which
  end with SIGKILL: the root is dead afterwards.  The children of the shell are
  signalled before the shell, which may thus end with any kind of exit.
* A process ends `clean` (code 0), `signalled` (SIGTERM or SIGKILL) or `failed`;
  a wait error leaves code and signal empty, which the code takes for abnormal.
* `FinishStart` includes the spawn of the watcher task: a task that has not run
  cannot be told from one that does not exist.  `TimerRestarts` includes the load
  of the definition, which touches no map; `ServiceDefinitions` has the file.
* An abort takes effect at an await point, and the timer's only one is its sleep:
  `CancelRetryTimer` ends the stored timer if it still sleeps and has no effect on one that is awake.
* Processes are used in a fixed order (`NextPid`); pids are not reused.

### 2.2 Supervisor, and how the manager implements it

`Supervisor` knows who is asking for a start, whether the service is `up`, how many
`failures` it had since a client last started it, and which retries are `due`.
Only a client or a due retry brings it up; only a client's start forgives
failures; a failure makes a retry due only within the budget; a due retry is taken
at most once, or dropped.

`SerialServiceManager` implements it (`ImplementsSupervisor`) under a mapping that
says when an operation of several critical sections counts:

* `ServiceUp`: a process is registered and no start is before its `resetRetries`,
  or a watcher has confirmed an exit and not yet decided about it.  A start thus
  takes effect together with the reset, and an exit together with the decision.
* `Failures`: `retryCounts`, less one while the watcher that has just raised
  it has not scheduled its timer (`spawnTimer`).
* `RetriesDue`: the timers that sleep, wake or start, up to the registration.

The mapping is one of the serial schedules.  Under `Spec` the refinement fails
with `AtMostOneLive`, as two starts may both take effect.

### 2.3 ServiceDefinitions

The definition file is a config, missing, `Empty` (truncated and not written yet)
or `Mangled` (a short content written over a longer one).  `ReceiveLoaded` is a
request that loaded it, `CallLoaded` the manager's call that spawns from what was
loaded, `RetryLoaded` the retry timer's load.  An editor goes through the
checks of `service_new`, `service_edit` or `service_delete` and then truncates,
writes or removes the file.  A config is what the manager looks at, `retry` and
`maxRetries`; two configs of different retries stand for any edit.

### 2.4 LoginLimiter

Time is in units of the model; `BlockDuration` is `LOGIN_BLOCK_DURATION_MS`, which
is also the length of a window.  A login and the clean-up read the clock (`ReadClock`) and decide later
under the lock.  `Adjustable` says whether the wall clock may be set back.

### 2.5 ServiceLogger

A step is a file system call; the clock counts days.  `Write` may happen at any time, as
the pumps of an earlier process have a logger and a mutex of their own.  `List` to
`Close` are the clean-up: it lists the dated logs (`entries`), looks at each in some
order and removes it in a step of its own (`FindOld`, `Remove`).  The code takes the time once for
the whole clean-up; a log that nobody has modified since is as old then as if it had been looked at
then, and one that somebody has modified since is too young either way.  A chunk of
output is one line.  Ages are differences of days, where the code
counts whole periods of 24 hours and may thus keep a file for part of a day more.
A directory entry that cannot be looked at or removed stays, which loses nothing, and is left out.

Three calls of a rotation may fail (`Faults`).  If `current.log` cannot be read, or is no UTF-8, the
rotation ends (`ReadFails`).  If the dated log cannot be opened or written, `current.log` is emptied
nevertheless (`MergeFails`).  If it cannot be emptied, the merged lines stay and are merged
again at the next opening (`TruncateFails`).  A merge that is written in part,
which loses the rest as `MergeFails` loses all, and a line that `write` cannot append, which never
was in any log, are left out.
`RepeatsBounded` keeps `TruncateFails` from filling a dated log with copies without end.

### 2.6 Daemon

`phase` is how far `run` has come: `booting` (the listeners are bound one by one),
`autostart`, `serving`, `stopping` (in `stop_all`), `leaving`, `dropping` (the runtime is being
dropped: no task is polled again, but a worker finishes the one it is in) and `exited`, or
`killed` if `EndsEarly`.  `Main` is a handler of the manager that makes the calls of
`run`.  `Main`, the requests, the watchers and the timers interleave freely, as in
`ServiceManager`, so what `ConcurrentStarts` shows can happen here too.
The services `stop_all` stops before and after this one only take time, which the
label `stopAll` allows for: the list may be old when the service's turn comes.

Which processes no stop can be held to is said by the history variable `crossed`.  A start is
*crossed* if at some moment between its spawn and its registration another start is past its check
and not registered yet (`Placing`), a stop, a restart or a watcher is between its look at the map
and its removal (`Removing`, `forget`), or `stop_all` is past the service (`Passed`).  Its process is then
recorded.  `SurvivorsAreCrossed` and `TwoLiveOnlyIfCrossed` say that these are the only
processes that outlive the daemon or live beside another one: whatever goes wrong begins with
an overlap of exactly these sections.

### 2.7 ProcessTree

`walk` is the stack of `kill_process_tree`: per call its pid and the children still
to be walked.  A call asks `ps`, descends into the children and then signals.
SIGTERM (`Terminate`) may end a process at once, later, or never; SIGKILL (`Kill`)
ends it.  The orphans of a process that ends are adopted by `Reaper`.  The initial
states are all trees of up to four processes, some of them already adopted, as
`stop` (pass `term`, then `kill`) or `force_stop` (`kill` only) may find them.  Pids are not
reused.  `RootDies` is what justifies `Kill` of `ServiceManager`, which kills the
shell in one step.  The Windows branch, which hands the tree to `taskkill`, is left out.

### 2.8 WebUiSessions

Both maps are keyed by the id a login draws at random, and the clean-up decides on
each entry by itself, so the module follows one session.  `DrawSession` to `InsertToken` is
`create_session`; `Arrive` to `AcceptToken` are `require_auth` and `verify_csrf`, which
every request passes; a logout then removes both entries, in two sections.
`RefuseExpired` is the only section that holds both mutexes.  The client sends the cookies it
was given.  The clock moves by any amount and may be set back.

### 2.9 StaticFiles

`Stat` is `fs::metadata`, before the lock; `Miss`, `Read` and `Insert` hold it.  The
file changes between any two system calls; `clash` records whether two contents
had the same modification time, the one case an entry cannot be told to be stale.

## 3. Runs

`Handlers`, `Pids`, `Openers` and the like are small sets of model values.  All
runs disable the deadlock check: an instance stops when it has used its
processes, days or lines, and the system itself may be idle for ever.

| Run | Shows | Bounds, and why they are enough |
|---|---|---|
| `Interleavings` | type correctness and the five invariants that hold in every interleaving | 2 handlers, 2 processes with watchers and timers, failing spawns and lost definitions: every pair of tasks can overlap, and an old process can overlap a new one.  5.7 million states |
| `Serial` | when tasks do not overlap: one process at a time, a true status, no flag left behind, a known uptime, no restart after a stop unless a client started the service while it awaited a retry; and the manager implements `Supervisor` | 1 handler, 3 processes: a failure, its retry, and a requested start after both; all operations, exits and faults; definitions with and without retries and budgets of 0 and 1, so that a budget can be used up, exceeded and renewed.  2.5 million states |
| `Progress` | every exit is seen, every operation shown in flight is cleared; a failure that has retries left when its watcher comes to count it leads to a registered process, unless a stop or restart is asked for (`StopAsked`) | 1 handler that starts and stops against 3 watchers and 3 timers, which call `start` too; budget of 2, so that the first and the second retry of a service are both followed; no injected fault, as a failed spawn does drop the retry (`service_manager.rs:271`), but a start that finds no process left fails.  That a restart clears what it shows is in `PendingHasOwner`.  1.2 million states |
| `EditsApart` | a registered service runs the definition of its file, if edits and calls do not overlap | 2 editors that may overlap each other, 2 processes, so that a retry follows an edit; two definitions |
| `LimiterBlocks` | a block lasts its full duration and is imposed for enough attempts only, the clean-up never removes an address that is blocked at the time it decides by, no window grants too much, and windows do not overlap unless a login lags by more than a block | 2 logins and the clean-up, clock 0..9 with blocks of 2 units and 2 attempts: several windows, blocks and clean-ups.  0.2 million states |
| `LogRotation` | a line is lost only by a failing merge or a write during a rotation; none is repeated or out of order but those that a failed truncation left in `current.log`; the clean-up removes none early | 1 opener, 4 days, 4 lines, retention of 1 day, every fault: a line is merged, ages and is removed while later lines rotate, and is merged again after a failed truncation (`RepeatsBounded`: while the dated log has no more lines than were ever written).  Openers that overlap are the subject of the theorems.  3.1 million states |
| `Shutdown` | after a handled signal only a crossed process outlives the daemon, or lives beside another one; every shutdown ends | 1 handler besides `Main`, 2 processes with watchers and timers, requests to start, which are what a shutdown could wait for; `Main` stops and the watchers remove: every pair of a start, a retry, a watcher and `run` can overlap, and one process can hide another.  The theorems are for all requests.  0.5 million states |
| `KillTree` | the shell dies; every survivor left the tree, was forked behind the walk or lives below one that did; the walk ends | every tree of at most 4 processes: a child, a grandchild and one forked or adopted meanwhile.  0.1 million states |
| `Sessions` | a session that is over stays over; one that is not keeps its token; it lasts; tokens outlive only what the clean-up drops; expired sessions are removed | 3 handlers (a login or logout, an expiry and a late request), sessions of 2 units on a clock 0..4 that is also set back: a session expires, and un-expires, before and after its clean-up.  1.3 million states |
| `StaticCache` | unless two contents share a modification time, no response is older than its request, and an entry of the file's time has the file's content | 2 requests, 4 contents, 4 modification times in any order: both requests' look-ups and reads can each be separated by a change.  1.7 million states |

Two runs end in a counterexample.  Each states what the documentation says and is
recorded under `findings` with the quote:

| Run | What happens |
|---|---|
| `ConcurrentStarts` | two starts both pass the check; two processes live, one out of reach |
| `RestartAfterStop` | start during a pending retry, second failure, stop: a timer survives and starts the service |

Deviations from documentation and comments without a run of their own:

* `README.md:17` of the repository promises no restart after a stop.  A watcher that has seen an abnormal exit
  (`service_manager.rs:233`) and has not stored its retry timer (`service_manager.rs:274`) is out of
  reach of a stop: the stop finds no timer to cancel and, once the process is unregistered,
  nothing to stop, and lowers the flag (`service_manager.rs:290`); the retry then finds the flag
  down (`service_manager.rs:267`) and starts the service.  A timer that is awake when the stop
  comes tests the flag too late in the same way.  `StopIsFinal` is checked and proved where tasks do not overlap.
* `docs/webui.md:140` says that an edit is blocked while the service runs.  An edit that looks at the status
  before a start shows (`webui_server.rs:410`) and writes after the start has loaded the
  file leaves a service that runs the old definition.  `RunsItsDefinition` is checked and proved where edits and calls do not overlap.
* `docs/webui.md:29` says that failed logins block an address.  Every login counts
  (`webui_server.rs:160`), before the password is looked at, and no success resets the count: after five
  logins with the right password within a minute the sixth is refused.  `BlocksAreEarned` counts attempts of either outcome.
* Under `Spec`, where tasks overlap, `RunningIsTrue`, `FlagIsLowered` and
  `DurationIsKnown` fail as well: `stop` removes the pid and the start time by name
  in two critical sections (`service_manager.rs:303`, `304`), and a watcher or
  another call may have changed either in between.  A stop that finds the pid of a process whose
  watcher is past the flag (`service_manager.rs:233`) leaves the flag up, which the comment at
  `service_manager.rs:289` wants to avoid, and the exit of a later process is swallowed.  A watcher that compares the pid and
  then removes by name (`service_manager.rs:237`, `241`) may remove a process that a stop and a start
  have put there since; the exit of that process is then ignored, as if it had
  been replaced, and a failure of it is not retried (`service_manager.rs:236`).
* `docs/technical.md:116` says that on a rollover the content of `current.log` is merged
  into the dated log and the file is then truncated; a line that a pump of
  the previous process writes between the read and the truncation (`logger.rs:48`, `60`)
  is lost.  `OnlyExplainedLosses` excepts such lines.  It also excepts lines that one opener merges
  into a dated log that the clean-up of another has found too old and not removed yet
  (`logger.rs:80`, `91`): two concurrent starts can do that, and the lines are then removed within
  their retention.  With two openers `RetentionKept` fails in this way, and `LinesInOrder` because
  both may merge the same lines.  One opener repeats lines if it cannot empty `current.log`
  (`logger.rs:60`): the exception of `LinesInOrder`.
* The header of `main.rs` promises a clean shutdown on SIGINT and SIGTERM.  The handlers are
  installed after the auto-start (`main.rs:136`); a signal before that, or a Web UI port that
  cannot be bound (`main.rs:105`), ends the daemon with what was started until then alive.
  What requests and timers start while `stop_all` runs outlives it too: the exceptions of `SurvivorsAreCrossed`.
* `docs/technical.md:67` says that signals reach the whole process group; the code
  walks `ps --ppid` and misses descendants whose parent is gone
  (`service_manager.rs:62`): the exceptions of `SurvivorsEscaped`.
* The clean-up drops expired sessions but not their tokens (`webui_server.rs:175`): the
  exception of `OnlySweepLeavesTokens`.
* `docs/api.md:125` defines `abnormalExitCount` as counted "since the daemon
  started"; every requested start resets it (`service_manager.rs:213`).
* `docs/webui.md:118` promises `409` for an id that exists; of two concurrent
  creations both may succeed, and the later one overwrites (`webui_server.rs:385`).
* `docs/technical.md:45` speaks of daily rotation; a log rotates only when a logger
  is opened, that is at a start, and lines of several days are merged under the date of
  the last write (`logger.rs:97`).

*Fairness.*  `FairSpec` assumes weak fairness of each handler's call, and of the watchers and timers together:
Tokio polls every ready task, the mutexes are held for bounded sections and never across
an await, and the only timed wait is the one-second sleep.  Nothing is assumed of
clients or of the processes.  Weak fairness of a whole call is enough because a
call is sequential and never waits for another; that *some* watcher or timer that can take a step takes one is
enough because each takes finitely many, one watcher and at most one timer per process.  This is less than
Tokio guarantees.  `FairDaemonSpec` assumes the same of all tasks, and of `run` once the signal has arrived; when it arrives, if
ever, is left open.  `TreeSpec` assumes that the thread that walks is scheduled and that `ps`
answers; `WalkEnds` also rests on the bound of the processes that can be forked.
`SessionSpec` assumes that the clean-up task wakes up again and again, nothing of clients or of the clock.

## 4. Proofs

`ServiceManagerProofs` proves, for all handlers, processes, configs and faults, every
invariant of `Interleavings`: `TypeCorrect` (`TypeOK`), `PendingIsOwned`,
`ChildrenAreWatched`, `RegistrationIsFinal`, `StopKills` and `RetriesAreEarned`.
They rest on the assumptions of the module about its constants only.

Apart from `TypeOK` none of them is inductive by itself.  The inductive invariant `IInv` (theorem
`Lifecycle`) is the conjunction of `TypeOK` and four named parts:

* `WatchInv`: `EveryChildWatched` and `RegistrationFinal`, that only processes that
  exist are registered or watched (`Born`), and that a start that has spawned a process
  is the only caller to know of it, before it has a watcher (`StartOwnsChild`).
  Without the last a second start could register a process whose watcher is done.
* `RetryInv`: `RetryIsEarned`, and what a watcher past its checks knows of its
  process (`ExitDecided`): it has exited, and a retry is scheduled only for a failure.
* `VictimInv`: `StoppedMeansDead`, and that the process a call is about to kill was
  really started (`VictimKnown`).
* `PendingInv`: `PendingHasOwner`, and that only a restart shows "restarting"
  (`MarkedRestart`).

Each part is preserved by every action (`WatchStep`, `RetryStep`, `VictimStep`,
`PendingStep`, one step per action below each) from `IInv` as a whole.

`SerialServiceManagerProofs` is about schedules in which no two tasks overlap, which is where the
documentation's promises hold.  `SerialLifecycle` adds `SerialInv` to `IInv`:

* at most one call or watcher is between its sections (`OneTask`), a call is where its operation
  leads (`OpMatches`);
* what the call or watcher has read stays true while it runs (`CallKnows`, `WatcherKnows`),
  for instance that nothing is registered between a start's check and its registration;
* the registered process has a watcher that will look for it, or a start that is about to
  make one, and no other process is alive (`RegisteredWatched`);
* the flag is up only for a stop that runs, or for the exit that the stop has caused and nobody has
  seen yet (`FlagExplained`); a start time is missing only until the start comes to it (`StartStamped`).

From it follow `NeverTwoLive` (`AtMostOneLive`), `StatusIsTrue` (`RunningIsTrue`), `FlagNotLeftBehind`
(`FlagIsLowered`) and `DurationKnown` (`DurationIsKnown`).  `KeepsPromises` is the refinement
(`SerialSpec => ImplementsSupervisor`): initial states map to initial states (`SupervisorInit`), and each
action of the manager to a step of `Supervisor` or a stutter (`SupervisorStep`, one step per action).
`StopsAreFinal` proves `StopIsFinal` of `IntentSpec`, where a stop counts also if it finds no process but a retry to cancel, with `IntentInv`, which holds as long as no client
was impatient: a retry is awaited only while the service is down and wanted, its timer is
the only one, and its handle is where the next stop looks for it
(`AwaitedAlone`); whoever may bring the service up does so for a service that is wanted (`WantedUp`).

A step of a serial schedule is a step of `ServiceManager` (`SerialIsManager`).  Which part of the lack of
overlap keeps a second process away is the subject of `ApartNeverTwoLive`: in *any* interleaving
`AtMostOneLive` holds as long as no start is between its check and its registration while another start is, or
while a stop or a watcher is between its look at the registered process and its removal
(`UpdatesApart`).  Then what was read of the registered process is still true when it is
acted upon, or that process is gone, and whatever lives is registered or about to be (`UpdatesKnow`).
From the same facts no live process is out of reach of a stop (`ApartInReach`).  Serial schedules satisfy
the hypothesis (`SerialIsApart`).  One lock held over these sections would be enough; flags, timers and counts may be
changed at any moment.  The code has no such lock, so the hypothesis is one about schedules:
`ConcurrentStarts` shows what happens without it.

`CompositionProofs` proves `RunsWhatIsDefined` (`RunsItsDefinition`): while a call is under way nobody
edits and it has loaded what the file has (`LoadedIsCurrent`), and once an editor
has passed its check nothing is registered until it is done (`EditsAreGuarded`).  Calls may overlap
calls and edits may overlap edits there, so the theorem rests on `IInv` alone.  That `IInv`, and all that
is proved of `ServiceManager`, holds beside editors whether or not edits overlap calls is
`DefinitionsKeepManager`: `DefSpec` implements `Spec`.

The same module proves `ShutdownLeavesCrossed` (`SurvivorsAreCrossed`) and `SecondIsCrossed`
(`TwoLiveOnlyIfCrossed`) of `Daemon`, in every interleaving and for any requests, processes,
configs and faults.  `IInv` does not apply there, as `CancelThenStop` is no step of
`ServiceManager`.  The inductive invariant `DaemonInv` (theorem `DaemonLifecycle`)
says of each task what is still true of what it has read, *except* for crossed processes:

* `Main` rests, starts or stops as the phase of `run` says (`MainKnown`), the history misses no
  crossing (`CrossedRecorded`), a start is the only one to know of the process it has
  spawned, and a watcher makes one timer (`Born`, `StartOwnsChild`, `TimersOnce`);
* between a start's check and its registration nothing is registered, or something crossed
  (`StartKnows`); a stop removes what it has killed, or something crossed (`StopKnows`), and a
  watcher what has exited, or something crossed (`ExitSeen`);
* so a live process is registered, about to be, or crossed (`Accounted`); and when `stop_all` is
  past the service, nothing but a crossed process is registered (`MainStops`).

What carries it is that a start cannot register without being crossed while anybody else knows
something that its registration would make untrue.

`LoginLimiterProofs` proves `LimiterInvariant` and `LimiterIsTyped` (types, and that a block ends at
most one block after the end of its window), `CleanUpIsSafe`
(`CleanUpKeepsBlocks`, on any clock) and `BlocksLast` (`BlockHolds`, if the clock
is not set back), for any limits and any number of logins.  `BlockHolds` becomes inductive with
`LimiterInv` and with the fact that every clock reading in use is in the past
(`SeenInPast`); the margin of one block in the clean-up's criterion is what
rules out that it forgets a block.  `BlocksEarned` (`BlocksAreEarned`, on any clock) holds because a
record counts no attempt its window has not granted, unless all were granted already
(`CountIsGranted`).  `GrantsBounded` (`GrantsAreBounded`, if the clock is not set back) needs that the window
opened last is the one of the record, or is over (`WindowKnown`).  Its one exception, a window opened by a
login that took more than a block from its clock reading to the lock, is needed: the clean-up may have
dropped the record of a later window in the meantime.

`ServiceLoggerProofs` proves `OnlyExplainedAreLost` (`OnlyExplainedLosses`) for any number of openers:
what an opener is about to truncate is in its hands or explained (`InHand`, `Spent`), and what
it is about to remove may go (`DoomedMayGo`), since a dated log was last modified after each of its lines was
written (`MergedLast`).  `RetentionIsKept` (`RetentionKept`) and `LinesKeepOrder` (`LinesInOrder`) are for
any number of openers too, but each excludes the one overlap that makes it
false.  The first supposes that no opener merges into a dated log that the clean-up of another has found too
old and not removed yet (`MergesSpareDoomed`); such a log then stays too old until it is
removed, or is gone (`StillOld`).  The second supposes that two openers do not rotate `current.log` at the
same time (`RotationsApart`); the dated logs then hold different lines, all of
them before those of `current.log`; between the copy of `current.log` and its truncation this is true of the
lines that were not copied, and a truncation that fails adds those that were to `repeated`
(`OrderInv`).  Both hypotheses hold when openings do not overlap, as in `LogRotation`.

`WebUiSessionsProofs` proves the four invariants of `Sessions`, for any requests, durations and
clocks.  What makes them inductive (`SessionInv`): one login creates the session and
nobody knows it before it is complete (`OneLogin`, `Created`); a session that is over is
not stored, and nobody inserts it again (`OverIsRemoved`), which is why a clock that
is set back cannot bring it back; what the clean-up drops has expired by the
latest value the clock has had (`SweptIsExpired`).

`StaticFilesProofs` proves both invariants of `StaticCache` (`CacheIsSound`,
`ResponsesAreCurrent`).  The argument of `StaticInv`: every time in use is one that the file has
had (`TimesWereUsed`), so that without a clash the file never gets one of them
again; a content that was read therefore belongs to its time if the file still
has that time (`ReadAgrees`), and a request that finds an entry of its own
time has seen that content in the file (`LookupSees`).

`ProcessTreeProofs` proves `RootIsKilled` (`RootDies`): in a SIGKILL walk the outermost
call on the stack is the root's until the root is dead (`RootIsLast`).  This is
the fact that `Kill` of `ServiceManager`, and with it `StopKills`, assumes of the walk.
`OnlyEscapedSurvive` (`SurvivorsEscaped`) needs an invariant about every call on the stack and not only the
innermost: each living child of a process that has been listed has escaped, is still to be
walked, or is being walked by the next call (`ChildrenAhead`), and whoever has not escaped still has a
living parent (`NotOrphaned`).

The assumptions `NoneAssumption` of both Web UI modules say that `None` is no
value of the program.

Every invariant and every action property of the passing runs is a theorem.  Only model-checked are the
liveness properties, which TLAPS does not handle under fairness, and the two counterexamples, which refute and
prove nothing.  `LimiterBlocks` has a clock that only goes forward;
that the clean-up is safe, and every block earned, on a clock that is set back is shown by the theorems alone.

## 5. Not modelled

* System status (`os_status.rs`), MIME types, cookies, HTTP framing, the signature,
  CORS and the front end keep no state.
* Reading the environment, and the priorities by which several services are auto-started: services
  do not interact, so the order cannot be told apart by any property of one.
* Defaults and clamps of definition fields are abstracted to whether a definition is
  readable and what its retry fields say.
* `get_detailed_status` as shown to a client: it locks four maps in turn, and the edit and delete
  checks, which act on it, are modelled so (`CheckRunning`, `CheckOperation`).
* Bytes: a log line is the unit of `ServiceLogger`.  That a multibyte character which falls on the boundary of
  two chunks of 8192 bytes is replaced by marks (`service_manager.rs:378`) is out of its sight.
* Reuse of a pid between its copy and a signal, and a second life of the
  daemon after a crash: the code keeps no record of its children to recover from.

## 6. Plan

Every component with state of its own is modelled, and every safety property that a passing run checks
is a theorem.  What could follow:

* more than one service in `Daemon`, for the order in which `stop_all` comes to them; the proof of
  `ShutdownLeavesCrossed` is about the one service whose turn it is, and would have to be repeated per name;
* a restart of the daemon, which finds the definition files, the dated logs and perhaps live processes
  of its predecessor, but no session and no record of the limiter;
* if the manager gets a lock per service, `UpdatesApart` becomes an invariant instead of a
  hypothesis, and the run `ConcurrentStarts` has to pass.
