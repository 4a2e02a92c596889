----------------------------- MODULE StopIntent -----------------------------
(***************************************************************************)
(* SerialServiceManager with two history variables: whether the service is *)
(* still wanted, that is, no stop has come to its end since the last start *)
(* or restart request, and whether a client has started it while it        *)
(* awaited a retry, which may then still be pending.                       *)
(***************************************************************************)
EXTENDS SerialServiceManager

VARIABLES wanted, impatient

intentVars == <<vars, wanted, impatient>>

RetryAwaited == \E p \in Pids : pc[p] = "sleeping"

Ask(h, request) ==
    /\ Receive(h, request)
    /\ wanted' = (wanted \/ request \in {"start", "restart"})
    /\ impatient' = (RetryAwaited /\ (impatient \/ request = "start"))

\* A stop or force-stop has nothing left to do but to return; it may have found
\* no process, but a retry to cancel.
StopEnds(c) ==
    \/ pc[c] = "finishStop"
    \/ pc[c] = "lowerFlag" /\ op[c] # "restart"

Proceed(c) ==
    /\ CallStep(c)
    /\ wanted' = (wanted /\ ~StopEnds(c))
    /\ UNCHANGED impatient

IntentInit == Init /\ wanted = FALSE /\ impatient = FALSE

\* Tasks do not overlap, as in SerialServiceManager.
SerialBackground(p) ==
    /\ ChildExits(p) \/ SerialWatcherStep(p) \/ SerialTimerStep(p)
    /\ UNCHANGED <<wanted, impatient>>

IntentNext ==
    \/ \E h \in Handlers, request \in Requests : Settled /\ Ask(h, request)
    \/ \E c \in Callers : Proceed(c)
    \/ \E p \in Pids : SerialBackground(p)

IntentSpec == IntentInit /\ [][IntentNext]_intentVars

-----------------------------------------------------------------------------
\* "no restart when the daemon itself initiated the stop", README.md: a
\* service that was stopped is not started again by a retry.
NoRestartAfterStop ==
    \A p \in Pids : op[p] = "retry" /\ Starting(p) => wanted

\* The same for clients that do not start a service while it awaits a retry:
\* every stop, also one that finds no process, cancels the timer that is
\* pending and whatever a failure has set going.
StopIsFinal == impatient \/ NoRestartAfterStop
=============================================================================
