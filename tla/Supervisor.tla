----------------------------- MODULE Supervisor -----------------------------
(***************************************************************************)
(* What the daemon promises about one service: it is up or down; a client  *)
(* may start it while it is down, which forgives earlier failures; a       *)
(* failure within the budget makes one retry due; a due retry brings the   *)
(* service up again, at most once, and forgives nothing, or is dropped:    *)
(* cancelled by a stop, too late, or failing itself.                       *)
(***************************************************************************)
EXTENDS Naturals

CONSTANTS
    Clients,    \* who may ask for a start
    Timers,     \* names of retries
    Budgets     \* the numbers of retries the definitions of the service allow

VARIABLES
    asking,     \* the clients that are asking for a start or restart
    up,         \* whether the service is up
    failures,   \* abnormal exits since it was last started by a client
    due         \* the retries to come

promise == <<asking, up, failures, due>>

Ask(c) ==
    /\ c \notin asking
    /\ asking' = asking \cup {c}
    /\ UNCHANGED <<up, failures, due>>

Answer(c) ==
    /\ c \in asking
    /\ asking' = asking \ {c}
    /\ UNCHANGED <<up, failures, due>>

Start(c) ==
    /\ c \in asking
    /\ ~up
    /\ up' = TRUE
    /\ failures' = 0
    /\ UNCHANGED <<asking, due>>

\* A stop, or an exit that is no failure or of a service without retries.
GoDown ==
    /\ up
    /\ up' = FALSE
    /\ UNCHANGED <<asking, failures, due>>

FailAgain(t) ==
    /\ up
    /\ up' = FALSE
    /\ failures' = failures + 1
    /\ \E b \in Budgets : failures' <= b
    /\ due' = due \cup {t}
    /\ UNCHANGED asking

GiveUp ==
    /\ up
    /\ up' = FALSE
    /\ failures' = failures + 1
    /\ UNCHANGED <<asking, due>>

Retry(t) ==
    /\ t \in due
    /\ ~up
    /\ up' = TRUE
    /\ due' = due \ {t}
    /\ UNCHANGED <<asking, failures>>

Drop(t) ==
    /\ t \in due
    /\ due' = due \ {t}
    /\ UNCHANGED <<asking, up, failures>>

Init == asking = {} /\ up = FALSE /\ failures = 0 /\ due = {}

Next ==
    \/ \E c \in Clients : Ask(c) \/ Answer(c) \/ Start(c)
    \/ \E t \in Timers : FailAgain(t) \/ Retry(t) \/ Drop(t)
    \/ GoDown \/ GiveUp

Spec == Init /\ [][Next]_promise
=============================================================================
