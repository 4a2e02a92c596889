---------------------------- MODULE WebUiSessions ---------------------------
(***************************************************************************)
(* The sessions and CSRF tokens of src/src/webui_server.rs, as seen by ONE *)
(* session id: both maps are keyed by the random id a login draws, and the *)
(* clean-up decides on every entry by itself.  Each map has a mutex of its *)
(* own; a step is one critical section, and the expiry of a session is the *)
(* only section that holds both.                                           *)
(***************************************************************************)
EXTENDS Naturals

CONSTANTS
    Handlers,       \* concurrently served requests
    None,           \* the absence of a map entry
    Duration,       \* SESSION_DURATION_MS, in units of the clock
    Horizon,        \* the last value of the clock (bounds the model)
    Adjustable      \* whether the wall clock may be set back

ASSUME DurationAssumption == Duration \in Nat \ {0} /\ Horizon \in Nat
ASSUME NoneAssumption == None \notin Nat
ASSUME AdjustableAssumption == Adjustable \in BOOLEAN

VARIABLES
    now,            \* the wall clock
    session,        \* expires_at, or None
    csrfToken,      \* whether a token is stored
    pc,             \* program counter of each handler
    request,        \* what it serves: "login", "act", "logout"
    seen,           \* the clean-up's local `now`, or None between two rounds
    issued,         \* history: the expiry the session was given, or None
    handed,         \* history: whether the client knows the session
    over,           \* history: logged out, or refused as unknown or expired
    tooLate,        \* history: the requests that arrived after that
    swept,          \* history: whether the clean-up has dropped the session
    latest          \* history: the latest value the clock ever had

calls == <<pc, request>>
history == <<issued, handed, over, tooLate, swept, latest>>
sessionVars == <<now, session, csrfToken, calls, seen, history>>

Goto(h, label) == pc' = [pc EXCEPT ![h] = label]

-----------------------------------------------------------------------------
\* login: create_session, after the limiter and the credentials.

\* The clock is read before the lock is taken.
DrawSession(h) ==
    /\ pc[h] = "idle"
    /\ issued = None
    /\ Goto(h, "insertSession")
    /\ request' = [request EXCEPT ![h] = "login"]
    /\ issued' = now + Duration
    /\ UNCHANGED <<now, session, csrfToken, seen, handed, over, tooLate, swept, latest>>

InsertSession(h) ==
    /\ pc[h] = "insertSession"
    /\ Goto(h, "insertToken")
    /\ session' = issued
    /\ UNCHANGED <<now, csrfToken, request, seen, history>>

\* ... and the response with both cookies.
InsertToken(h) ==
    /\ pc[h] = "insertToken"
    /\ Goto(h, "idle")
    /\ csrfToken' = TRUE
    /\ handed' = TRUE
    /\ UNCHANGED <<now, session, request, seen, issued, over, tooLate, swept, latest>>

-----------------------------------------------------------------------------
\* Any request with the cookies of the session.

Arrive(h, kind) ==
    /\ pc[h] = "idle"
    /\ handed
    /\ Goto(h, "getSession")
    /\ request' = [request EXCEPT ![h] = kind]
    /\ tooLate' = IF over THEN tooLate \cup {h} ELSE tooLate \ {h}
    /\ UNCHANGED <<now, session, csrfToken, seen, issued, handed, over, swept, latest>>

\* The client learns that the session is over.
Refuse(h) ==
    /\ Goto(h, "idle")
    /\ over' = TRUE
    /\ UNCHANGED <<now, request, seen, issued, handed, tooLate, swept, latest>>

Expired == now > session

RefuseUnknown(h) ==
    /\ pc[h] = "getSession"
    /\ session = None
    /\ Refuse(h)
    /\ UNCHANGED <<session, csrfToken>>

\* Mutant of RefuseExpired: the session is refused but kept.
RefuseOnly(h) ==
    /\ pc[h] = "getSession"
    /\ session # None /\ Expired
    /\ Refuse(h)
    /\ UNCHANGED <<session, csrfToken>>

\* Mutant of RefuseExpired: the token is kept.
RefuseKeepsToken(h) ==
    /\ pc[h] = "getSession"
    /\ session # None /\ Expired
    /\ session' = None
    /\ Refuse(h)
    /\ UNCHANGED csrfToken

\* The token is removed under the lock of the sessions.
RefuseExpired(h) ==
    /\ pc[h] = "getSession"
    /\ session # None /\ Expired
    /\ session' = None
    /\ csrfToken' = FALSE
    /\ Refuse(h)

Authenticate(h) ==
    /\ pc[h] = "getSession"
    /\ session # None /\ ~Expired
    /\ Goto(h, "verifyCsrf")
    /\ UNCHANGED <<now, session, csrfToken, request, seen, history>>

\* 403: the session may have ended since it was looked up.
RefuseToken(h) ==
    /\ pc[h] = "verifyCsrf"
    /\ ~csrfToken
    /\ Goto(h, "idle")
    /\ UNCHANGED <<now, session, csrfToken, request, seen, history>>

AcceptToken(h) ==
    /\ pc[h] = "verifyCsrf"
    /\ csrfToken
    /\ Goto(h, IF request[h] = "logout" THEN "removeSession" ELSE "idle")
    /\ UNCHANGED <<now, session, csrfToken, request, seen, history>>

\* Mutant of RemoveSession: the token is removed, the session stays.
DropTokenOnly(h) ==
    /\ pc[h] = "removeSession"
    /\ Goto(h, "removeToken")
    /\ csrfToken' = FALSE
    /\ UNCHANGED <<now, session, request, seen, history>>

RemoveSession(h) ==
    /\ pc[h] = "removeSession"
    /\ Goto(h, "removeToken")
    /\ session' = None
    /\ UNCHANGED <<now, csrfToken, request, seen, history>>

RemoveToken(h) ==
    /\ pc[h] = "removeToken"
    /\ Goto(h, "idle")
    /\ csrfToken' = FALSE
    /\ over' = TRUE
    /\ UNCHANGED <<now, session, request, seen, issued, handed, tooLate, swept, latest>>

Serve(h) ==
    \/ InsertSession(h) \/ InsertToken(h)
    \/ RefuseUnknown(h) \/ RefuseExpired(h) \/ Authenticate(h)
    \/ RefuseToken(h) \/ AcceptToken(h)
    \/ RemoveSession(h) \/ RemoveToken(h)

-----------------------------------------------------------------------------
\* The hourly clean-up: it reads the clock, then locks the sessions.

WakeUp ==
    /\ seen = None
    /\ seen' = now
    /\ UNCHANGED <<now, session, csrfToken, calls, history>>

\* Mutant of Retained: the comparison is the wrong way round.
RetainedExpired == session < seen

Retained == session > seen

\* Mutant of Sweep: only the login attempts are cleaned up.
SweepNothing ==
    /\ seen # None
    /\ seen' = None
    /\ UNCHANGED <<now, session, csrfToken, calls, history>>

Sweep ==
    /\ seen # None
    /\ seen' = None
    /\ IF session = None \/ Retained
       THEN UNCHANGED <<session, swept>>
       ELSE session' = None /\ swept' = TRUE
    /\ UNCHANGED <<now, csrfToken, calls, issued, handed, over, tooLate, latest>>

-----------------------------------------------------------------------------
ClockMoves ==
    /\ now' \in {t \in 0..Horizon : t > now \/ (Adjustable /\ t < now)}
    /\ latest' = IF now' > latest THEN now' ELSE latest
    /\ UNCHANGED <<session, csrfToken, calls, seen, issued, handed, over, tooLate, swept>>

SessionInit ==
    /\ now = 0
    /\ session = None
    /\ csrfToken = FALSE
    /\ pc = [h \in Handlers |-> "idle"]
    /\ request = [h \in Handlers |-> "login"]
    /\ seen = None
    /\ issued = None
    /\ handed = FALSE
    /\ over = FALSE
    /\ tooLate = {}
    /\ swept = FALSE
    /\ latest = 0

SessionNext ==
    \/ \E h \in Handlers : DrawSession(h) \/ Serve(h)
    \/ \E h \in Handlers, kind \in {"act", "logout"} : Arrive(h, kind)
    \/ WakeUp \/ Sweep
    \/ ClockMoves

\* The clean-up is a task that sleeps and runs for ever.
SessionSpec == SessionInit /\ [][SessionNext]_sessionVars /\ WF_sessionVars(WakeUp \/ Sweep)

-----------------------------------------------------------------------------
\* A session that was logged out, or that a request was told is over, never
\* authenticates a request that arrives later: not even if the clock is set
\* back to a time at which it had not expired.
OverIsOver == \A h \in tooLate : pc[h] \in {"idle", "getSession"}

\* A client that holds a session is not turned away for its token: as long as
\* the session is stored its token is, in every interleaving of logouts,
\* expiry and clean-up.
SessionHasToken == handed /\ session # None => csrfToken

\* Tokens are removed with their sessions, also by an expiry, except for the
\* sessions that the clean-up drops: their tokens stay for good.
OnlySweepLeavesTokens ==
    csrfToken /\ session = None =>
        swept \/ \E h \in Handlers : pc[h] = "removeToken"

\* A session lasts until it expires or is logged out: neither the clean-up nor a
\* request removes it before.
SessionLasts ==
    handed /\ latest < issued =>
        session # None \/ over \/ \E h \in Handlers : pc[h] = "removeToken"

\* An expired session is removed although nobody asks for it.
ExpiredIsRemoved ==
    session # None /\ Expired ~> session = None \/ ~Expired
=============================================================================
