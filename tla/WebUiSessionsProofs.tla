------------------------- MODULE WebUiSessionsProofs ------------------------
(***************************************************************************)
(* What the sessions keep for any number of concurrent requests, any       *)
(* duration of a session and any clock, also one that is set back.         *)
(***************************************************************************)
EXTENDS WebUiSessions, TLAPS

Creating == {"insertSession", "insertToken"}
Authenticating == {"getSession", "verifyCsrf"}
LoggingOut == {"removeSession", "removeToken"}

\* Every variable stays in its domain.
SessionTypeOK ==
    /\ now \in Nat
    /\ session \in Nat \cup {None}
    /\ csrfToken \in BOOLEAN
    /\ pc \in [Handlers -> {"idle"} \cup Creating \cup Authenticating \cup LoggingOut]
    /\ request \in [Handlers -> {"login", "act", "logout"}]
    /\ seen \in Nat \cup {None}
    /\ issued \in Nat \cup {None}
    /\ handed \in BOOLEAN
    /\ over \in BOOLEAN
    /\ tooLate \subseteq Handlers
    /\ swept \in BOOLEAN
    /\ latest \in Nat

\* One login creates the session, and nobody knows it before it is complete.
OneLogin ==
    /\ issued = None => ~handed /\ \A h \in Handlers : pc[h] \notin Creating
    /\ handed => issued # None /\ \A h \in Handlers : pc[h] \notin Creating
    /\ \A g, h \in Handlers : pc[g] \in Creating /\ pc[h] \in Creating => g = h
    /\ \A h \in Handlers : pc[h] \in Authenticating \cup LoggingOut => handed

\* Until the token is inserted there is none; the session may be swept before.
Created ==
    /\ ~handed => ~csrfToken
    /\ session # None => session = issued
    /\ \A h \in Handlers : pc[h] = "insertToken" => session # None \/ swept

\* A session that is over is not stored, and nobody inserts it again.
OverIsRemoved ==
    /\ over => handed /\ session = None
    /\ tooLate # {} => over
    /\ \A h \in Handlers : pc[h] = "removeToken" => session = None

\* The clean-up drops a session only when the clock has reached its expiry.
SweptIsExpired ==
    /\ now <= latest
    /\ seen # None => seen <= latest
    /\ swept => issued # None /\ issued <= latest

SessionInv ==
    /\ SessionTypeOK
    /\ OneLogin
    /\ Created
    /\ OverIsRemoved
    /\ SweptIsExpired
    /\ OverIsOver
    /\ SessionHasToken
    /\ OnlySweepLeavesTokens
    /\ SessionLasts

LEMMA SessionInvInit == SessionInit => SessionInv
<1> SUFFICES ASSUME SessionInit
             PROVE  SessionInv
  OBVIOUS
<1>1. SessionTypeOK
  BY DEF SessionInit, SessionTypeOK
<1>2. OneLogin /\ Created /\ OverIsRemoved /\ SweptIsExpired
  BY DEF SessionInit, OneLogin, Created, OverIsRemoved, SweptIsExpired, Creating,
         Authenticating, LoggingOut
<1>3. OverIsOver /\ SessionHasToken /\ OnlySweepLeavesTokens /\ SessionLasts
  BY DEF SessionInit, OverIsOver, SessionHasToken, OnlySweepLeavesTokens, SessionLasts
<1> QED
  BY <1>1, <1>2, <1>3 DEF SessionInv

LEMMA SessionInvStep == SessionInv /\ [SessionNext]_sessionVars => SessionInv'
<1> SUFFICES ASSUME SessionInv, [SessionNext]_sessionVars
             PROVE  SessionInv'
  OBVIOUS
<1> USE DurationAssumption, NoneAssumption
<1> USE DEF SessionInv, Creating, Authenticating, LoggingOut, SessionTypeOK, OneLogin,
            Created, OverIsRemoved, SweptIsExpired, OverIsOver, SessionHasToken,
            OnlySweepLeavesTokens, SessionLasts
<1>1. ASSUME NEW h \in Handlers, DrawSession(h)
      PROVE  SessionInv'
  BY <1>1 DEF DrawSession, Goto
<1>2. ASSUME NEW h \in Handlers, InsertSession(h)
      PROVE  SessionInv'
  BY <1>2 DEF InsertSession, Goto, history
<1>3. ASSUME NEW h \in Handlers, InsertToken(h)
      PROVE  SessionInv'
  BY <1>3 DEF InsertToken, Goto
<1>4. ASSUME NEW h \in Handlers, RefuseUnknown(h)
      PROVE  SessionInv'
  BY <1>4 DEF RefuseUnknown, Goto, Refuse
<1>5. ASSUME NEW h \in Handlers, RefuseExpired(h)
      PROVE  SessionInv'
  BY <1>5 DEF RefuseExpired, Goto, Refuse, Expired
<1>6. ASSUME NEW h \in Handlers, Authenticate(h)
      PROVE  SessionInv'
  BY <1>6 DEF Authenticate, Goto, history
<1>7. ASSUME NEW h \in Handlers, RefuseToken(h)
      PROVE  SessionInv'
  BY <1>7 DEF RefuseToken, Goto, history
<1>8. ASSUME NEW h \in Handlers, AcceptToken(h)
      PROVE  SessionInv'
  BY <1>8 DEF AcceptToken, Goto, history
<1>9. ASSUME NEW h \in Handlers, RemoveSession(h)
      PROVE  SessionInv'
  BY <1>9 DEF RemoveSession, Goto, history
<1>10. ASSUME NEW h \in Handlers, RemoveToken(h)
      PROVE  SessionInv'
  BY <1>10 DEF RemoveToken, Goto
<1>11. ASSUME NEW h \in Handlers, NEW kind \in {"act", "logout"}, Arrive(h, kind)
      PROVE  SessionInv'
  BY <1>11 DEF Arrive, Goto
<1>12. CASE WakeUp
  BY <1>12 DEF WakeUp, calls, history
<1>13. CASE Sweep
  <2>1. CASE session = None \/ Retained
    BY <1>13, <2>1 DEF Sweep, calls
  <2>2. CASE session # None /\ session <= seen
    <3>1. session' = None /\ swept' = TRUE /\ issued <= latest
      BY <1>13, <2>2 DEF Sweep, Retained
    <3>2. SessionTypeOK' /\ OneLogin' /\ Created' /\ OverIsRemoved' /\ SweptIsExpired'
      BY <1>13, <3>1 DEF Sweep, calls
    <3> QED
      BY <1>13, <3>1, <3>2 DEF Sweep, calls
  <2> QED
    BY <1>13, <2>1, <2>2 DEF Sweep, Retained
<1>14. CASE ClockMoves
  BY <1>14 DEF ClockMoves, calls
<1>15. CASE UNCHANGED sessionVars
  BY <1>15 DEF sessionVars, calls, history
<1> QED
  BY <1>1, <1>2, <1>3, <1>4, <1>5, <1>6, <1>7, <1>8, <1>9, <1>10, <1>11, <1>12,
     <1>13, <1>14, <1>15
  DEF SessionNext, Serve

\* A session that is over authenticates no later request, whatever the clock does.
THEOREM SessionsEndForGood == SessionSpec => []OverIsOver
BY SessionInvInit, SessionInvStep, PTL DEF SessionSpec, SessionInv

\* No client is refused for its token as long as its session is stored.
THEOREM TokensStay == SessionSpec => []SessionHasToken
BY SessionInvInit, SessionInvStep, PTL DEF SessionSpec, SessionInv

\* Only the clean-up leaves tokens behind.
THEOREM TokensGo == SessionSpec => []OnlySweepLeavesTokens
BY SessionInvInit, SessionInvStep, PTL DEF SessionSpec, SessionInv

\* No session ends before it expires or is logged out.
THEOREM SessionsLast == SessionSpec => []SessionLasts
BY SessionInvInit, SessionInvStep, PTL DEF SessionSpec, SessionInv
=============================================================================
