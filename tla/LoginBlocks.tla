---------------------------- MODULE LoginBlocks -----------------------------
(***************************************************************************)
(* LoginLimiter with history variables: the last block imposed on the      *)
(* address and the attempts granted since a window was last opened, which  *)
(* its record may forget.                                                  *)
(***************************************************************************)
EXTENDS LoginLimiter

VARIABLES
    blockEnd,   \* the end of the last block imposed
    opened,     \* the time at which a window was last opened, or None
    granted,    \* attempts granted since then
    crowded     \* a window was opened before the one before it was over

history == <<blockEnd, opened, granted, crowded>>
blockVars == <<limiterVars, history>>

BlocksInit ==
    /\ LimiterInit
    /\ blockEnd = 0
    /\ opened = None /\ granted = 0 /\ crowded = FALSE

Opens(h) == record = None \/ WindowOver(seen[h])

\* A login that took longer than a block from its clock reading to the lock.
Lagging(h) == now - seen[h] > BlockDuration

\* A granted attempt goes on to compare the credentials, whatever comes of it.
Grant(h) ==
    /\ OpenWindow(h) \/ CountAttempt(h)
    /\ IF Opens(h)
       THEN /\ opened' = seen[h]
            /\ granted' = 1
            /\ crowded' = \/ crowded
                          \/ /\ opened # None /\ ~Lagging(h)
                             /\ seen[h] - opened <= BlockDuration
       ELSE /\ granted' = granted + 1
            /\ UNCHANGED <<opened, crowded>>
    /\ UNCHANGED blockEnd

Impose(h) ==
    /\ Block(h)
    /\ blockEnd' = seen[h] + BlockDuration
    /\ UNCHANGED <<opened, granted, crowded>>

Other ==
    /\ \/ ClockMoves
       \/ \E task \in Tasks : ReadClock(task)
       \/ \E h \in Handlers : Refuse(h)
       \/ CleanUp
    /\ UNCHANGED history

BlocksNext == (\E h \in Handlers : Grant(h) \/ Impose(h)) \/ Other

BlocksSpec == BlocksInit /\ [][BlocksNext]_blockVars

-----------------------------------------------------------------------------
\* A block lasts: while one imposed is not over, its record is there to
\* refuse every attempt, whatever the clean-up and other logins do.
BlockHolds ==
    blockEnd > now => record # None /\ record.blockedUntil = blockEnd

\* The window is fixed, not sliding, and a clean-up may end it.  Still a window
\* grants MaxAttempts at most, and a new one opens only when the last is over,
\* although logins and the clean-up decide by clock readings that are out of
\* date.  Excepted is only a window opened by a login whose own reading is more
\* than a block old: a clean-up may have dropped a record it does not know of.
GrantsAreBounded == granted <= MaxAttempts /\ ~crowded

\* An address is blocked only if the window that is current has granted it all
\* of its attempts, even if the clean-up or another login has changed its record
\* since the attempt that is refused read the clock.
BlocksAreEarned == [][blockEnd' # blockEnd => granted >= MaxAttempts]_blockVars
=============================================================================
