---------------------------- MODULE LoginLimiter ----------------------------
(***************************************************************************)
(* The login rate limiter of src/src/webui_server.rs, as seen by one       *)
(* client address: the map of attempts is keyed by address, and neither a  *)
(* login nor the clean-up relates two entries.                             *)
(*                                                                         *)
(* A login and the clean-up each read the wall clock first and take the    *)
(* lock afterwards, so the time they decide by may be out of date.         *)
(***************************************************************************)
EXTENDS Integers

CONSTANTS
    Handlers,       \* concurrent login requests
    Cleaner,        \* the periodic clean-up task
    None,           \* no record, or no clock reading
    Horizon,        \* bound on the clock, in units of the model
    MaxAttempts,    \* MAX_LOGIN_ATTEMPTS
    BlockDuration,  \* LOGIN_BLOCK_DURATION_MS
    Adjustable      \* whether the wall clock may be set back

Times == 0 .. Horizon
Tasks == Handlers \cup {Cleaner}
Records == [count : Nat, firstAttempt : Times, blockedUntil : Nat]

ASSUME LimiterAssumption ==
    /\ None \notin Int /\ None \notin Records
    /\ Cleaner \notin Handlers
    /\ Horizon \in Nat
    /\ MaxAttempts \in Nat \ {0}
    /\ BlockDuration \in Nat \ {0}
    /\ Adjustable \in BOOLEAN

VARIABLES
    now,        \* the wall clock
    record,     \* the LoginRecord of the address, or None
    seen        \* the `now` each task has read and not used yet, or None

limiterVars == <<now, record, seen>>

\* Mutant of NewRecord: the end of the window is stored for its start.
NewRecordEnds(t) ==
    [count |-> 0, firstAttempt |-> t + BlockDuration, blockedUntil |-> 0]

NewRecord(t) == [count |-> 0, firstAttempt |-> t, blockedUntil |-> 0]

\* The record a login at time t works on.
Entry(t) == IF record = None THEN NewRecord(t) ELSE record

ClockMoves ==
    /\ \E t \in Times : (Adjustable \/ t > now) /\ now' = t
    /\ UNCHANGED <<record, seen>>

ReadClock(task) ==
    /\ seen[task] = None
    /\ seen' = [seen EXCEPT ![task] = now]
    /\ UNCHANGED <<now, record>>

\* The end of a task that goes on to leave the record as r.
Decide(task, r) ==
    /\ record' = r
    /\ seen' = [seen EXCEPT ![task] = None]
    /\ UNCHANGED now

Blocked(t) == t < Entry(t).blockedUntil
WindowOver(t) == t - Entry(t).firstAttempt > BlockDuration

Refuse(h) ==
    /\ seen[h] # None
    /\ Blocked(seen[h])
    /\ Decide(h, Entry(seen[h]))

\* Mutant of OpenWindow: the attempt that opens the window is not counted.
OpenWindowUncounted(h) ==
    /\ seen[h] # None
    /\ ~Blocked(seen[h])
    /\ WindowOver(seen[h])
    /\ Decide(h, [Entry(seen[h]) EXCEPT !.count = 0, !.firstAttempt = seen[h]])

OpenWindow(h) ==
    /\ seen[h] # None
    /\ ~Blocked(seen[h])
    /\ WindowOver(seen[h])
    /\ Decide(h, [Entry(seen[h]) EXCEPT !.count = 1, !.firstAttempt = seen[h]])

CountAttempt(h) ==
    /\ seen[h] # None
    /\ ~Blocked(seen[h]) /\ ~WindowOver(seen[h])
    /\ Entry(seen[h]).count < MaxAttempts
    /\ Decide(h, [Entry(seen[h]) EXCEPT !.count = @ + 1])

\* Mutant of Block: off by one.
BlockEarly(h) ==
    /\ seen[h] # None
    /\ ~Blocked(seen[h]) /\ ~WindowOver(seen[h])
    /\ Entry(seen[h]).count + 1 >= MaxAttempts
    /\ Decide(h, [count        |-> Entry(seen[h]).count + 1,
                  firstAttempt |-> Entry(seen[h]).firstAttempt,
                  blockedUntil |-> seen[h] + BlockDuration])

\* Mutant of Block: the block is measured from the first attempt.
BlockFromFirst(h) ==
    /\ seen[h] # None
    /\ ~Blocked(seen[h]) /\ ~WindowOver(seen[h])
    /\ Entry(seen[h]).count >= MaxAttempts
    /\ Decide(h, [count        |-> Entry(seen[h]).count + 1,
                  firstAttempt |-> Entry(seen[h]).firstAttempt,
                  blockedUntil |-> Entry(seen[h]).firstAttempt + BlockDuration])

Block(h) ==
    /\ seen[h] # None
    /\ ~Blocked(seen[h]) /\ ~WindowOver(seen[h])
    /\ Entry(seen[h]).count >= MaxAttempts
    /\ Decide(h, [count        |-> Entry(seen[h]).count + 1,
                  firstAttempt |-> Entry(seen[h]).firstAttempt,
                  blockedUntil |-> seen[h] + BlockDuration])

\* Mutant of Retained: a record is kept for one block only.
RetainedOneBlock(t) == t - record.firstAttempt <= BlockDuration

Retained(t) == t - record.firstAttempt <= BlockDuration * 2

CleanUp ==
    /\ seen[Cleaner] # None
    /\ Decide(Cleaner,
              IF record # None /\ Retained(seen[Cleaner]) THEN record ELSE None)

LimiterInit ==
    /\ now = 0
    /\ record = None
    /\ seen = [task \in Tasks |-> None]

Attempt(h) == Refuse(h) \/ OpenWindow(h) \/ CountAttempt(h) \/ Block(h)

LimiterNext ==
    \/ ClockMoves
    \/ \E task \in Tasks : ReadClock(task)
    \/ \E h \in Handlers : Attempt(h)
    \/ CleanUp

LimiterSpec == LimiterInit /\ [][LimiterNext]_limiterVars

-----------------------------------------------------------------------------
\* Every variable stays in its domain.
LimiterTypeOK ==
    /\ now \in Times
    /\ record \in Records \cup {None}
    /\ seen \in [Tasks -> Times \cup {None}]

\* The clean-up never removes the record of an address that is blocked at the
\* time the clean-up decides by: records are kept for twice the block, and
\* a block begins within one block of the first attempt.
CleanUpKeepsBlocks ==
    [][record # None /\ record' = None => record.blockedUntil < seen[Cleaner]]_limiterVars
=============================================================================
