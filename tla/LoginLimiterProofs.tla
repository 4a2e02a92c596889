------------------------- MODULE LoginLimiterProofs -------------------------
(***************************************************************************)
(* What the login rate limiter keeps for any number of concurrent logins,  *)
(* any number of attempts and any duration of a block.                     *)
(***************************************************************************)
EXTENDS LoginBlocks, TLAPS

\* A block ends within two durations of the first attempt of its record.
BlockBound ==
    record # None =>
        record.blockedUntil <= record.firstAttempt + BlockDuration * 2

LimiterInv == LimiterTypeOK /\ BlockBound

LEMMA LimiterInvInit == LimiterInit => LimiterInv
BY LimiterAssumption DEF LimiterInit, LimiterInv, LimiterTypeOK, BlockBound, Times

\* The record a login works on is well formed, whether it is found or new.
LEMMA EntryIsRecord ==
    ASSUME LimiterInv, NEW t \in Times
    PROVE  /\ Entry(t) \in Records
           /\ Entry(t).blockedUntil <= Entry(t).firstAttempt + BlockDuration * 2
BY LimiterAssumption DEF LimiterInv, LimiterTypeOK, BlockBound, Entry, NewRecord,
   Records, Times

\* An attempt leaves a record whose block ends in time.
LEMMA AttemptKeepsInv ==
    ASSUME LimiterInv, NEW h \in Handlers, Attempt(h)
    PROVE  LimiterInv' /\ record' # None
<1> DEFINE t == seen[h]
           e == Entry(t)
<1>1. h \in Tasks /\ t \in Times /\ t \in Int /\ t # None
  BY LimiterAssumption
     DEF Attempt, Refuse, OpenWindow, CountAttempt, Block, Tasks, Times,
         LimiterInv, LimiterTypeOK
<1>2. e \in Records /\ e.blockedUntil <= e.firstAttempt + BlockDuration * 2
  BY <1>1, EntryIsRecord
<1> HIDE DEF e, t
<1>3. ASSUME NEW r \in Records, Decide(h, r),
             r.blockedUntil <= r.firstAttempt + BlockDuration * 2
      PROVE  LimiterInv' /\ record' # None
  BY <1>1, <1>3, LimiterAssumption
     DEF Decide, LimiterInv, LimiterTypeOK, BlockBound, Records
<1>4. CASE Refuse(h)
  BY <1>2, <1>3, <1>4 DEF Refuse, e, t
<1>5. CASE OpenWindow(h)
  <2> DEFINE r == [e EXCEPT !.count = 1, !.firstAttempt = t]
  <2>1. Decide(h, r) /\ ~(t < e.blockedUntil)
    BY <1>5 DEF OpenWindow, Blocked, e, t
  <2>2. r \in Records /\ r.blockedUntil = e.blockedUntil /\ r.firstAttempt = t
    BY <1>1, <1>2 DEF Records
  <2>3. r.blockedUntil <= r.firstAttempt + BlockDuration * 2
    BY <1>1, <1>2, <2>1, <2>2, LimiterAssumption DEF Records
  <2> QED
    BY <1>3, <2>1, <2>2, <2>3
<1>6. CASE CountAttempt(h)
  <2> DEFINE r == [e EXCEPT !.count = @ + 1]
  <2>1. Decide(h, r)
    BY <1>6 DEF CountAttempt, e, t
  <2>2. r \in Records /\ r.blockedUntil = e.blockedUntil
        /\ r.firstAttempt = e.firstAttempt
    BY <1>2 DEF Records
  <2> QED
    BY <1>2, <1>3, <2>1, <2>2
<1>7. CASE Block(h)
  <2> DEFINE r == [count |-> e.count + 1, firstAttempt |-> e.firstAttempt,
                   blockedUntil |-> t + BlockDuration]
  <2>1. Decide(h, r) /\ ~(t - e.firstAttempt > BlockDuration)
    BY <1>7 DEF Block, WindowOver, e, t
  <2>2. /\ r \in Records
        /\ r.blockedUntil = t + BlockDuration
        /\ r.firstAttempt = e.firstAttempt
    <3>1. t + BlockDuration \in Nat
      BY <1>1, LimiterAssumption DEF Times
    <3>2. e.count \in Nat /\ e.firstAttempt \in Times
      BY <1>2 DEF Records
    <3> QED
      BY <3>1, <3>2 DEF Records
  <2>3. r.blockedUntil <= r.firstAttempt + BlockDuration * 2
    BY <1>1, <1>2, <2>1, <2>2, LimiterAssumption DEF Records, Times
  <2> QED
    BY <1>3, <2>1, <2>2, <2>3
<1> QED
  BY <1>4, <1>5, <1>6, <1>7 DEF Attempt

LEMMA LimiterInvStep == LimiterInv /\ [LimiterNext]_limiterVars => LimiterInv'
<1> SUFFICES ASSUME LimiterInv, [LimiterNext]_limiterVars
             PROVE  LimiterInv'
  OBVIOUS
<1> USE DEF LimiterInv, LimiterTypeOK, BlockBound
<1>1. CASE ClockMoves
  BY <1>1 DEF ClockMoves
<1>2. ASSUME NEW task \in Tasks, ReadClock(task)
      PROVE  LimiterInv'
  BY <1>2 DEF ReadClock
<1>3. ASSUME NEW h \in Handlers, Attempt(h)
      PROVE  LimiterInv'
  BY <1>3, AttemptKeepsInv
<1>4. CASE CleanUp
  BY <1>4 DEF CleanUp, Decide, Tasks
<1>5. CASE UNCHANGED limiterVars
  BY <1>5 DEF limiterVars
<1> QED
  BY <1>1, <1>2, <1>3, <1>4, <1>5 DEF LimiterNext

\* The limiter's state is well typed and every block ends within twice its
\* duration of the first attempt, even if the clock is set back.
THEOREM LimiterInvariant == LimiterSpec => []LimiterInv
BY LimiterInvInit, LimiterInvStep, PTL DEF LimiterSpec

\* In particular every variable of the limiter stays in its domain.
THEOREM LimiterIsTyped == LimiterSpec => []LimiterTypeOK
BY LimiterInvariant, PTL DEF LimiterInv

\* The clean-up removes no record that still blocks at the time it has read.
THEOREM CleanUpIsSafe == LimiterSpec => CleanUpKeepsBlocks
<1>1. LimiterInv /\ [LimiterNext]_limiterVars =>
        [record # None /\ record' = None => record.blockedUntil < seen[Cleaner]]_limiterVars
  <2> SUFFICES ASSUME LimiterInv, LimiterNext, record # None, record' = None
               PROVE  record.blockedUntil < seen[Cleaner]
    BY DEF limiterVars
  <2>1. ASSUME NEW h \in Handlers, Attempt(h)
        PROVE  FALSE
    BY <2>1, AttemptKeepsInv
  <2>2. CASE CleanUp
    BY <2>2, LimiterAssumption
       DEF CleanUp, Decide, Retained, Tasks, Times, Records, LimiterInv,
           LimiterTypeOK, BlockBound
  <2> QED
    BY <2>1, <2>2 DEF LimiterNext, ClockMoves, ReadClock
<1> QED
  BY <1>1, LimiterInvariant, PTL DEF LimiterSpec, CleanUpKeepsBlocks

-----------------------------------------------------------------------------
\* A clock that is not set back: every reading in use is in the past.
SeenInPast == \A task \in Tasks : seen[task] # None => seen[task] <= now

BlocksInv == LimiterInv /\ SeenInPast /\ blockEnd \in Nat /\ BlockHolds

LEMMA BlocksInvInit == BlocksInit => BlocksInv
BY LimiterInvInit DEF BlocksInit, LimiterInit, BlocksInv, SeenInPast, BlockHolds

\* What an attempt does to the blocked time of the record.
LEMMA AttemptBlocks ==
    ASSUME LimiterInv, NEW h \in Handlers
    PROVE  /\ (Refuse(h) \/ OpenWindow(h) \/ CountAttempt(h)) =>
                  record'.blockedUntil = Entry(seen[h]).blockedUntil
           /\ Block(h) => record'.blockedUntil = seen[h] + BlockDuration
           /\ Attempt(h) => /\ now' = now
                            /\ seen[h] \in Times
                            /\ seen' = [seen EXCEPT ![h] = None]
<1> SUFFICES ASSUME Attempt(h)
             PROVE  /\ (Refuse(h) \/ OpenWindow(h) \/ CountAttempt(h)) =>
                           record'.blockedUntil = Entry(seen[h]).blockedUntil
                    /\ Block(h) => record'.blockedUntil = seen[h] + BlockDuration
                    /\ now' = now
                    /\ seen[h] \in Times
                    /\ seen' = [seen EXCEPT ![h] = None]
  BY DEF Attempt
<1>1. seen[h] \in Times
  BY LimiterAssumption
     DEF Attempt, Refuse, OpenWindow, CountAttempt, Block, Tasks, Times,
         LimiterInv, LimiterTypeOK
<1>2. Entry(seen[h]) \in Records
  BY <1>1, EntryIsRecord
<1>3. Refuse(h) \/ CountAttempt(h) \/ OpenWindow(h) =>
        record'.blockedUntil = Entry(seen[h]).blockedUntil
  BY <1>2 DEF Refuse, OpenWindow, CountAttempt, Decide, Records
<1>4. Block(h) => record'.blockedUntil = seen[h] + BlockDuration
  BY DEF Block, Decide
<1>5. now' = now /\ seen' = [seen EXCEPT ![h] = None]
  BY DEF Attempt, Refuse, OpenWindow, CountAttempt, Block, Decide
<1> QED
  BY <1>1, <1>3, <1>4, <1>5

LEMMA BlocksInvStep ==
    ASSUME ~Adjustable
    PROVE  BlocksInv /\ [BlocksNext]_blockVars => BlocksInv'
<1> SUFFICES ASSUME BlocksInv, [BlocksNext]_blockVars
             PROVE  BlocksInv'
  OBVIOUS
<1>1. LimiterInv'
  BY LimiterInvStep
     DEF BlocksInv, BlocksNext, blockVars, Grant, Impose, Other, LimiterNext, Attempt
<1>2. ASSUME NEW h \in Handlers, Attempt(h)
      PROVE  SeenInPast'
  BY <1>2, AttemptBlocks, LimiterAssumption
     DEF BlocksInv, SeenInPast, LimiterInv, LimiterTypeOK, Tasks, Times
<1>3. ASSUME NEW h \in Handlers, Refuse(h) \/ OpenWindow(h) \/ CountAttempt(h),
             blockEnd' = blockEnd
      PROVE  BlocksInv'
  <2>1. Attempt(h) /\ record' # None /\ now' = now
    BY <1>3, AttemptKeepsInv, AttemptBlocks DEF Attempt, BlocksInv
  <2>2. record'.blockedUntil = Entry(seen[h]).blockedUntil
    BY <1>3, AttemptBlocks DEF BlocksInv
  <2>3. blockEnd > now => record'.blockedUntil = blockEnd
    BY <2>2 DEF BlocksInv, BlockHolds, Entry
  <2> QED
    BY <1>1, <1>2, <1>3, <2>1, <2>3 DEF BlocksInv, BlockHolds
<1>4. ASSUME NEW h \in Handlers, Impose(h)
      PROVE  BlocksInv'
  <2>1. Block(h) /\ Attempt(h) /\ blockEnd' = seen[h] + BlockDuration
    BY <1>4 DEF Impose, Attempt
  <2>2. /\ record' # None /\ seen[h] \in Times
        /\ record'.blockedUntil = seen[h] + BlockDuration
    BY <2>1, AttemptKeepsInv, AttemptBlocks DEF BlocksInv
  <2>3. blockEnd' \in Nat
    BY <2>1, <2>2, LimiterAssumption DEF Times
  <2> QED
    BY <1>1, <1>2, <2>1, <2>2, <2>3 DEF BlocksInv, BlockHolds
<1>5. CASE ClockMoves /\ UNCHANGED history
  BY <1>1, <1>5
     DEF ClockMoves, history, BlocksInv, BlockHolds, SeenInPast, LimiterInv,
         LimiterTypeOK, Times
<1>6. ASSUME NEW task \in Tasks, ReadClock(task), UNCHANGED history
      PROVE  BlocksInv'
  BY <1>1, <1>6
     DEF ReadClock, history, BlocksInv, BlockHolds, SeenInPast, LimiterInv, LimiterTypeOK,
         Times
<1>7. CASE CleanUp /\ UNCHANGED history
  <2>1. SeenInPast' /\ now' = now
    BY <1>7 DEF CleanUp, Decide, BlocksInv, SeenInPast, LimiterInv, LimiterTypeOK
  <2>2. record' = record \/ (record' = None /\ record.blockedUntil <= now)
    BY <1>7, LimiterAssumption
       DEF CleanUp, Decide, Retained, BlocksInv, SeenInPast, LimiterInv,
           LimiterTypeOK, BlockBound, Records, Tasks, Times
  <2> QED
    BY <1>1, <1>7, <2>1, <2>2
       DEF history, BlocksInv, BlockHolds, LimiterInv, LimiterTypeOK, Times
<1>8. CASE UNCHANGED blockVars
  BY <1>8, <1>1 DEF blockVars, limiterVars, history, BlocksInv, BlockHolds, SeenInPast
<1>9. ASSUME NEW h \in Handlers, Grant(h)
      PROVE  BlocksInv'
  BY <1>3, <1>9 DEF Grant
<1>10. ASSUME NEW h \in Handlers, Refuse(h), UNCHANGED history
       PROVE  BlocksInv'
  BY <1>3, <1>10 DEF history
<1>11. CASE Other
  BY <1>5, <1>6, <1>7, <1>10, <1>11 DEF Other
<1> QED
  BY <1>4, <1>8, <1>9, <1>11 DEF BlocksNext

\* With a clock that is not set back, a block lasts as long as it was imposed
\* for, whatever other logins and the clean-up do.
THEOREM BlocksLast ==
    ASSUME ~Adjustable
    PROVE  BlocksSpec => []BlockHolds
<1>1. BlocksInv => BlockHolds
  BY DEF BlocksInv
<1> QED
  BY <1>1, BlocksInvInit, BlocksInvStep, PTL DEF BlocksSpec

-----------------------------------------------------------------------------
(***************************************************************************)
(* How many attempts a window grants.  A record counts blocks as well as   *)
(* grants and is removed by the clean-up, so the grants of a window are    *)
(* compared with its record only while there is one; without a record, the *)
(* last window is over.                                                    *)
(***************************************************************************)

\* A record counts no attempt that its window has not granted, except those
\* that were blocked after all of them were granted.
CountIsGranted ==
    /\ granted \in Nat
    /\ record # None => granted >= record.count \/ granted >= MaxAttempts

\* The window that was opened last is that of the record, or is over by so
\* much that it is for everyone whose clock reading is a block old at most.
WindowKnown ==
    /\ opened \in Times \cup {None}
    /\ record # None =>
          /\ opened = record.firstAttempt
          /\ granted <= record.count /\ granted <= MaxAttempts
    /\ record = None =>
          /\ opened # None => now - opened > BlockDuration * 2
          /\ granted <= MaxAttempts

GrantsInv ==
    /\ LimiterInv /\ SeenInPast
    /\ granted \in Nat
    /\ WindowKnown /\ ~crowded

\* A grant either opens a window, with a count of one, or adds to the record.
LEMMA GrantCases ==
    ASSUME LimiterInv, NEW h \in Handlers, Grant(h)
    PROVE  /\ seen[h] \in Times /\ now' = now
           /\ record' # None /\ Attempt(h)
           /\ \/ /\ Opens(h)
                 /\ record'.count = 1 /\ record'.firstAttempt = seen[h]
                 /\ opened' = seen[h] /\ granted' = 1
              \/ /\ ~Opens(h) /\ record # None
                 /\ record.count < MaxAttempts
                 /\ record'.count = record.count + 1
                 /\ record'.firstAttempt = record.firstAttempt
                 /\ granted' = granted + 1 /\ UNCHANGED <<opened, crowded>>
<1>1. Attempt(h)
  BY DEF Grant, Attempt
<1>2. seen[h] \in Times /\ now' = now /\ record' # None
  BY <1>1, AttemptBlocks, AttemptKeepsInv
<1>3. Entry(seen[h]) \in Records /\ seen[h] - seen[h] = 0
  BY <1>2, EntryIsRecord, LimiterAssumption DEF Times
<1>4. CASE record = None
  <2>1. ~WindowOver(seen[h])
    BY <1>3, <1>4, LimiterAssumption DEF WindowOver, Entry, NewRecord
  <2>2. CountAttempt(h) /\ Opens(h) /\ opened' = seen[h] /\ granted' = 1
    BY <1>4, <2>1 DEF Grant, OpenWindow, Opens
  <2>3. record'.count = 1 /\ record'.firstAttempt = seen[h]
    BY <1>4, <2>2 DEF CountAttempt, Decide, Entry, NewRecord
  <2> QED
    BY <1>1, <1>2, <2>2, <2>3
<1>5. CASE record # None /\ WindowOver(seen[h])
  <2>1. OpenWindow(h) /\ Opens(h) /\ opened' = seen[h] /\ granted' = 1
    BY <1>5 DEF Grant, CountAttempt, Opens
  <2>2. record'.count = 1 /\ record'.firstAttempt = seen[h]
    BY <1>3, <2>1 DEF OpenWindow, Decide, Records
  <2> QED
    BY <1>1, <1>2, <2>1, <2>2
<1>6. CASE record # None /\ ~WindowOver(seen[h])
  <2>1. /\ CountAttempt(h) /\ ~Opens(h)
        /\ granted' = granted + 1 /\ UNCHANGED <<opened, crowded>>
    BY <1>6 DEF Grant, OpenWindow, Opens
  <2>2. /\ record.count < MaxAttempts
        /\ record'.count = record.count + 1
        /\ record'.firstAttempt = record.firstAttempt
    BY <1>3, <1>6, <2>1 DEF CountAttempt, Decide, Entry, Records
  <2> QED
    BY <1>1, <1>2, <1>6, <2>1, <2>2
<1> QED
  BY <1>4, <1>5, <1>6

\* A block is imposed only by a record that has counted all the attempts.
LEMMA BlockCases ==
    ASSUME LimiterInv, NEW h \in Handlers, Block(h)
    PROVE  /\ record # None /\ record.count >= MaxAttempts /\ record' # None
           /\ record'.count = record.count + 1
           /\ record'.firstAttempt = record.firstAttempt
<1>1. seen[h] \in Times /\ record' # None
  BY AttemptBlocks, AttemptKeepsInv DEF Attempt
<1>2. Entry(seen[h]) \in Records
  BY <1>1, EntryIsRecord
<1>3. record # None
  BY LimiterAssumption DEF Block, Entry, NewRecord
<1> QED
  BY <1>1, <1>2, <1>3 DEF Block, Decide, Entry

\* A refusal keeps the record; there is none to be refused by but the stored one.
LEMMA RefuseCases ==
    ASSUME LimiterInv, NEW h \in Handlers, Refuse(h)
    PROVE  record # None /\ record' = record
<1>1. seen[h] \in Times
  BY AttemptBlocks DEF Attempt
<1> QED
  BY <1>1, LimiterAssumption DEF Refuse, Blocked, Decide, Entry, NewRecord, Times

LEMMA BlocksStepIsLimiterStep == [BlocksNext]_blockVars => [LimiterNext]_limiterVars
BY DEF BlocksNext, blockVars, Grant, Impose, Other, LimiterNext, Attempt

LEMMA CountIsGrantedStep ==
    LimiterInv /\ CountIsGranted /\ [BlocksNext]_blockVars => CountIsGranted'
<1> SUFFICES ASSUME LimiterInv, CountIsGranted, [BlocksNext]_blockVars
             PROVE  CountIsGranted'
  OBVIOUS
<1>0. record # None => record.count \in Nat
  BY DEF LimiterInv, LimiterTypeOK, Records
<1> USE LimiterAssumption DEF CountIsGranted
<1>1. ASSUME NEW h \in Handlers, Grant(h)
      PROVE  CountIsGranted'
  BY <1>0, <1>1, GrantCases
<1>2. ASSUME NEW h \in Handlers, Impose(h)
      PROVE  CountIsGranted'
  BY <1>0, <1>2, BlockCases DEF Impose
<1>3. CASE Other
  <2>1. record' = record \/ record' = None
    BY <1>3, RefuseCases DEF Other, ClockMoves, ReadClock, CleanUp, Decide
  <2> QED
    BY <1>3, <2>1 DEF Other, history
<1>4. CASE UNCHANGED blockVars
  BY <1>4 DEF blockVars, limiterVars, history
<1> QED
  BY <1>1, <1>2, <1>3, <1>4 DEF BlocksNext

\* Whatever the clock does, and however late an attempt takes the lock, an
\* address is blocked only after its window has granted it every attempt.
THEOREM BlocksEarned == BlocksSpec => BlocksAreEarned
<1>1. BlocksInit => LimiterInv /\ CountIsGranted
  BY LimiterInvInit DEF BlocksInit, LimiterInit, CountIsGranted
<1>2. LimiterInv /\ CountIsGranted /\ [BlocksNext]_blockVars =>
         (LimiterInv /\ CountIsGranted)'
  BY LimiterInvStep, CountIsGrantedStep, BlocksStepIsLimiterStep
<1>3. LimiterInv /\ CountIsGranted /\ [BlocksNext]_blockVars =>
         [blockEnd' # blockEnd => granted >= MaxAttempts]_blockVars
  <2> SUFFICES ASSUME LimiterInv, CountIsGranted, NEW h \in Handlers, Impose(h)
               PROVE  granted >= MaxAttempts
    BY DEF BlocksNext, Grant, Other, history
  <2>1. record # None /\ record.count >= MaxAttempts
    BY BlockCases DEF Impose
  <2>2. record.count \in Nat
    BY <2>1 DEF LimiterInv, LimiterTypeOK, Records
  <2> QED
    BY <2>1, <2>2, LimiterAssumption DEF CountIsGranted
<1> QED
  BY <1>1, <1>2, <1>3, PTL DEF BlocksSpec, BlocksAreEarned

LEMMA GrantsInvStep ==
    ASSUME ~Adjustable
    PROVE  BlocksInv /\ GrantsInv /\ [BlocksNext]_blockVars => GrantsInv'
<1> SUFFICES ASSUME BlocksInv, GrantsInv, [BlocksNext]_blockVars
             PROVE  GrantsInv'
  OBVIOUS
<1>0. BlocksInv' /\ LimiterInv' /\ SeenInPast'
  BY BlocksInvStep DEF BlocksInv
<1>1. /\ now \in Int /\ BlockDuration \in Int /\ MaxAttempts \in Nat \ {0}
      /\ record # None => record.count \in Nat /\ record.firstAttempt \in Times
  BY LimiterAssumption DEF GrantsInv, LimiterInv, LimiterTypeOK, Records, Times
<1>2. \A t \in Times : t \in Int /\ t # None
  BY LimiterAssumption DEF Times
<1> USE DEF GrantsInv, WindowKnown
<1>3. ASSUME NEW h \in Handlers, Grant(h)
      PROVE  GrantsInv'
  <2>1. granted' \in Nat
    BY <1>3, GrantCases
  <2>2. CASE Opens(h)
    <3>1. /\ record'.count = 1 /\ record'.firstAttempt = seen[h]
          /\ opened' = seen[h] /\ granted' = 1 /\ seen[h] \in Times
          /\ record' # None
      BY <1>3, <2>2, GrantCases
    <3>2. crowded' = \/ crowded
                     \/ /\ opened # None /\ ~Lagging(h)
                        /\ seen[h] - opened <= BlockDuration
      BY <1>3, <2>2 DEF Grant
    <3>3. opened = None \/ Lagging(h) \/ seen[h] - opened > BlockDuration
      BY <1>1, <1>2, <2>2, <3>1 DEF Opens, WindowOver, Entry, Lagging
    <3>4. seen[h] \in Int /\ (opened # None => opened \in Int)
      BY <1>2, <3>1
    <3>5. ~crowded'
      BY <1>1, <3>2, <3>3, <3>4
    <3> QED
      BY <1>0, <1>1, <2>1, <3>1, <3>5
  <2>3. CASE ~Opens(h)
    BY <1>0, <1>1, <1>3, <2>1, <2>3, GrantCases
  <2> QED
    BY <2>2, <2>3
<1>4. ASSUME NEW h \in Handlers, Impose(h)
      PROVE  GrantsInv'
  <2>1. Block(h) /\ UNCHANGED <<opened, granted, crowded>>
    BY <1>4 DEF Impose
  <2>2. /\ record # None /\ record' # None
        /\ record'.count = record.count + 1
        /\ record'.firstAttempt = record.firstAttempt
    BY <2>1, BlockCases
  <2>3. now' = now
    BY <2>1 DEF Block, Decide
  <2> QED
    BY <1>0, <1>1, <2>1, <2>2, <2>3
<1>5. CASE ClockMoves /\ UNCHANGED history
  BY <1>0, <1>1, <1>2, <1>5 DEF ClockMoves, history
<1>6. ASSUME NEW task \in Tasks, ReadClock(task), UNCHANGED history
      PROVE  GrantsInv'
  BY <1>0, <1>6 DEF ReadClock, history
<1>7. ASSUME NEW h \in Handlers, Refuse(h), UNCHANGED history
      PROVE  GrantsInv'
  BY <1>0, <1>7, RefuseCases DEF Refuse, Decide, history
<1>8. CASE CleanUp /\ UNCHANGED history
  <2>1. now' = now /\ seen[Cleaner] \in Times /\ seen[Cleaner] <= now
    BY <1>8, LimiterAssumption
       DEF CleanUp, Decide, SeenInPast, LimiterInv, LimiterTypeOK, Tasks
  <2>2. /\ record' = record \/ record' = None
        /\ record' = None /\ record # None => ~Retained(seen[Cleaner])
    BY <1>8 DEF CleanUp, Decide
  <2>3. ~Retained(seen[Cleaner]) /\ record # None =>
           now - record.firstAttempt > BlockDuration * 2
    BY <1>1, <1>2, <2>1, LimiterAssumption DEF Retained
  <2> QED
    BY <1>0, <1>1, <1>8, <2>1, <2>2, <2>3 DEF history
<1>9. CASE UNCHANGED blockVars
  BY <1>0, <1>9 DEF blockVars, limiterVars, history
<1> QED
  BY <1>3, <1>4, <1>5, <1>6, <1>7, <1>8, <1>9 DEF BlocksNext, Other

\* With a clock that is not set back, and however outdated the reading that an
\* attempt or the clean-up decides by, a window grants MaxAttempts at most; one
\* that opens before the last is over is opened by a reading older than a block.
THEOREM GrantsBounded ==
    ASSUME ~Adjustable
    PROVE  BlocksSpec => []GrantsAreBounded
<1>1. BlocksInit => GrantsInv
  <2> SUFFICES ASSUME BlocksInit
               PROVE  GrantsInv
    OBVIOUS
  <2>1. LimiterInv /\ SeenInPast
    BY BlocksInvInit DEF BlocksInv
  <2>2. WindowKnown /\ granted \in Nat
    BY LimiterAssumption DEF BlocksInit, LimiterInit, WindowKnown
  <2> QED
    BY <2>1, <2>2 DEF BlocksInit, GrantsInv
<1>2. BlocksInv /\ GrantsInv /\ [BlocksNext]_blockVars => (BlocksInv /\ GrantsInv)'
  BY BlocksInvStep, GrantsInvStep
<1>3. GrantsInv => GrantsAreBounded
  BY DEF GrantsInv, WindowKnown, GrantsAreBounded
<1> QED
  BY <1>1, <1>2, <1>3, BlocksInvInit, PTL DEF BlocksSpec
=============================================================================
