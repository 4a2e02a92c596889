-------------------------- MODULE StaticFilesProofs -------------------------
(***************************************************************************)
(* The cache of static files is sound for any number of requests, changes  *)
(* and modification times, unless two contents share a modification time.  *)
(***************************************************************************)
EXTENDS StaticFiles, TLAPS

Files == [mtime : Times, data : Nat]

\* Every variable stays in its domain.
StaticTypeOK ==
    /\ file \in Files \cup {None}
    /\ cache \in Files \cup {None}
    /\ pc \in [Handlers -> {"idle", "lookup", "read", "insert", "served"}]
    /\ mtime \in [Handlers -> Times \cup {None}]
    /\ data \in [Handlers -> Nat \cup {None}]
    /\ version \in Nat
    /\ used \subseteq Times
    /\ clash \in BOOLEAN
    /\ held \in [Handlers -> SUBSET (Nat \cup {None})]

Content == IF file = None THEN None ELSE file.data

\* What a request has seen since it began includes what the file holds now.
SeesFile == \A h \in Handlers : pc[h] # "idle" => Content \in held[h]

\* A modification time in use is one that the file has had.
TimesWereUsed ==
    /\ file # None => file.mtime \in used
    /\ cache # None => cache.mtime \in used
    /\ \A h \in Handlers : pc[h] \in {"lookup", "read", "insert"} => mtime[h] \in used

\* A content that is about to be stored is the file's, if the times agree.
ReadAgrees ==
    \A h \in Handlers :
        pc[h] = "insert" /\ file # None /\ file.mtime = mtime[h] => data[h] = file.data

\* A request that looks up an entry of its time, or that will find one, has
\* seen its content in the file.
LookupSees ==
    \A h \in Handlers : pc[h] = "lookup" =>
        /\ cache # None /\ cache.mtime = mtime[h] => cache.data \in held[h]
        /\ \A g \in Handlers :
              pc[g] = "insert" /\ mtime[g] = mtime[h] => data[g] \in held[h]

InsertSees == \A h \in Handlers : pc[h] = "insert" => data[h] \in Nat \cap held[h]

StaticInv ==
    /\ StaticTypeOK
    /\ SeesFile
    /\ TimesWereUsed
    /\ InsertSees
    /\ clash \/ (ReadAgrees /\ LookupSees)
    /\ CacheAgrees
    /\ ServesCurrent

LEMMA StaticInvInit == StaticInit => StaticInv
<1> SUFFICES ASSUME StaticInit
             PROVE  StaticInv
  OBVIOUS
<1>1. StaticTypeOK
  BY DEF StaticInit, StaticTypeOK
<1>2. SeesFile /\ TimesWereUsed /\ InsertSees /\ ReadAgrees /\ LookupSees
  BY DEF StaticInit, SeesFile, TimesWereUsed, InsertSees, ReadAgrees, LookupSees
<1>3. CacheAgrees /\ ServesCurrent
  BY DEF StaticInit, CacheAgrees, ServesCurrent
<1> QED
  BY <1>1, <1>2, <1>3 DEF StaticInv

LEMMA StaticInvStep == StaticInv /\ [StaticNext]_staticVars => StaticInv'
<1> SUFFICES ASSUME StaticInv, [StaticNext]_staticVars
             PROVE  StaticInv'
  OBVIOUS
<1> USE DEF StaticInv, StaticTypeOK, Files
<1>1. ASSUME NEW t \in Times, Change(t)
      PROVE  StaticInv'
  <2> DEFINE v == version + 1
  <2>1. /\ v \in Nat /\ version' = v
        /\ file' \in Files /\ file'.mtime = t /\ file'.data = v
    BY <1>1 DEF Change
  <2>2. StaticTypeOK'
    BY <1>1, <2>1 DEF Change, locals
  <2>3. SeesFile'
    BY <1>1, <2>1, NoneAssumption DEF Change, locals, SeesFile, Content
  <2>4. TimesWereUsed' /\ InsertSees'
    BY <1>1, <2>1 DEF Change, locals, TimesWereUsed, InsertSees
  <2>5. clash' \/ (~clash /\ t \notin used)
    BY <1>1 DEF Change
  <2>6. clash' \/ (ReadAgrees' /\ LookupSees')
    BY <1>1, <2>1, <2>5 DEF Change, locals, TimesWereUsed, ReadAgrees, LookupSees
  <2>7. CacheAgrees'
    BY <1>1, <2>1, <2>5 DEF Change, locals, TimesWereUsed, CacheAgrees
  <2>8. ServesCurrent'
    BY <1>1, <2>5 DEF Change, locals, ServesCurrent
  <2> QED
    BY <2>2, <2>3, <2>4, <2>6, <2>7, <2>8
<1>2. CASE Delete
  BY <1>2
     DEF Delete, locals, SeesFile, Content, TimesWereUsed, InsertSees, ReadAgrees,
         LookupSees, CacheAgrees, ServesCurrent
<1>3. ASSUME NEW h \in Handlers, Stat(h)
      PROVE  StaticInv'
  BY <1>3
     DEF Stat, Respond, Goto, SeesFile, Content, TimesWereUsed, InsertSees, ReadAgrees,
         LookupSees, CacheAgrees, ServesCurrent
<1>4. ASSUME NEW h \in Handlers, Hit(h)
      PROVE  StaticInv'
  BY <1>4
     DEF Hit, Cached, Respond, Goto, history, SeesFile, Content, TimesWereUsed, InsertSees,
         ReadAgrees, LookupSees, CacheAgrees, ServesCurrent
<1>5. ASSUME NEW h \in Handlers, Miss(h)
      PROVE  StaticInv'
  BY <1>5
     DEF Miss, Goto, history, SeesFile, Content, TimesWereUsed, InsertSees,
         ReadAgrees, LookupSees, CacheAgrees, ServesCurrent
<1>6. ASSUME NEW h \in Handlers, Read(h)
      PROVE  StaticInv'
  BY <1>6
     DEF Read, Respond, Goto, history, SeesFile, Content, TimesWereUsed, InsertSees,
         ReadAgrees, LookupSees, CacheAgrees, ServesCurrent
<1>7. ASSUME NEW h \in Handlers, Insert(h)
      PROVE  StaticInv'
  <2>0. data' = data
    BY <1>7 DEF Insert, Respond
  <2>1. /\ pc[h] = "insert" /\ pc' = [pc EXCEPT ![h] = "served"]
        /\ data' = data
        /\ cache' \in Files /\ cache'.mtime = mtime[h] /\ cache'.data = data[h]
        /\ UNCHANGED <<file, mtime, history>>
    BY <1>7, <2>0 DEF Insert, Respond, Goto, TimesWereUsed, InsertSees
  <2>2. StaticTypeOK' /\ SeesFile' /\ TimesWereUsed' /\ InsertSees'
    BY <2>1 DEF history, SeesFile, Content, TimesWereUsed, InsertSees
  <2>3. clash' \/ (ReadAgrees' /\ LookupSees')
    BY <2>1 DEF history, ReadAgrees, LookupSees
  <2>4. CacheAgrees' /\ ServesCurrent'
    BY <2>1 DEF history, ReadAgrees, InsertSees, CacheAgrees, ServesCurrent
  <2> QED
    BY <2>2, <2>3, <2>4
<1>8. CASE UNCHANGED staticVars
  BY <1>8
     DEF staticVars, locals, history, SeesFile, Content, TimesWereUsed, InsertSees,
         ReadAgrees, LookupSees, CacheAgrees, ServesCurrent
<1> QED
  BY <1>1, <1>2, <1>3, <1>4, <1>5, <1>6, <1>7, <1>8 DEF StaticNext

\* Unless two contents share a modification time, an entry with the file's time has
\* the file's content, in every interleaving of look-ups, reads and changes.
THEOREM CacheIsSound == StaticSpec => []CacheAgrees
BY StaticInvInit, StaticInvStep, PTL DEF StaticSpec, StaticInv

\* ... and every response is a content that the file had while it was served.
THEOREM ResponsesAreCurrent == StaticSpec => []ServesCurrent
BY StaticInvInit, StaticInvStep, PTL DEF StaticSpec, StaticInv
=============================================================================
