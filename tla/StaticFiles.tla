----------------------------- MODULE StaticFiles ----------------------------
(***************************************************************************)
(* serve_file of src/src/webui_server.rs for ONE file of the Web UI: the   *)
(* cache is keyed by the path and an entry is valid as long as the file    *)
(* has the modification time it was stored with.  The time is looked up    *)
(* before the mutex of the cache is taken and the content is read under    *)
(* it, while whoever deploys the Web UI changes the file.                  *)
(***************************************************************************)
EXTENDS Naturals

CONSTANTS
    Handlers,       \* concurrently served requests
    Times,          \* modification times
    None,           \* no file, no cache entry
    LastVersion     \* the contents are 1..LastVersion (bounds changes)

ASSUME LastVersionAssumption == LastVersion \in Nat
ASSUME NoneAssumption == None \notin [mtime : Times, data : Nat]

VARIABLES
    file,       \* [mtime, data] on disk, or None
    cache,      \* [mtime, data], or None
    pc,         \* program counter of each handler
    mtime,      \* its local of that name
    data,       \* its local of that name, then the response
    version,    \* history: the latest content
    used,       \* history: the modification times the file has had
    clash,      \* history: whether two contents have had the same one
    held        \* history: what the file has held since the request began

locals == <<pc, mtime, data>>
history == <<version, used, clash, held>>
staticVars == <<file, cache, locals, history>>

Goto(h, label) == pc' = [pc EXCEPT ![h] = label]

-----------------------------------------------------------------------------
\* The file.  A copy in place is two changes, the truncation and the write.

Change(t) ==
    /\ version < LastVersion
    /\ version' = version + 1
    /\ file' = [mtime |-> t, data |-> version']
    /\ used' = used \cup {t}
    /\ clash' = (clash \/ t \in used)
    /\ held' = [h \in Handlers |-> held[h] \cup {version'}]
    /\ UNCHANGED <<cache, locals>>

Delete ==
    /\ file # None
    /\ file' = None
    /\ held' = [h \in Handlers |-> held[h] \cup {None}]
    /\ UNCHANGED <<cache, locals, version, used, clash>>

-----------------------------------------------------------------------------
\* serve_file

Respond(h, content) ==
    /\ Goto(h, "served")
    /\ data' = [data EXCEPT ![h] = content]

\* fs::metadata; 404 if there is no file.
Stat(h) ==
    /\ pc[h] \in {"idle", "served"}
    /\ IF file = None
       THEN Respond(h, None) /\ UNCHANGED mtime
       ELSE /\ Goto(h, "lookup")
            /\ mtime' = [mtime EXCEPT ![h] = file.mtime]
            /\ UNCHANGED data
    /\ held' = [held EXCEPT ![h] = {IF file = None THEN None ELSE file.data}]
    /\ UNCHANGED <<file, cache, version, used, clash>>

Unlocked == \A h \in Handlers : pc[h] \notin {"read", "insert"}

\* Mutant of Cached: any entry will do.
CachedEver(h) == cache # None

Cached(h) == cache # None /\ cache.mtime = mtime[h]

Hit(h) ==
    /\ pc[h] = "lookup"
    /\ Unlocked
    /\ Cached(h)
    /\ Respond(h, cache.data)
    /\ UNCHANGED <<file, cache, mtime, history>>

\* The lock is kept until the entry is stored.
Miss(h) ==
    /\ pc[h] = "lookup"
    /\ Unlocked
    /\ ~Cached(h)
    /\ Goto(h, "read")
    /\ UNCHANGED <<file, cache, mtime, data, history>>

Read(h) ==
    /\ pc[h] = "read"
    /\ IF file = None
       THEN Respond(h, None)
       ELSE /\ Goto(h, "insert")
            /\ data' = [data EXCEPT ![h] = file.data]
    /\ UNCHANGED <<file, cache, mtime, history>>

\* Mutant of Insert: stored with the modification time the file has by now.
InsertRestat(h) ==
    /\ pc[h] = "insert"
    /\ cache' = [mtime |-> IF file = None THEN mtime[h] ELSE file.mtime,
                 data |-> data[h]]
    /\ Respond(h, data[h])
    /\ UNCHANGED <<file, mtime, history>>

Insert(h) ==
    /\ pc[h] = "insert"
    /\ cache' = [mtime |-> mtime[h], data |-> data[h]]
    /\ Respond(h, data[h])
    /\ UNCHANGED <<file, mtime, history>>

StaticInit ==
    /\ file = None
    /\ cache = None
    /\ pc = [h \in Handlers |-> "idle"]
    /\ mtime = [h \in Handlers |-> None]
    /\ data = [h \in Handlers |-> None]
    /\ version = 0
    /\ used = {}
    /\ clash = FALSE
    /\ held = [h \in Handlers |-> {}]

StaticNext ==
    \/ \E t \in Times : Change(t)
    \/ Delete
    \/ \E h \in Handlers : Stat(h) \/ Hit(h) \/ Miss(h) \/ Read(h) \/ Insert(h)

StaticSpec == StaticInit /\ [][StaticNext]_staticVars

-----------------------------------------------------------------------------
\* "cached in memory and invalidated when the file's mtime changes",
\* webui_server.rs:470: as long as no two contents share a modification time,
\* a response is a content that the file had while the request was served,
\* never an earlier one, although the time is looked up before the lock.
ServesCurrent ==
    clash \/ \A h \in Handlers : pc[h] = "served" => data[h] \in held[h]

\* An entry with the modification time of the file has the file's content, so that
\* no content is served for longer than the file has it.
CacheAgrees ==
    ~clash /\ file # None /\ cache # None /\ cache.mtime = file.mtime =>
        cache.data = file.data
=============================================================================
