------------------------- MODULE ServiceDefinitions -------------------------
(***************************************************************************)
(* ServiceManager together with the definition file of the service: the    *)
(* HTTP handlers that load it before they call the manager, the retry      *)
(* timer that loads it again, and the Web UI handlers that create, edit    *)
(* and delete it (src/src/webui_server.rs, src/src/config.rs).  The check  *)
(* of an editing handler, its write and the calls of the manager share no  *)
(* lock.                                                                   *)
(***************************************************************************)
EXTENDS SerialServiceManager

CONSTANTS
    Editors,    \* concurrent create, edit and delete requests
    Empty,      \* the content of a file that was truncated and not written
    Mangled     \* a short content written over a longer one

ASSUME FilesAssumption ==
    {None, Empty, Mangled} \cap Configs = {} /\ None \notin {Empty, Mangled}

VARIABLES
    file,       \* the definition file: a config, Empty, Mangled, or None
    loaded,     \* the config each call and each timer has loaded
    work,       \* the request each editor serves
    editor      \* program counter of each editor

editorVars == <<work, editor>>
defVars == <<vars, file, loaded, editorVars>>

Readable == file \in Configs

-----------------------------------------------------------------------------
\* The readers.  A request for an unreadable definition is answered with 404.

ReceiveLoaded(h, request) ==
    /\ Readable
    /\ Receive(h, request)
    /\ loaded' = [loaded EXCEPT ![h] = file]
    /\ UNCHANGED <<file, editorVars>>

\* The process is spawned from what its call has loaded.
CallLoaded(c) ==
    /\ CallStep(c)
    /\ \A p \in Pids : child[p] # child'[p] /\ pc[c] = "spawn" => config'[p] = loaded[c]
    /\ UNCHANGED <<file, loaded, editorVars>>

RetryLoaded(p) ==
    /\ Readable
    /\ TimerRestarts(p)
    /\ loaded' = [loaded EXCEPT ![p] = file]
    /\ UNCHANGED <<file, editorVars>>

RetryUnreadable(p) ==
    /\ ~Readable
    /\ TimerConfigLost(p)
    /\ UNCHANGED <<file, loaded, editorVars>>

Elsewhere(p) ==
    /\ ChildExits(p) \/ WatcherStep(p) \/ TimerWakes(p) \/ TimerStopped(p)
    /\ UNCHANGED <<file, loaded, editorVars>>

-----------------------------------------------------------------------------
\* The editors.  An invalid id or body is refused without any effect.

EditorGoto(e, from, to) ==
    /\ editor[e] = from
    /\ editor' = [editor EXCEPT ![e] = to]
    /\ work' = [work EXCEPT ![e] = IF to = "idle" THEN "none" ELSE @]
    /\ UNCHANGED <<vars, loaded>>

Submit(e, request) ==
    /\ editor[e] = "idle"
    /\ editor' = [editor EXCEPT ![e] = "exists"]
    /\ work' = [work EXCEPT ![e] = request]
    /\ UNCHANGED <<vars, file, loaded>>

Mutator(e) == IF work[e] = "delete" THEN "remove" ELSE "truncate"

\* A creation wants no definition, an edit or a deletion wants one.
CheckExists(e) ==
    /\ UNCHANGED file
    /\ EditorGoto(e, "exists", IF Readable = (work[e] = "new") THEN "idle"
                               ELSE IF work[e] = "new" THEN "truncate" ELSE "running")

\* Mutant of CheckRunning: the edit of a running service is let through.
CheckDeletedRunning(e) ==
    /\ UNCHANGED file
    /\ EditorGoto(e, "running",
                  IF processes # None /\ work[e] = "delete" THEN "idle" ELSE "operation")

\* get_detailed_status reads the maps one after the other.
CheckRunning(e) ==
    /\ UNCHANGED file
    /\ EditorGoto(e, "running", IF processes # None THEN "idle" ELSE "operation")

CheckOperation(e) ==
    /\ UNCHANGED file
    /\ EditorGoto(e, "operation", IF pendingOps # None THEN "idle" ELSE Mutator(e))

\* fs::write opens the file with truncation, creating it if it is missing.
Truncate(e) ==
    /\ EditorGoto(e, "truncate", "put")
    /\ file' = Empty

\* ... and then writes.  Two writers each write from the start of the file,
\* so a content over a longer one leaves the tail of that one behind.
Put(e) ==
    /\ EditorGoto(e, "put", "idle")
    /\ \/ file' \in Configs
       \/ file # Empty /\ file' = Mangled

\* The file that was opened is deleted: what is written to it is lost.
PutUnlinked(e) ==
    /\ EditorGoto(e, "unlinked", "idle")
    /\ UNCHANGED file

\* The file system refuses: a failed write leaves an empty file, a failed
\* removal is reported to the client as a success.
EditFails(e) ==
    /\ \E label \in {"truncate", "put", "remove"} : EditorGoto(e, label, "idle")
    /\ UNCHANGED file

Remove(e) ==
    /\ editor[e] = "remove"
    /\ editor' = [d \in Editors |-> IF d = e THEN "idle"
                                    ELSE IF editor[d] = "put" THEN "unlinked"
                                    ELSE editor[d]]
    /\ work' = [work EXCEPT ![e] = "none"]
    /\ file' = None
    /\ UNCHANGED <<vars, loaded>>

EditStep(e) ==
    \/ CheckExists(e) \/ CheckRunning(e) \/ CheckOperation(e)
    \/ Truncate(e) \/ Put(e) \/ PutUnlinked(e) \/ EditFails(e) \/ Remove(e)

EditRequests == {"new", "edit", "delete"}

DefInit ==
    /\ Init
    /\ file \in Configs
    /\ loaded = [c \in Callers |-> NoConfig]
    /\ work = [e \in Editors |-> "none"]
    /\ editor = [e \in Editors |-> "idle"]

DefNext ==
    \/ \E h \in Handlers, request \in Requests : ReceiveLoaded(h, request)
    \/ \E c \in Callers : CallLoaded(c)
    \/ \E p \in Pids : RetryLoaded(p) \/ RetryUnreadable(p) \/ Elsewhere(p)
    \/ \E e \in Editors, request \in EditRequests : Submit(e, request)
    \/ \E e \in Editors : EditStep(e)

DefSpec == DefInit /\ [][DefNext]_defVars

-----------------------------------------------------------------------------
\* Edits may overlap each other, but not a call of the manager.  Exits, their
\* watchers and sleeping timers are free to run in between.
NoEdit == \A e \in Editors : editor[e] = "idle"
NoCall == \A c \in Callers : pc[c] \notin CallLabels

ApartNext ==
    \/ \E h \in Handlers, request \in Requests : NoEdit /\ ReceiveLoaded(h, request)
    \/ \E c \in Callers : CallLoaded(c)
    \/ \E p \in Pids : \/ NoEdit /\ RetryLoaded(p)
                       \/ RetryUnreadable(p) \/ Elsewhere(p)
    \/ \E e \in Editors, request \in EditRequests : NoCall /\ Submit(e, request)
    \/ \E e \in Editors : EditStep(e)

ApartSpec == DefInit /\ [][ApartNext]_defVars

-----------------------------------------------------------------------------
\* "delete/edit blocked while running", docs/webui.md: a registered service
\* runs the definition that its file has, also while it is started or stopped.
RunsItsDefinition == processes # None => file = config[processes]
=============================================================================
