---------------------------- MODULE ProcessTree -----------------------------
(***************************************************************************)
(* kill_process_tree of src/src/service_manager.rs: a depth-first walk     *)
(* over the processes of one service, which go on forking and exiting.     *)
(* Each call asks `ps` for the children of one process, walks each of      *)
(* them, and then signals the process itself.  A stop walks the tree with  *)
(* SIGTERM and again with SIGKILL, a force-stop with SIGKILL only.         *)
(***************************************************************************)
EXTENDS Naturals, Sequences

CONSTANTS
    Procs,      \* the processes that may come to be (bounds forks)
    Root,       \* the shell that the daemon started
    Reaper,     \* the process that adopts orphans
    Faults      \* "ps": it cannot be run, or does not know --ppid

ASSUME RootAssumption == Procs \subseteq Nat /\ Root \in Procs /\ Reaper \notin Procs
ASSUME FaultsAssumption == Faults \subseteq {"ps"}

VARIABLES
    state,      \* of each process: "unborn", "alive", "dead"
    parent,     \* of each process that was born
    pass,       \* "term", "kill" or "done"
    walk,       \* the stack of calls, innermost first
    blind,      \* history: whether ps has failed in the last pass
    listed,     \* history: whose children the last pass has asked for
    escaped     \* history: who left the tree, or joined it behind the walk

procVars == <<state, parent>>
walkVars == <<pass, walk>>
treeVars == <<procVars, walkVars, blind, listed, escaped>>

Alive == {p \in Procs : state[p] = "alive"}
Children(p) == {q \in Alive : parent[q] = p}

Call(p) == [pid |-> p, asked |-> FALSE, children |-> {}]

-----------------------------------------------------------------------------
\* The processes.

\* The process ends and its children are adopted.
Ends(p) ==
    /\ state' = [state EXCEPT ![p] = "dead"]
    /\ parent' = [q \in Procs |-> IF q \in Children(p) THEN Reaper ELSE parent[q]]

\* Children whose parent ends before the walk has signalled it are lost to it.
Orphaned(p) == escaped' = escaped \cup Children(p)

ProcExits(p) ==
    /\ state[p] = "alive"
    /\ Ends(p)
    /\ Orphaned(p)
    /\ UNCHANGED <<walkVars, blind, listed>>

Forks(p, q) ==
    /\ state[p] = "alive"
    /\ state[q] = "unborn"
    /\ state' = [state EXCEPT ![q] = "alive"]
    /\ parent' = [parent EXCEPT ![q] = p]
    /\ escaped' = IF p \in listed THEN escaped \cup {q} ELSE escaped
    /\ UNCHANGED <<walkVars, blind, listed>>

-----------------------------------------------------------------------------
\* The walk.

Walking(p) == walk # <<>> /\ Head(walk).pid = p

\* Mutant of AskPs: in the last pass the process is signalled first.
SignalFirst(p) ==
    /\ Walking(p)
    /\ ~Head(walk).asked
    /\ IF pass = "kill" /\ state[p] = "alive" THEN Ends(p) ELSE UNCHANGED procVars
    /\ walk' = <<[Head(walk) EXCEPT !.asked = TRUE, !.children = Children(p)']>>
                 \o Tail(walk)
    /\ listed' = listed \cup {p}
    /\ UNCHANGED <<pass, blind, escaped>>

\* ps copies the children that p has now.
AskPs(p) ==
    /\ Walking(p)
    /\ ~Head(walk).asked
    /\ walk' = <<[Head(walk) EXCEPT !.asked = TRUE, !.children = Children(p)]>>
                 \o Tail(walk)
    /\ listed' = listed \cup {p}
    /\ UNCHANGED <<procVars, pass, blind, escaped>>

PsFails(p) ==
    /\ "ps" \in Faults
    /\ Walking(p)
    /\ ~Head(walk).asked
    /\ walk' = <<[Head(walk) EXCEPT !.asked = TRUE]>> \o Tail(walk)
    /\ blind' = TRUE
    /\ UNCHANGED <<procVars, pass, listed, escaped>>

Descend(p, q) ==
    /\ Walking(p)
    /\ q \in Head(walk).children
    /\ walk' = <<Call(q), [Head(walk) EXCEPT !.children = @ \ {q}]>> \o Tail(walk)
    /\ UNCHANGED <<procVars, pass, blind, listed, escaped>>

\* The call returns; it was the last one when the stack is empty.
Return == walk' = Tail(walk)

Walked(p) ==
    /\ Walking(p)
    /\ Head(walk).asked
    /\ Head(walk).children = {}

\* A process that ends by SIGTERM may do so now or later (ProcExits), or never.
Terminate(p) ==
    /\ pass = "term"
    /\ Walked(p)
    /\ Return
    /\ \/ state[p] = "alive" /\ Ends(p) /\ Orphaned(p)
       \/ UNCHANGED <<procVars, escaped>>
    /\ UNCHANGED <<pass, blind, listed>>

\* Mutant of Kill: the walk is repeated as long as the process has children.
KillAgain(p) ==
    /\ pass = "kill"
    /\ Walked(p)
    /\ IF Children(p) = {} THEN Return ELSE walk' = <<Call(p)>> \o Tail(walk)
    /\ IF state[p] = "alive" /\ Children(p) = {} THEN Ends(p) ELSE UNCHANGED procVars
    /\ UNCHANGED <<pass, blind, listed, escaped>>

\* Mutant of Kill: the children are signalled, the process itself is not.
KillChildrenOnly(p) ==
    /\ pass = "kill"
    /\ Walked(p)
    /\ Return
    /\ IF state[p] = "alive" /\ p # Root THEN Ends(p) ELSE UNCHANGED procVars
    /\ UNCHANGED <<pass, blind, listed, escaped>>

Kill(p) ==
    /\ pass = "kill"
    /\ Walked(p)
    /\ Return
    /\ IF state[p] = "alive" THEN Ends(p) ELSE UNCHANGED procVars
    /\ UNCHANGED <<pass, blind, listed, escaped>>

\* stop calls the function again, with SIGKILL.
SecondPass ==
    /\ pass = "term"
    /\ walk = <<>>
    /\ pass' = "kill"
    /\ walk' = <<Call(Root)>>
    /\ blind' = FALSE
    /\ listed' = {}
    /\ UNCHANGED <<procVars, escaped>>

Finish ==
    /\ pass = "kill"
    /\ walk = <<>>
    /\ pass' = "done"
    /\ UNCHANGED <<procVars, walk, blind, listed, escaped>>

WalkStep ==
    \/ \E p \in Procs : AskPs(p) \/ PsFails(p) \/ Terminate(p) \/ Kill(p)
    \/ \E p, q \in Procs : Descend(p, q)
    \/ SecondPass \/ Finish

-----------------------------------------------------------------------------
\* The tree as stop or force_stop finds it.  A process whose parent is gone
\* already, such as one that was put in the background, is out of reach.

TreeInit ==
    /\ state \in [Procs -> {"alive", "unborn"}] /\ state[Root] = "alive"
    /\ parent \in [Procs -> Procs \cup {Reaper}]
    /\ \A p \in Procs :
          IF p = Root \/ state[p] = "unborn" THEN parent[p] = Reaper
          ELSE parent[p] = Reaper \/ (parent[p] \in Alive /\ parent[p] < p)
    /\ pass \in {"term", "kill"}
    /\ walk = <<Call(Root)>>
    /\ blind = FALSE
    /\ listed = {}
    /\ escaped = {p \in Alive \ {Root} : parent[p] = Reaper}

TreeNext ==
    \/ WalkStep
    \/ \E p \in Procs : ProcExits(p)
    \/ \E p, q \in Procs : Forks(p, q)

\* The thread of the call is scheduled; ps always answers.  Nothing is assumed
\* of the processes, except that there are at most Procs of them.
TreeSpec == TreeInit /\ [][TreeNext]_treeVars /\ WF_treeVars(WalkStep)

-----------------------------------------------------------------------------
\* When stop or force_stop unregisters the service, its shell is dead, however
\* the tree has changed under the walk and even if ps fails: this is what
\* Kill of ServiceManager relies on.
RootDies == pass = "done" => state[Root] # "alive"

\* A process outlives the walk only together with its parent, or because its
\* parent had ended before the walk came to it (by itself or by the SIGTERM of
\* the first pass), or because it was forked by a process whose children the
\* last pass had listed already, or because ps failed.  In particular a force-stop
\* of a tree that does not change leaves nothing behind.
SurvivorsEscaped ==
    pass = "done" /\ ~blind =>
        \A p \in Alive : p \in escaped \/ parent[p] \in Alive

\* The walk ends, although the tree grows under it.
WalkEnds == <>(pass = "done")
=============================================================================
