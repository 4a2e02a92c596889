-------------------------- MODULE ProcessTreeProofs -------------------------
(***************************************************************************)
(* The shell of a service dies in every walk, for any processes that come  *)
(* to be meanwhile, and whether or not ps works.                           *)
(***************************************************************************)
EXTENDS ProcessTree, TLAPS

Calls == [pid : Procs, asked : BOOLEAN, children : SUBSET Procs]

\* The part of the state that the death of the root depends on stays in its domain.
WalkTypeOK ==
    /\ state \in [Procs -> {"unborn", "alive", "dead"}]
    /\ pass \in {"term", "kill", "done"}
    /\ walk \in Seq(Calls)

\* The outermost call of a SIGKILL walk is the one for the root, which is
\* signalled when everything else has returned.
RootIsLast ==
    pass = "kill" /\ state[Root] = "alive" =>
        walk # <<>> /\ walk[Len(walk)].pid = Root

\* The root is not born again.
RootWasBorn == state[Root] # "unborn"

TreeInv == WalkTypeOK /\ RootIsLast /\ RootWasBorn /\ RootDies

\* A step that replaces the innermost call by one or two calls, the last of
\* them for the same process, keeps the outermost call's process.
LEMMA WalkChanges ==
    ASSUME walk \in Seq(Calls), walk # <<>>,
           NEW c \in Calls, c.pid = Head(walk).pid, NEW d \in Calls
    PROVE  /\ <<c>> \o Tail(walk) \in Seq(Calls)
           /\ <<d, c>> \o Tail(walk) \in Seq(Calls)
           /\ <<c>> \o Tail(walk) # <<>>
           /\ <<d, c>> \o Tail(walk) # <<>>
           /\ LET w == <<c>> \o Tail(walk) IN w[Len(w)].pid = walk[Len(walk)].pid
           /\ LET w == <<d, c>> \o Tail(walk) IN w[Len(w)].pid = walk[Len(walk)].pid
<1>1. /\ Tail(walk) \in Seq(Calls) /\ Len(Tail(walk)) = Len(walk) - 1
      /\ Len(walk) \in Nat \ {0}
      /\ \A i \in 1..Len(walk) - 1 : Tail(walk)[i] = walk[i + 1]
      /\ Head(walk) = walk[1]
  OBVIOUS
<1>2. <<c>> \in Seq(Calls) /\ <<d, c>> \in Seq(Calls)
  OBVIOUS
<1> QED
  BY <1>1, <1>2

\* When the innermost call returns, the outermost stays, unless it was that call.
LEMMA WalkReturns ==
    ASSUME walk \in Seq(Calls), walk # <<>>
    PROVE  /\ Tail(walk) \in Seq(Calls)
           /\ Tail(walk) # <<>> => Tail(walk)[Len(Tail(walk))] = walk[Len(walk)]
           /\ Tail(walk) = <<>> => Head(walk) = walk[Len(walk)]
OBVIOUS

LEMMA TreeInvInit == TreeInit => TreeInv
BY RootAssumption
   DEF TreeInit, TreeInv, WalkTypeOK, RootIsLast, RootWasBorn, RootDies, Calls, Call

\* The end of a process changes nothing else that matters here.
LEMMA EndsKeepsInv ==
    ASSUME TreeInv, NEW p \in Procs, Ends(p), UNCHANGED walkVars
    PROVE  TreeInv'
BY RootAssumption
   DEF Ends, TreeInv, WalkTypeOK, RootIsLast, RootWasBorn, RootDies, walkVars

LEMMA TreeInvStep == TreeInv /\ [TreeNext]_treeVars => TreeInv'
<1> SUFFICES ASSUME TreeInv, [TreeNext]_treeVars
             PROVE  TreeInv'
  OBVIOUS
<1> USE RootAssumption
<1> USE DEF TreeInv, WalkTypeOK, RootIsLast, RootWasBorn, RootDies
<1>1. ASSUME NEW p \in Procs, ProcExits(p)
      PROVE  TreeInv'
  BY <1>1, EndsKeepsInv DEF ProcExits
<1>2. ASSUME NEW p \in Procs, NEW q \in Procs, Forks(p, q)
      PROVE  TreeInv'
  BY <1>2 DEF Forks, walkVars
<1>3. ASSUME NEW p \in Procs, AskPs(p)
      PROVE  TreeInv'
  <2> DEFINE c == [Head(walk) EXCEPT !.asked = TRUE, !.children = Children(p)]
  <2>1. walk # <<>> /\ walk' = <<c>> \o Tail(walk) /\ UNCHANGED <<procVars, pass>>
    BY <1>3 DEF AskPs, Walking
  <2>2. Head(walk) \in Calls
    BY <2>1
  <2>3. c \in Calls /\ c.pid = Head(walk).pid
    BY <2>2 DEF Calls, Children, Alive
  <2> QED
    BY <2>1, <2>3, WalkChanges DEF procVars
<1>4. ASSUME NEW p \in Procs, PsFails(p)
      PROVE  TreeInv'
  <2> DEFINE c == [Head(walk) EXCEPT !.asked = TRUE]
  <2>1. walk # <<>> /\ walk' = <<c>> \o Tail(walk) /\ UNCHANGED <<procVars, pass>>
    BY <1>4 DEF PsFails, Walking
  <2>2. Head(walk) \in Calls
    BY <2>1
  <2>3. c \in Calls /\ c.pid = Head(walk).pid
    BY <2>2 DEF Calls
  <2> QED
    BY <2>1, <2>3, WalkChanges DEF procVars
<1>5. ASSUME NEW p \in Procs, NEW q \in Procs, Descend(p, q)
      PROVE  TreeInv'
  <2> DEFINE c == [Head(walk) EXCEPT !.children = @ \ {q}]
  <2>1. /\ walk # <<>> /\ walk' = <<Call(q), c>> \o Tail(walk)
        /\ UNCHANGED <<procVars, pass>>
    BY <1>5 DEF Descend, Walking
  <2>2. Head(walk) \in Calls
    BY <2>1
  <2>3. Call(q) \in Calls /\ c \in Calls /\ c.pid = Head(walk).pid
    BY <2>2 DEF Calls, Call
  <2> QED
    BY <2>1, <2>3, WalkChanges DEF procVars
<1>6. ASSUME NEW p \in Procs, Terminate(p)
      PROVE  TreeInv'
  <2>1. walk # <<>> /\ walk' = Tail(walk) /\ pass = "term" /\ pass' = pass
    BY <1>6 DEF Terminate, Walked, Walking, Return
  <2>2. Ends(p) \/ UNCHANGED state
    BY <1>6 DEF Terminate, procVars
  <2> QED
    BY <2>1, <2>2, WalkReturns DEF Ends
<1>7. ASSUME NEW p \in Procs, Kill(p)
      PROVE  TreeInv'
  <2>1. /\ walk # <<>> /\ walk' = Tail(walk) /\ pass = "kill" /\ pass' = pass
        /\ Head(walk).pid = p
    BY <1>7 DEF Kill, Walked, Walking, Return
  <2>2. /\ state' \in [Procs -> {"unborn", "alive", "dead"}]
        /\ state'[p] # "alive"
        /\ \A q \in Procs : q # p => state'[q] = state[q]
        /\ state'[p] = "unborn" => state[p] = "unborn"
    BY <1>7 DEF Kill, Ends, procVars
  <2>3. walk' = <<>> => state'[Root] # "alive"
    BY <2>1, <2>2, WalkReturns
  <2> QED
    BY <2>1, <2>2, <2>3, WalkReturns
<1>8. CASE SecondPass
  BY <1>8 DEF SecondPass, procVars, Call, Calls
<1>9. CASE Finish
  BY <1>9 DEF Finish, procVars
<1>10. CASE UNCHANGED treeVars
  BY <1>10 DEF treeVars, procVars, walkVars
<1> QED
  BY <1>1, <1>2, <1>3, <1>4, <1>5, <1>6, <1>7, <1>8, <1>9, <1>10 DEF TreeNext, WalkStep

\* Whatever the processes do, the shell is dead when the walk is over.
THEOREM RootIsKilled == TreeSpec => []RootDies
BY TreeInvInit, TreeInvStep, PTL DEF TreeSpec, TreeInv

-----------------------------------------------------------------------------
(***************************************************************************)
(* Who survives a walk.  The argument is that the last walk signals a      *)
(* process only when each of its children has been signalled or has        *)
(* escaped, which is a fact about every call on the stack, not only about  *)
(* the innermost one: the children of an outer call are copied long before *)
(* its process is signalled.                                               *)
(***************************************************************************)

\* Among the processes that are alive and have not escaped, only the root is
\* without a living parent.
NotOrphaned ==
    pass = "term" \/ ~blind =>
        \A p \in Alive \ escaped : p = Root \/ parent[p] \in Alive

\* In the last walk, every living child of a process whose children have been
\* asked for has escaped, is yet to be walked, or is being walked.
ChildrenAhead ==
    pass = "kill" /\ ~blind =>
        \A i \in 1..Len(walk) : walk[i].asked =>
            /\ walk[i].pid \in listed
            /\ \A q \in Children(walk[i].pid) \ (escaped \cup walk[i].children) :
                  i > 1 /\ q = walk[i - 1].pid

EscapeInv ==
    /\ parent \in [Procs -> Procs \cup {Reaper}]
    /\ blind \in BOOLEAN
    /\ NotOrphaned
    /\ ChildrenAhead

\* The calls on the stack after the innermost one is replaced by c, after it
\* is replaced by c and calls d, and after it returns.
LEMMA WalkCalls ==
    ASSUME walk \in Seq(Calls), walk # <<>>, NEW c \in Calls, NEW d \in Calls
    PROVE  /\ Len(walk) \in Nat \ {0} /\ Head(walk) = walk[1]
           /\ LET w == <<c>> \o Tail(walk)
              IN  /\ Len(w) = Len(walk) /\ w[1] = c
                  /\ \A i \in 2..Len(walk) : w[i] = walk[i]
           /\ LET w == <<d, c>> \o Tail(walk)
              IN  /\ Len(w) = Len(walk) + 1 /\ w[1] = d /\ w[2] = c
                  /\ \A i \in 3..Len(walk) + 1 : w[i] = walk[i - 1]
           /\ LET w == Tail(walk)
              IN  /\ Len(w) = Len(walk) - 1
                  /\ \A i \in 1..Len(walk) - 1 : w[i] = walk[i + 1]
<1>1. /\ Tail(walk) \in Seq(Calls) /\ Len(Tail(walk)) = Len(walk) - 1
      /\ Len(walk) \in Nat \ {0}
      /\ \A i \in 1..Len(walk) - 1 : Tail(walk)[i] = walk[i + 1]
      /\ Head(walk) = walk[1]
  OBVIOUS
<1>2. <<c>> \in Seq(Calls) /\ <<d, c>> \in Seq(Calls)
  OBVIOUS
<1> QED
  BY <1>1, <1>2

LEMMA EscapeInvInit == TreeInit => EscapeInv
<1> SUFFICES ASSUME TreeInit
             PROVE  EscapeInv
  OBVIOUS
<1>1. walk = <<Call(Root)>> /\ Len(walk) = 1 /\ ~walk[1].asked
  BY DEF TreeInit, Call
<1>2. NotOrphaned
  BY DEF TreeInit, NotOrphaned, Alive
<1>3. ChildrenAhead
  BY <1>1 DEF ChildrenAhead
<1> QED
  BY <1>2, <1>3 DEF TreeInit, EscapeInv

\* The end of a process adds nobody's child, and orphans only its own children.
LEMMA EndsOrphansOnlyChildren ==
    ASSUME TreeInv, EscapeInv, NEW p \in Procs, Ends(p)
    PROVE  /\ parent' \in [Procs -> Procs \cup {Reaper}]
           /\ \A x \in Procs : Children(x)' \subseteq Children(x) \ {p}
           /\ Alive' = Alive \ {p}
           /\ \A q \in Alive \ Children(p) : parent'[q] = parent[q]
           /\ \A q \in Alive \ Children(p) : parent[q] # p
BY RootAssumption DEF Ends, TreeInv, WalkTypeOK, EscapeInv, Children, Alive

LEMMA EscapeInvStep == TreeInv /\ EscapeInv /\ [TreeNext]_treeVars => EscapeInv'
<1> SUFFICES ASSUME TreeInv, EscapeInv, [TreeNext]_treeVars
             PROVE  EscapeInv'
  OBVIOUS
<1> USE RootAssumption
<1> USE DEF TreeInv, WalkTypeOK, EscapeInv
<1>0. Len(walk) \in Nat /\ \A i \in 1..Len(walk) : walk[i].pid \in Procs
  <2>1. Len(walk) \in Nat /\ \A i \in 1..Len(walk) : walk[i] \in Calls
    OBVIOUS
  <2> QED
    BY <2>1 DEF Calls
<1>1. ASSUME NEW p \in Procs, ProcExits(p)
      PROVE  EscapeInv'
  <2>1. /\ Ends(p) /\ escaped' = escaped \cup Children(p)
        /\ UNCHANGED <<pass, walk, blind, listed>>
    BY <1>1 DEF ProcExits, Orphaned, walkVars
  <2>2. NotOrphaned'
    BY <2>1, EndsOrphansOnlyChildren DEF NotOrphaned
  <2>3. ChildrenAhead'
    <3> SUFFICES ASSUME pass = "kill", ~blind, NEW i \in 1..Len(walk), walk[i].asked
                 PROVE  /\ walk[i].pid \in listed
                        /\ \A q \in Children(walk[i].pid)'
                                    \ (escaped' \cup walk[i].children) :
                              i > 1 /\ q = walk[i - 1].pid
      BY <2>1 DEF ChildrenAhead
    <3>1. Children(walk[i].pid)' \subseteq Children(walk[i].pid)
      BY <1>0, <2>1, EndsOrphansOnlyChildren
    <3> QED
      BY <2>1, <3>1 DEF ChildrenAhead
  <2> QED
    BY <2>1, <2>2, <2>3, EndsOrphansOnlyChildren
<1>2. ASSUME NEW p \in Procs, NEW q \in Procs, Forks(p, q)
      PROVE  EscapeInv'
  <2>1. /\ UNCHANGED <<pass, walk, blind, listed>>
        /\ Alive' = Alive \cup {q} /\ q \notin Alive /\ p \in Alive
        /\ parent' = [parent EXCEPT ![q] = p]
        /\ escaped' = IF p \in listed THEN escaped \cup {q} ELSE escaped
    BY <1>2 DEF Forks, Alive, walkVars
  <2>2. NotOrphaned'
    BY <2>1 DEF NotOrphaned, Alive
  <2>3. \A x \in Procs : Children(x)' = IF x = p THEN Children(x) \cup {q} ELSE Children(x)
    BY <2>1 DEF Children, Alive
  <2>4. ChildrenAhead'
    <3> SUFFICES ASSUME pass = "kill", ~blind, NEW i \in 1..Len(walk), walk[i].asked
                 PROVE  /\ walk[i].pid \in listed
                        /\ \A r \in Children(walk[i].pid)'
                                    \ (escaped' \cup walk[i].children) :
                              i > 1 /\ r = walk[i - 1].pid
      BY <2>1 DEF ChildrenAhead
    <3>1. walk[i].pid \in listed
      BY DEF ChildrenAhead
    <3>2. Children(walk[i].pid)' \ escaped' \subseteq Children(walk[i].pid) \ escaped
      BY <1>0, <2>1, <2>3, <3>1
    <3> QED
      BY <3>1, <3>2 DEF ChildrenAhead
  <2> QED
    BY <2>1, <2>2, <2>4
<1>3. ASSUME NEW p \in Procs, AskPs(p)
      PROVE  EscapeInv'
  <2> DEFINE c == [Head(walk) EXCEPT !.asked = TRUE, !.children = Children(p)]
  <2>1. /\ walk # <<>> /\ walk' = <<c>> \o Tail(walk) /\ Head(walk).pid = p
        /\ listed' = listed \cup {p} /\ UNCHANGED <<procVars, pass, blind, escaped>>
    BY <1>3 DEF AskPs, Walking
  <2>2. Head(walk) \in Calls
    BY <2>1
  <2>3. c \in Calls /\ c.pid = p /\ c.children = Children(p)
    BY <2>1, <2>2 DEF Calls, Children, Alive
  <2>4. UNCHANGED <<Alive, Children(p)>> /\ \A x \in Procs : Children(x)' = Children(x)
    BY <2>1 DEF procVars, Alive, Children
  <2> HIDE DEF c
  <2>5. /\ Len(walk') = Len(walk) /\ walk'[1] = c /\ walk[1].pid = p
        /\ \A i \in 2..Len(walk) : walk'[i] = walk[i]
    BY <2>1, <2>3, WalkCalls
  <2>6. ASSUME pass = "kill", ~blind, NEW i \in 1..Len(walk), walk'[i].asked
        PROVE  /\ walk'[i].pid \in listed'
               /\ \A q \in Children(walk[i].pid)' \ (escaped \cup walk'[i].children) :
                     i > 1 /\ q = walk'[i - 1].pid
    <3>1. CASE i = 1
      BY <2>1, <2>3, <2>4, <2>5, <3>1
    <3>2. CASE i \in 2..Len(walk)
      <4>1. walk'[i] = walk[i] /\ walk'[i - 1].pid = walk[i - 1].pid
        BY <1>0, <2>3, <2>5, <3>2
      <4> QED
        BY <1>0, <2>1, <2>4, <2>6, <4>1 DEF ChildrenAhead
    <3> QED
      BY <1>0, <3>1, <3>2
  <2>7. ChildrenAhead'
    BY <2>1, <2>5, <2>6 DEF ChildrenAhead
  <2> QED
    BY <2>1, <2>4, <2>7 DEF procVars, NotOrphaned
<1>4. ASSUME NEW p \in Procs, PsFails(p)
      PROVE  EscapeInv'
  BY <1>4 DEF PsFails, procVars, NotOrphaned, ChildrenAhead, Alive
<1>5. ASSUME NEW p \in Procs, NEW q \in Procs, Descend(p, q)
      PROVE  EscapeInv'
  <2> DEFINE c == [Head(walk) EXCEPT !.children = @ \ {q}]
  <2>1. /\ walk # <<>> /\ walk' = <<Call(q), c>> \o Tail(walk)
        /\ UNCHANGED <<procVars, pass, blind, listed, escaped>>
    BY <1>5 DEF Descend, Walking
  <2>2. Head(walk) \in Calls
    BY <2>1
  <2>3. /\ Call(q) \in Calls /\ Call(q).pid = q /\ ~Call(q).asked
        /\ c \in Calls /\ c.pid = walk[1].pid /\ c.asked = walk[1].asked
        /\ c.children = walk[1].children \ {q}
    BY <2>1, <2>2, Head(walk) = walk[1] DEF Calls, Call
  <2>4. UNCHANGED Alive /\ \A x \in Procs : Children(x)' = Children(x)
    BY <2>1 DEF procVars, Alive, Children
  <2> HIDE DEF c
  <2>5. /\ Len(walk') = Len(walk) + 1 /\ walk'[1] = Call(q) /\ walk'[2] = c
        /\ \A i \in 3..Len(walk) + 1 : walk'[i] = walk[i - 1]
        /\ Len(walk) > 0
    BY <2>1, <2>3, WalkCalls
  <2>6. ASSUME pass = "kill", ~blind, NEW i \in 1..Len(walk) + 1, walk'[i].asked
        PROVE  /\ walk'[i].pid \in listed
               /\ \A r \in Children(walk[i].pid)' \ (escaped \cup walk'[i].children) :
                     i > 1 /\ r = walk'[i - 1].pid
    <3>1. i # 1
      BY <2>3, <2>5, <2>6
    <3>2. CASE i = 2
      <4>1. walk'[i] = c /\ walk'[i - 1].pid = q /\ 1 \in 1..Len(walk) /\ walk[1].asked
        BY <1>0, <2>3, <2>5, <2>6, <3>2
      <4>2. /\ walk[1].pid \in listed
            /\ Children(walk[1].pid) \subseteq escaped \cup walk[1].children
        BY <2>6, <4>1 DEF ChildrenAhead
      <4>3. Children(walk[i].pid)' = Children(walk[1].pid)
        BY <1>0, <2>3, <2>4, <4>1
      <4> QED
        BY <2>1, <2>3, <3>2, <4>1, <4>2, <4>3
    <3>3. CASE i \in 3..Len(walk) + 1
      <4> DEFINE j == i - 1
      <4>1. j \in 2..Len(walk) /\ walk'[i] = walk[j]
        BY <1>0, <2>5, <3>3
      <4>2. walk'[j].pid = walk[j - 1].pid
        <5>1. CASE j = 2
          BY <2>3, <2>5, <5>1
        <5>2. CASE j \in 3..Len(walk)
          BY <1>0, <2>5, <5>2
        <5> QED
          BY <1>0, <4>1, <5>1, <5>2
      <4>3. /\ walk[j].pid \in listed /\ walk[j].pid \in Procs
            /\ \A r \in Children(walk[j].pid) \ (escaped \cup walk[j].children) :
                  r = walk[j - 1].pid
        <5> HIDE DEF j
        <5> QED
          BY <1>0, <2>6, <4>1 DEF ChildrenAhead
      <4>4. Children(walk[i].pid)' = Children(walk[j].pid)
        BY <2>4, <4>1, <4>3
      <4> QED
        BY <2>1, <3>3, <4>1, <4>2, <4>3, <4>4
    <3> QED
      BY <1>0, <3>1, <3>2, <3>3
  <2>7. ChildrenAhead'
    BY <2>1, <2>5, <2>6 DEF ChildrenAhead
  <2> QED
    BY <2>1, <2>4, <2>7 DEF procVars, NotOrphaned
<1>6. ASSUME NEW p \in Procs, Terminate(p)
      PROVE  EscapeInv'
  <2>1. /\ pass = "term" /\ pass' = pass /\ UNCHANGED <<blind, listed>>
        /\ \/ Ends(p) /\ escaped' = escaped \cup Children(p)
           \/ UNCHANGED <<state, parent, escaped>>
    BY <1>6 DEF Terminate, Orphaned, procVars
  <2>2. NotOrphaned'
    BY <2>1, EndsOrphansOnlyChildren DEF NotOrphaned, Alive
  <2> QED
    BY <2>1, <2>2, EndsOrphansOnlyChildren DEF ChildrenAhead
<1>7. ASSUME NEW p \in Procs, Kill(p)
      PROVE  EscapeInv'
  <2>1. /\ walk # <<>> /\ walk' = Tail(walk) /\ pass = "kill" /\ pass' = pass
        /\ Head(walk).pid = p /\ Head(walk).asked /\ Head(walk).children = {}
        /\ UNCHANGED <<blind, listed, escaped>>
        /\ Ends(p) \/ (state[p] # "alive" /\ UNCHANGED <<state, parent>>)
    BY <1>7 DEF Kill, Walked, Walking, Return, procVars
  <2>2. Head(walk) \in Calls
    BY <2>1
  <2>3. /\ parent' \in [Procs -> Procs \cup {Reaper}]
        /\ \A x \in Procs : Children(x)' \subseteq Children(x) \ {p}
        /\ Alive' = Alive \ {p}
        /\ \A q \in Alive \ Children(p) : parent'[q] = parent[q] /\ parent[q] # p
    BY <2>1, EndsOrphansOnlyChildren DEF Alive, Children
  <2>4. ~blind => Children(p) \subseteq escaped
    BY <2>1, <2>2, WalkCalls DEF ChildrenAhead
  <2>5. NotOrphaned'
    BY <2>1, <2>3, <2>4 DEF NotOrphaned
  <2>6. ChildrenAhead'
    <3>1. /\ Len(walk') = Len(walk) - 1 /\ Head(walk) = walk[1]
          /\ \A i \in 1..Len(walk) - 1 : walk'[i] = walk[i + 1]
      BY <2>1, <2>2, WalkCalls
    <3>2. ASSUME ~blind, NEW i \in 1..Len(walk) - 1, walk'[i].asked
          PROVE  /\ walk'[i].pid \in listed
                 /\ \A q \in Children(walk[i].pid)' \ (escaped \cup walk'[i].children) :
                       i > 1 /\ q = walk'[i - 1].pid
      <4> DEFINE j == i + 1
      <4>1. /\ j \in 2..Len(walk) /\ walk'[i] = walk[j]
            /\ i > 1 => walk'[i - 1] = walk[i]
            /\ i = 1 => walk[i].pid = p
            /\ j - 1 = i /\ i \in 1..Len(walk)
        BY <1>0, <2>1, <3>1
      <4>2. /\ walk[j].pid \in listed /\ walk[j].pid \in Procs
            /\ \A q \in Children(walk[j].pid) \ (escaped \cup walk[j].children) :
                  q = walk[j - 1].pid
        <5> HIDE DEF j
        <5> QED
          BY <1>0, <2>1, <3>2, <4>1 DEF ChildrenAhead
      <4>3. Children(walk[i].pid)' \subseteq Children(walk[j].pid) \ {p}
        BY <2>3, <4>1, <4>2
      <4> QED
        BY <4>1, <4>2, <4>3
    <3> QED
      BY <2>1, <3>1, <3>2 DEF ChildrenAhead
  <2> QED
    BY <2>1, <2>3, <2>5, <2>6
<1>8. CASE SecondPass
  <2>1. walk' = <<Call(Root)>> /\ Len(walk') = 1 /\ ~walk'[1].asked
    BY <1>8 DEF SecondPass, Call
  <2>2. ChildrenAhead'
    BY <2>1 DEF ChildrenAhead
  <2> QED
    BY <1>8, <2>2 DEF SecondPass, procVars, NotOrphaned, Alive
<1>9. CASE Finish
  BY <1>9 DEF Finish, procVars, NotOrphaned, ChildrenAhead, Alive
<1>10. CASE UNCHANGED treeVars
  BY <1>10 DEF treeVars, procVars, walkVars, NotOrphaned, ChildrenAhead, Alive, Children
<1> QED
  BY <1>1, <1>2, <1>3, <1>4, <1>5, <1>6, <1>7, <1>8, <1>9, <1>10 DEF TreeNext, WalkStep

\* For any tree that goes on forking and exiting under the walk: whoever
\* outlives it without a living parent had left the tree before the walk came
\* to it, or was forked behind it.
THEOREM OnlyEscapedSurvive == TreeSpec => []SurvivorsEscaped
<1>1. TreeInv /\ EscapeInv => SurvivorsEscaped
  BY DEF TreeInv, RootDies, EscapeInv, NotOrphaned, SurvivorsEscaped, Alive
<1>2. TreeInv /\ EscapeInv /\ [TreeNext]_treeVars => (TreeInv /\ EscapeInv)'
  BY TreeInvStep, EscapeInvStep
<1> QED
  BY <1>1, <1>2, TreeInvInit, EscapeInvInit, PTL DEF TreeSpec
=============================================================================
