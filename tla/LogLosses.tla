----------------------------- MODULE LogLosses ------------------------------
(***************************************************************************)
(* ServiceLogger with two history variables: the lines that there is a     *)
(* reason to have lost, a merge that failed, a write that overlapped a     *)
(* rotation or a merge that overlapped the removal of the same dated log;  *)
(* and the lines that were in the hands of an opener that failed to empty  *)
(* current.log, which are therefore merged again.                          *)
(***************************************************************************)
EXTENDS ServiceLogger

VARIABLES excused, repeated

lossVars == <<loggerVars, excused, repeated>>

\* The opener has read current.log and not truncated it yet.
Rotating(o) == pc[o] \in {"merge", "truncate"}

\* Some clean-up has found the log too old and not removed it yet.
Doomed(d) == \E o \in Openers : pc[o] = "remove" /\ date[o] = d

LossInit == LoggerInit /\ excused = {} /\ repeated = {}

Copied(o) == {content[o][i] : i \in DOMAIN content[o]}

Loses ==
    /\ \/ /\ Write
          /\ excused' = IF \E o \in Openers : Rotating(o)
                        THEN excused \cup {Len(written')} ELSE excused
       \/ \E o \in Openers :
             /\ MergeFails(o)
             /\ excused' = excused \cup Copied(o)
       \/ \E o \in Openers :
             /\ Merge(o)
             /\ excused' = IF Doomed(date[o]) THEN excused \cup Copied(o) ELSE excused
    /\ UNCHANGED repeated

Repeats ==
    /\ \E o \in Openers :
          /\ TruncateFails(o)
          /\ repeated' = repeated \cup Copied(o)
    /\ UNCHANGED excused

Keeps ==
    /\ \/ DayPasses
       \/ \E o \in Openers :
             \/ Open(o) \/ NoRollover(o) \/ Rollover(o) \/ Read(o) \/ ReadFails(o)
             \/ Truncate(o) \/ List(o) \/ Retain(o) \/ FindOld(o) \/ Remove(o)
             \/ Close(o)
    /\ UNCHANGED <<excused, repeated>>

LossNext == Loses \/ Repeats \/ Keeps

LossSpec == LossInit /\ [][LossNext]_lossVars

-----------------------------------------------------------------------------
\* Every other line is in current.log or a dated log until it expires: no
\* date, no order of the calls and no clean-up loses one.
OnlyExplainedLosses ==
    \A n \in DOMAIN written \ excused :
        Expired(n) \/ Occurs(n, current) \/ \E d \in Days : Occurs(n, dated[d])

\* No logger is being opened.
Quiet == \A o \in Openers : pc[o] = "closed"

\* The lines are in the order in which they were written, repetitions aside.
InOrder(s) ==
    \A i, j \in DOMAIN s :
        i < j => s[i] < s[j] \/ s[i] \in repeated \/ s[j] \in repeated

\* Between opens no line is in two places, and every file has its lines in
\* the order in which they were written, whatever could not be read or merged
\* and whatever was written meanwhile.  Excepted are only the lines that an
\* opener had read before it failed to empty current.log.
LinesInOrder ==
    Quiet =>
        /\ InOrder(current)
        /\ \A d \in Days : InOrder(dated[d])
        /\ \A d \in Days, n \in Lines \ repeated :
              Occurs(n, dated[d]) =>
                  /\ ~Occurs(n, current)
                  /\ \A e \in Days \ {d} : ~Occurs(n, dated[e])
=============================================================================
