---------------------------- MODULE ServiceLogger ---------------------------
(***************************************************************************)
(* The log directory of one service and the ServiceLoggers of              *)
(* src/src/logger.rs that work on it.  Every start of the service makes a  *)
(* logger of its own with a mutex of its own, so the open of a new logger  *)
(* and the writes of an old one, whose output pumps may still be draining  *)
(* their pipes, exclude each other only through the file system: a step is *)
(* one file system call.  The clock counts days.                           *)
(***************************************************************************)
EXTENDS Naturals, Sequences

CONSTANTS
    Openers,        \* loggers being opened at the same time
    None,
    LastDay,        \* bound on the clock
    MaxLines,       \* bound on the lines written
    RetentionDays,  \* log.retentionDays
    Faults          \* calls that may fail: "read", "append", "truncate"

Days == 0 .. LastDay
Lines == 1 .. MaxLines

ASSUME LoggerAssumption ==
    /\ LastDay \in Nat /\ MaxLines \in Nat
    /\ RetentionDays \in Nat /\ None \notin Nat
    /\ Faults \subseteq {"read", "append", "truncate"}

VARIABLES
    today,      \* the day it is
    written,    \* the day each line was written, in order
    current,    \* the lines of current.log
    modified,   \* the day current.log was last modified, or None if missing
    dated,      \* the lines of each dated log
    merged,     \* the day each dated log was last modified, or None if missing
    pc,         \* program counter of each opener
    date,       \* its `today`, then its `file_date`, then that of its `path`
    content,    \* what it has read of current.log
    entries     \* the dated logs that its clean-up has still to look at

files == <<current, modified, dated, merged>>
openVars == <<pc, date, content, entries>>
loggerVars == <<today, written, files, openVars>>

DayPasses ==
    /\ today < LastDay
    /\ today' = today + 1
    /\ UNCHANGED <<written, files, openVars>>

\* A line of output, or a line of the manager, through any logger.
Write ==
    /\ Len(written) < MaxLines
    /\ written' = Append(written, today)
    /\ current' = Append(current, Len(written) + 1)
    /\ modified' = today
    /\ UNCHANGED <<today, dated, merged, openVars>>

Move(o, from, to) ==
    /\ pc[o] = from
    /\ pc' = [pc EXCEPT ![o] = to]
    /\ UNCHANGED <<today, written>>

Open(o) ==
    /\ Move(o, "closed", "stat")
    /\ date' = [date EXCEPT ![o] = today]
    /\ UNCHANGED <<files, content, entries>>

\* Mutant of NoRollover: current.log is truncated on the day it was written.
NoRolloverTruncates(o) ==
    /\ modified \in {None, date[o]}
    /\ Move(o, "stat", "truncate")
    /\ UNCHANGED <<files, date, content, entries>>

NoRollover(o) ==
    /\ modified \in {None, date[o]}
    /\ Move(o, "stat", "clean")
    /\ UNCHANGED <<files, date, content, entries>>

Rollover(o) ==
    /\ modified \notin {None, date[o]}
    /\ Move(o, "stat", "read")
    /\ date' = [date EXCEPT ![o] = modified]
    /\ UNCHANGED <<files, content, entries>>

Read(o) ==
    /\ Move(o, "read", IF current = <<>> THEN "truncate" ELSE "merge")
    /\ content' = [content EXCEPT ![o] = current]
    /\ UNCHANGED <<files, date, entries>>

\* current.log cannot be opened, or holds what is no UTF-8: the rotation ends.
ReadFails(o) ==
    /\ "read" \in Faults
    /\ Move(o, "read", "clean")
    /\ UNCHANGED <<files, date, content, entries>>

Merge(o) ==
    /\ Move(o, "merge", "truncate")
    /\ dated' = [dated EXCEPT ![date[o]] = @ \o content[o]]
    /\ merged' = [merged EXCEPT ![date[o]] = today]
    /\ UNCHANGED <<current, modified, date, content, entries>>

\* Neither a failure to open the dated log nor one to write it is looked at.
MergeFails(o) ==
    /\ "append" \in Faults
    /\ Move(o, "merge", "truncate")
    /\ UNCHANGED <<files, date, content, entries>>

\* Mutant of Truncate: current.log keeps the lines that were merged.
KeepMerged(o) ==
    /\ Move(o, "truncate", "clean")
    /\ modified' = today
    /\ UNCHANGED <<current, dated, merged, date, content, entries>>

Truncate(o) ==
    /\ Move(o, "truncate", "clean")
    /\ current' = <<>>
    /\ modified' = today
    /\ UNCHANGED <<dated, merged, date, content, entries>>

\* A bound of the model: a log takes no third copy of its lines.
RepeatsBounded(o) == Len(dated[date[o]]) <= MaxLines

\* The result of emptying current.log is not looked at: what was merged stays,
\* and so does the date, by which the next opener merges it once more.
TruncateFails(o) ==
    /\ "truncate" \in Faults
    /\ RepeatsBounded(o)
    /\ Move(o, "truncate", "clean")
    /\ UNCHANGED <<files, date, content, entries>>

\* Mutant of TooOld: the age is counted in hours.
TooOldInHours(d) == merged[d] # None /\ (today - merged[d]) * 24 > RetentionDays

TooOld(d) == merged[d] # None /\ today - merged[d] > RetentionDays

\* The clean-up lists the directory; retention_days = 0 keeps every log.
List(o) ==
    /\ Move(o, "clean", "look")
    /\ entries' = [entries EXCEPT ![o] =
          IF RetentionDays = 0 THEN {} ELSE {d \in Days : merged[d] # None}]
    /\ UNCHANGED <<files, date, content>>

\* It looks at the logs in any order.
Retain(o) ==
    /\ Move(o, "look", "look")
    /\ \E d \in entries[o] :
          /\ ~TooOld(d)
          /\ entries' = [entries EXCEPT ![o] = @ \ {d}]
    /\ UNCHANGED <<files, date, content>>

FindOld(o) ==
    /\ Move(o, "look", "remove")
    /\ \E d \in entries[o] :
          /\ TooOld(d)
          /\ entries' = [entries EXCEPT ![o] = @ \ {d}]
          /\ date' = [date EXCEPT ![o] = d]
    /\ UNCHANGED <<files, content>>

\* Whatever was merged into the log since it was looked at is gone as well.
Remove(o) ==
    /\ Move(o, "remove", "look")
    /\ dated' = [dated EXCEPT ![date[o]] = <<>>]
    /\ merged' = [merged EXCEPT ![date[o]] = None]
    /\ UNCHANGED <<current, modified, date, content, entries>>

Close(o) ==
    /\ entries[o] = {}
    /\ Move(o, "look", "closed")
    /\ content' = [content EXCEPT ![o] = <<>>]
    /\ date' = [date EXCEPT ![o] = 0]
    /\ UNCHANGED <<files, entries>>

OpenStep(o) ==
    \/ NoRollover(o) \/ Rollover(o) \/ Read(o) \/ ReadFails(o)
    \/ Merge(o) \/ MergeFails(o) \/ Truncate(o) \/ TruncateFails(o)
    \/ List(o) \/ Retain(o) \/ FindOld(o) \/ Remove(o) \/ Close(o)

LoggerInit ==
    /\ today = 0
    /\ written = <<>>
    /\ current = <<>> /\ modified = None
    /\ dated = [d \in Days |-> <<>>]
    /\ merged = [d \in Days |-> None]
    /\ pc = [o \in Openers |-> "closed"]
    /\ date = [o \in Openers |-> 0]
    /\ content = [o \in Openers |-> <<>>]
    /\ entries = [o \in Openers |-> {}]

LoggerNext ==
    \/ DayPasses
    \/ Write
    \/ \E o \in Openers : Open(o) \/ OpenStep(o)

LoggerSpec == LoggerInit /\ [][LoggerNext]_loggerVars

-----------------------------------------------------------------------------
Occurs(n, s) == \E i \in DOMAIN s : s[i] = n

\* Whether retention allows a line to be gone.
Expired(n) == RetentionDays # 0 /\ today - written[n] > RetentionDays

\* The clean-up removes no line before its retention is over, whatever days
\* the lines of a file are from and whatever is written between the calls of
\* an opener.
RetentionKept ==
    [][\A d \in Days : merged[d] # None /\ merged'[d] = None =>
          \A i \in DOMAIN dated[d] : Expired(dated[d][i])]_loggerVars
=============================================================================
