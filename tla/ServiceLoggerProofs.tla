------------------------- MODULE ServiceLoggerProofs -------------------------
(***************************************************************************)
(* What happens to the lines of a service's log.  That none is lost        *)
(* without one of the reasons that LogLosses names is proved for any       *)
(* number of openers.  That none is removed before its time is true, and   *)
(* proved, unless one opener merges into a log that another is about to    *)
(* remove; that none is out of order, unless two rotate the log at once.   *)
(***************************************************************************)
EXTENDS LogLosses, TLAPS

\* The lines of a file.
Held(s) == {s[i] : i \in DOMAIN s}

LEMMA OccursIsHeld == \A n, s : Occurs(n, s) <=> n \in Held(s)
BY DEF Occurs, Held

LEMMA HeldByEmpty == Held(<<>>) = {}
BY DEF Held

LEMMA AppendedLine ==
    ASSUME NEW S, NEW s \in Seq(S), NEW x \in S
    PROVE  /\ Len(Append(s, x)) = Len(s) + 1
           /\ DOMAIN Append(s, x) = (DOMAIN s) \cup {Len(s) + 1}
           /\ \A i \in DOMAIN s : Append(s, x)[i] = s[i]
           /\ Append(s, x)[Len(s) + 1] = x
OBVIOUS

LEMMA HeldByAppend ==
    ASSUME NEW s \in Seq(Nat), NEW n \in Nat
    PROVE  Held(Append(s, n)) = Held(s) \cup {n}
BY AppendedLine DEF Held

LEMMA HeldByConcat ==
    ASSUME NEW s \in Seq(Nat), NEW t \in Seq(Nat)
    PROVE  Held(s \o t) = Held(s) \cup Held(t)
<1>1. /\ Len(s) \in Nat /\ Len(t) \in Nat /\ Len(s \o t) = Len(s) + Len(t)
      /\ DOMAIN s = 1..Len(s) /\ DOMAIN t = 1..Len(t)
      /\ DOMAIN (s \o t) = 1..Len(s) + Len(t)
      /\ \A i \in 1..Len(s) : (s \o t)[i] = s[i]
      /\ \A i \in 1..Len(t) : (s \o t)[Len(s) + i] = t[i]
  OBVIOUS
<1>2. ASSUME NEW i \in 1..Len(s) + Len(t)
      PROVE  (s \o t)[i] \in Held(s) \cup Held(t)
  <2>1. CASE i \in 1..Len(s)
    BY <1>1, <2>1 DEF Held
  <2>2. CASE i \notin 1..Len(s)
    <3>1. i - Len(s) \in 1..Len(t) /\ i = Len(s) + (i - Len(s))
      BY <1>1, <2>2
    <3>2. (s \o t)[i] = t[i - Len(s)]
      BY <1>1, <3>1
    <3> QED
      BY <1>1, <3>1, <3>2 DEF Held
  <2> QED
    BY <2>1, <2>2
<1>3. ASSUME NEW i \in 1..Len(s)
      PROVE  s[i] \in Held(s \o t)
  <2>1. i \in 1..Len(s) + Len(t) /\ (s \o t)[i] = s[i]
    BY <1>1
  <2> QED
    BY <1>1, <2>1 DEF Held
<1>4. ASSUME NEW j \in 1..Len(t)
      PROVE  t[j] \in Held(s \o t)
  <2>1. Len(s) + j \in 1..Len(s) + Len(t) /\ (s \o t)[Len(s) + j] = t[j]
    BY <1>1
  <2> QED
    BY <1>1, <2>1 DEF Held
<1>5. Held(s \o t) \subseteq Held(s) \cup Held(t)
  BY <1>1, <1>2 DEF Held
<1>6. Held(s) \cup Held(t) \subseteq Held(s \o t)
  BY <1>1, <1>3, <1>4 DEF Held
<1> QED
  BY <1>5, <1>6

-----------------------------------------------------------------------------
OpenLabels ==
    {"closed", "stat", "read", "merge", "truncate", "clean", "look", "remove"}

\* Every variable stays in its domain.
LoggerTypeOK ==
    /\ today \in Days
    /\ written \in Seq(Days)
    /\ current \in Seq(Nat)
    /\ modified \in Days \cup {None}
    /\ dated \in [Days -> Seq(Nat)]
    /\ merged \in [Days -> Days \cup {None}]
    /\ pc \in [Openers -> OpenLabels]
    /\ date \in [Openers -> Days]
    /\ content \in [Openers -> Seq(Nat)]
    /\ entries \in [Openers -> SUBSET Days]

LEMMA LoggerTypeOKInit == LoggerInit => LoggerTypeOK
BY LoggerAssumption DEF LoggerInit, LoggerTypeOK, OpenLabels, Days

LEMMA LoggerTypeOKStep == LoggerTypeOK /\ [LoggerNext]_loggerVars => LoggerTypeOK'
<1> SUFFICES ASSUME LoggerTypeOK, [LoggerNext]_loggerVars
             PROVE  LoggerTypeOK'
  OBVIOUS
<1> USE LoggerAssumption
<1> USE DEF LoggerTypeOK, OpenLabels, Move, files, openVars
<1>1. CASE DayPasses
  BY <1>1 DEF DayPasses, Days
<1>2. CASE Write
  BY <1>2 DEF Write
<1>3. ASSUME NEW o \in Openers, Open(o)
      PROVE  LoggerTypeOK'
  BY <1>3 DEF Open
<1>4. ASSUME NEW o \in Openers, NoRollover(o)
      PROVE  LoggerTypeOK'
  BY <1>4 DEF NoRollover
<1>5. ASSUME NEW o \in Openers, Rollover(o)
      PROVE  LoggerTypeOK'
  BY <1>5 DEF Rollover
<1>6. ASSUME NEW o \in Openers, Read(o)
      PROVE  LoggerTypeOK'
  BY <1>6 DEF Read
<1>7. ASSUME NEW o \in Openers, Merge(o)
      PROVE  LoggerTypeOK'
  BY <1>7 DEF Merge
<1>16. ASSUME NEW o \in Openers, ReadFails(o) \/ TruncateFails(o)
       PROVE  LoggerTypeOK'
  BY <1>16 DEF ReadFails, TruncateFails
<1>8. ASSUME NEW o \in Openers, MergeFails(o)
      PROVE  LoggerTypeOK'
  BY <1>8 DEF MergeFails
<1>9. ASSUME NEW o \in Openers, Truncate(o)
      PROVE  LoggerTypeOK'
  BY <1>9 DEF Truncate
<1>10. ASSUME NEW o \in Openers, List(o)
       PROVE  LoggerTypeOK'
  BY <1>10 DEF List
<1>11. ASSUME NEW o \in Openers, Retain(o)
       PROVE  LoggerTypeOK'
  BY <1>11 DEF Retain
<1>12. ASSUME NEW o \in Openers, FindOld(o)
       PROVE  LoggerTypeOK'
  BY <1>12 DEF FindOld
<1>13. ASSUME NEW o \in Openers, Remove(o)
       PROVE  LoggerTypeOK'
  BY <1>13 DEF Remove
<1>14. ASSUME NEW o \in Openers, Close(o)
       PROVE  LoggerTypeOK'
  BY <1>14 DEF Close, Days
<1>15. CASE UNCHANGED loggerVars
  BY <1>15 DEF loggerVars
<1> QED
  BY <1>1, <1>2, <1>3, <1>4, <1>5, <1>6, <1>7, <1>8, <1>9, <1>10, <1>11, <1>12,
     <1>13, <1>14, <1>15, <1>16 DEF LoggerNext, OpenStep

-----------------------------------------------------------------------------
\* A line is known everywhere by its place in `written`, which is in the past.
LinesKnown ==
    /\ \A n \in DOMAIN written : written[n] <= today
    /\ Held(current) \subseteq DOMAIN written
    /\ \A d \in Days : Held(dated[d]) \subseteq DOMAIN written
    /\ \A o \in Openers : Held(content[o]) \subseteq DOMAIN written

\* A dated log was last modified after each of its lines was written.
MergedLast ==
    \A d \in Days : \A n \in Held(dated[d]) :
        merged[d] # None /\ written[n] <= merged[d]

\* Without a retention no log is looked at, let alone removed.
OnlyIfRetained ==
    \A o \in Openers : entries[o] # {} \/ pc[o] = "remove" => RetentionDays # 0

LogInv == LoggerTypeOK /\ LinesKnown /\ MergedLast /\ OnlyIfRetained

LEMMA LogInvInit == LoggerInit => LogInv
BY LoggerTypeOKInit, HeldByEmpty
   DEF LoggerInit, LogInv, LinesKnown, MergedLast, OnlyIfRetained

\* Each step dates a log by its last merge and copies known lines only.
LEMMA LogInvStep == LogInv /\ [LoggerNext]_loggerVars => LogInv'
<1> SUFFICES ASSUME LogInv, [LoggerNext]_loggerVars
             PROVE  LinesKnown' /\ MergedLast' /\ OnlyIfRetained'
  BY LoggerTypeOKStep DEF LogInv
<1>0. OnlyIfRetained'
  BY DEF LogInv, LoggerTypeOK, OnlyIfRetained, Move, openVars, LoggerNext, OpenStep,
     DayPasses, Write, Open, NoRollover, Rollover, Read, ReadFails, Merge, MergeFails,
     Truncate, TruncateFails, List, Retain, FindOld, Remove, Close, loggerVars
<1> SUFFICES LinesKnown' /\ MergedLast'
  BY <1>0
<1> USE LoggerAssumption, HeldByEmpty
<1> USE DEF LogInv, LoggerTypeOK, LinesKnown, MergedLast, Move, files, openVars, Days
<1>1. CASE DayPasses
  BY <1>1 DEF DayPasses
<1>2. CASE Write
  <2>1. /\ written' = Append(written, today) /\ Len(written) + 1 \in Nat
        /\ current' = Append(current, Len(written) + 1)
        /\ UNCHANGED <<today, dated, merged, content>>
    BY <1>2 DEF Write
  <2>2. /\ DOMAIN written' = (DOMAIN written) \cup {Len(written) + 1}
        /\ \A n \in DOMAIN written : written'[n] = written[n]
        /\ written'[Len(written) + 1] = today
    BY <2>1, AppendedLine
  <2>3. Held(current') = Held(current) \cup {Len(written) + 1}
    BY <2>1, HeldByAppend
  <2> QED
    BY <2>1, <2>2, <2>3
<1>3. ASSUME NEW o \in Openers, Open(o)
      PROVE  LinesKnown' /\ MergedLast'
  BY <1>3 DEF Open
<1>4. ASSUME NEW o \in Openers, NoRollover(o)
      PROVE  LinesKnown' /\ MergedLast'
  BY <1>4 DEF NoRollover
<1>5. ASSUME NEW o \in Openers, Rollover(o)
      PROVE  LinesKnown' /\ MergedLast'
  BY <1>5 DEF Rollover
<1>6. ASSUME NEW o \in Openers, Read(o)
      PROVE  LinesKnown' /\ MergedLast'
  BY <1>6 DEF Read
<1>13. ASSUME NEW o \in Openers, ReadFails(o) \/ TruncateFails(o)
       PROVE  LinesKnown' /\ MergedLast'
  BY <1>13 DEF ReadFails, TruncateFails
<1>7. ASSUME NEW o \in Openers, Merge(o)
      PROVE  LinesKnown' /\ MergedLast'
  <2> DEFINE d == date[o]
  <2>1. /\ d \in Days /\ UNCHANGED <<today, written, current, content>>
        /\ dated' = [dated EXCEPT ![d] = dated[d] \o content[o]]
        /\ merged' = [merged EXCEPT ![d] = today]
    BY <1>7 DEF Merge
  <2> HIDE DEF d
  <2>2. Held(dated'[d]) = Held(dated[d]) \cup Held(content[o])
    BY <2>1, HeldByConcat
  <2>3. \A e \in Days \ {d} : dated'[e] = dated[e] /\ merged'[e] = merged[e]
    BY <2>1
  <2>4. merged'[d] = today /\ today # None
    BY <2>1
  <2>5. LinesKnown'
    BY <2>1, <2>2, <2>3
  <2>6. MergedLast'
    BY <2>1, <2>2, <2>3, <2>4
  <2> QED
    BY <2>5, <2>6
<1>8. ASSUME NEW o \in Openers, MergeFails(o)
      PROVE  LinesKnown' /\ MergedLast'
  BY <1>8 DEF MergeFails
<1>9. ASSUME NEW o \in Openers, Truncate(o)
      PROVE  LinesKnown' /\ MergedLast'
  BY <1>9 DEF Truncate
<1>10. ASSUME NEW o \in Openers, Remove(o)
       PROVE  LinesKnown' /\ MergedLast'
  <2>1. /\ UNCHANGED <<today, written, current, content>>
        /\ \A d \in Days : \/ dated'[d] = dated[d] /\ merged'[d] = merged[d]
                          \/ Held(dated'[d]) = {}
    BY <1>10 DEF Remove
  <2> QED
    BY <2>1
<1>11. ASSUME NEW o \in Openers, List(o) \/ Retain(o) \/ FindOld(o) \/ Close(o)
       PROVE  LinesKnown' /\ MergedLast'
  <2>1. /\ UNCHANGED <<today, written, current, dated, merged>>
        /\ \A p \in Openers : content'[p] \in {content[p], <<>>}
    BY <1>11 DEF List, Retain, FindOld, Close
  <2> QED
    BY <2>1
<1>12. CASE UNCHANGED loggerVars
  BY <1>12 DEF loggerVars
<1> QED
  BY <1>1, <1>2, <1>3, <1>4, <1>5, <1>6, <1>7, <1>8, <1>9, <1>10, <1>11, <1>12, <1>13
     DEF LoggerNext, OpenStep

THEOREM LogInvariant == LoggerSpec => []LogInv
BY LogInvInit, LogInvStep, PTL DEF LoggerSpec

\* The lines of a log that the clean-up finds too old have expired.
LEMMA OldLinesExpired ==
    ASSUME LogInv, NEW d \in Days, TooOld(d), RetentionDays # 0
    PROVE  \A n \in Held(dated[d]) : Expired(n)
<1> SUFFICES ASSUME NEW n \in Held(dated[d])
             PROVE  Expired(n)
  OBVIOUS
<1>1. n \in DOMAIN written /\ written[n] <= merged[d] /\ merged[d] # None
  BY DEF LogInv, LinesKnown, MergedLast
<1>2. written[n] \in Nat /\ merged[d] \in Nat /\ today \in Nat
  <2>1. DOMAIN written = 1..Len(written) /\ written[n] \in Days
    BY <1>1 DEF LogInv, LoggerTypeOK
  <2> QED
    BY <1>1, <2>1, LoggerAssumption DEF LogInv, LoggerTypeOK, Days
<1>3. today - merged[d] > RetentionDays
  BY DEF TooOld
<1> QED
  BY <1>1, <1>2, <1>3, LoggerAssumption DEF Expired

\* No opener merges into a dated log between the moment a clean-up finds it too
\* old and its removal.
MergesSpareDoomed ==
    [][\A o \in Openers : Merge(o) => ~Doomed(date[o])]_loggerVars

\* What is about to be removed is still old then, unless it is gone already.
StillOld ==
    \A o \in Openers : pc[o] = "remove" => merged[date[o]] = None \/ TooOld(date[o])

LEMMA StillOldStep ==
    ASSUME LogInv, StillOld, [LoggerNext]_loggerVars,
           [\A o \in Openers : Merge(o) => ~Doomed(date[o])]_loggerVars
    PROVE  StillOld'
<1> USE LoggerAssumption DEF LogInv, LoggerTypeOK, StillOld, TooOld, Move, Days
<1>1. CASE DayPasses
  <2>1. today' = today + 1 /\ UNCHANGED <<pc, date, merged>>
    BY <1>1 DEF DayPasses, files, openVars
  <2>2. \A d \in Days : TooOld(d) => TooOld(d)'
    BY <2>1
  <2> QED
    BY <2>1, <2>2
<1>2. ASSUME NEW o \in Openers, FindOld(o)
      PROVE  StillOld'
  <2>1. /\ UNCHANGED <<today, merged>> /\ TooOld(date'[o])
        /\ \A p \in Openers \ {o} : pc'[p] = pc[p] /\ date'[p] = date[p]
    BY <1>2 DEF FindOld, files
  <2> QED
    BY <2>1
<1>3. ASSUME NEW o \in Openers,
             \/ Open(o) \/ NoRollover(o) \/ Rollover(o) \/ Read(o) \/ ReadFails(o)
             \/ MergeFails(o) \/ Truncate(o) \/ TruncateFails(o) \/ List(o)
             \/ Retain(o) \/ Close(o)
      PROVE  StillOld'
  <2>1. /\ UNCHANGED <<today, merged>> /\ pc'[o] # "remove"
        /\ \A p \in Openers \ {o} : pc'[p] = pc[p] /\ date'[p] = date[p]
    BY <1>3 DEF Open, NoRollover, Rollover, Read, ReadFails, MergeFails, Truncate,
       TruncateFails, List, Retain, Close, files
  <2> QED
    BY <2>1
<1>5. ASSUME NEW o \in Openers, Remove(o)
      PROVE  StillOld'
  <2>1. /\ UNCHANGED <<today, date>> /\ pc' = [pc EXCEPT ![o] = "look"]
        /\ \A d \in Days : merged'[d] \in {merged[d], None}
    BY <1>5 DEF Remove
  <2> QED
    BY <2>1
<1>6. ASSUME NEW o \in Openers, Merge(o)
      PROVE  StillOld'
  <2>1. /\ UNCHANGED <<today, date>> /\ pc' = [pc EXCEPT ![o] = "truncate"]
        /\ \A d \in Days \ {date[o]} : merged'[d] = merged[d]
        /\ pc[o] = "merge"
    BY <1>6 DEF Merge
  <2>2. pc' # pc
    BY <2>1
  <2>3. ~Doomed(date[o])
    BY <1>6, <2>2 DEF loggerVars, openVars
  <2> QED
    BY <2>1, <2>3 DEF Doomed
<1>4. CASE UNCHANGED <<today, merged, pc, date>>
  BY <1>4
<1> QED
  BY <1>1, <1>2, <1>3, <1>4, <1>5, <1>6
     DEF LoggerNext, OpenStep, Write, loggerVars, files, openVars

\* However many openings of the service's log overlap: unless one of them merges
\* into a dated log that the clean-up of another has found too old and not
\* removed yet, none is removed with a line in it that is within its retention.
THEOREM RetentionIsKept == LoggerSpec /\ MergesSpareDoomed => RetentionKept
<1>1. LoggerInit => LogInv /\ StillOld
  BY LogInvInit DEF LoggerInit, StillOld
<1>2. /\ LogInv /\ StillOld
      /\ [LoggerNext]_loggerVars
      /\ [\A o \in Openers : Merge(o) => ~Doomed(date[o])]_loggerVars
      => (LogInv /\ StillOld)'
  BY LogInvStep, StillOldStep
<1>3. LogInv /\ StillOld /\ [LoggerNext]_loggerVars =>
         [\A d \in Days : merged[d] # None /\ merged'[d] = None =>
             \A i \in DOMAIN dated[d] : Expired(dated[d][i])]_loggerVars
  <2> SUFFICES ASSUME LogInv, StillOld, LoggerNext, NEW d \in Days,
                      merged[d] # None, merged'[d] = None
               PROVE  \A i \in DOMAIN dated[d] : Expired(dated[d][i])
    OBVIOUS
  <2>1. ASSUME NEW o \in Openers, Merge(o)
        PROVE  FALSE
    BY <2>1, LoggerAssumption DEF Merge, LogInv, LoggerTypeOK, Days
  <2>2. PICK o \in Openers : Remove(o)
    BY <2>1 DEF LoggerNext, OpenStep, DayPasses, Write, Open, NoRollover, Rollover,
                Read, ReadFails, MergeFails, Truncate, TruncateFails, List, Retain,
                FindOld, Close, files
  <2>3. d = date[o] /\ pc[o] = "remove" /\ merged[d] # None
    BY <2>2 DEF Remove, Move, LogInv, LoggerTypeOK
  <2>4. TooOld(d) /\ RetentionDays # 0
    BY <2>3 DEF StillOld, LogInv, OnlyIfRetained
  <2> QED
    BY <2>4, OldLinesExpired DEF Held
<1> QED
  BY <1>1, <1>2, <1>3, PTL DEF LoggerSpec, RetentionKept, MergesSpareDoomed

-----------------------------------------------------------------------------
LEMMA LossStepIsLoggerStep == [LossNext]_lossVars => [LoggerNext]_loggerVars
BY DEF LossNext, Loses, Repeats, Keeps, lossVars, LoggerNext, OpenStep

\* A line that has a reason to be gone, or is in a dated log.
Explained(n) == n \in excused \/ Expired(n) \/ \E d \in Days : n \in Held(dated[d])

Accounted == \A n \in DOMAIN written : Explained(n) \/ n \in Held(current)

\* What an opener is about to truncate is explained or in its hands.
Spent(o) == pc[o] = "truncate" => \A n \in Held(current) : Explained(n)
InHand(o) == pc[o] = "merge" => Held(current) \subseteq excused \cup Held(content[o])

\* What an opener is about to remove may be gone.
DoomedMayGo ==
    \A d \in Days : Doomed(d) => \A n \in Held(dated[d]) : n \in excused \/ Expired(n)

LossInv ==
    /\ Accounted
    /\ \A o \in Openers : Spent(o) /\ InHand(o)
    /\ DoomedMayGo

LEMMA ReasonsStay ==
    ASSUME LogInv, [LossNext]_lossVars, NEW n \in DOMAIN written
    PROVE  (Expired(n) => Expired(n)') /\ (n \in excused => n \in excused')
<1>1. /\ today \in Nat /\ today' \in Nat /\ today <= today'
      /\ n \in DOMAIN written' /\ written'[n] = written[n] /\ written[n] \in Nat
  <2>1. /\ today \in Nat /\ written[n] \in Nat /\ n \in 1..Len(written)
    BY LoggerAssumption DEF LogInv, LoggerTypeOK, Days
  <2>2. CASE Write
    <3>1. written' = Append(written, today) /\ UNCHANGED today
      BY <2>2 DEF Write
    <3>2. written \in Seq(Days) /\ today \in Days
      BY DEF LogInv, LoggerTypeOK
    <3> QED
      BY <2>1, <3>1, <3>2, AppendedLine
  <2>3. CASE DayPasses
    BY <2>1, <2>3 DEF DayPasses
  <2>4. CASE UNCHANGED <<today, written>>
    BY <2>1, <2>4
  <2> QED
    BY <2>2, <2>3, <2>4 DEF LossNext, Loses, Repeats, Keeps, lossVars, loggerVars, Open,
       NoRollover, Rollover, Read, ReadFails, Merge, MergeFails, Truncate, TruncateFails,
       List, Retain, FindOld, Remove, Close, Move
<1>2. Expired(n) => Expired(n)'
  BY <1>1, LoggerAssumption DEF Expired
<1>3. n \in excused => n \in excused'
  BY DEF LossNext, Loses, Repeats, Keeps, lossVars
<1> QED
  BY <1>2, <1>3

LEMMA DoomedMayGoStep ==
    ASSUME LogInv, DoomedMayGo, [LossNext]_lossVars
    PROVE  DoomedMayGo'
<1> SUFFICES ASSUME NEW d \in Days, Doomed(d)', NEW n \in Held(dated'[d])
             PROVE  n \in excused' \/ Expired(n)'
  BY DEF DoomedMayGo
<1>0. /\ pc \in [Openers -> OpenLabels] /\ date \in [Openers -> Days]
      /\ content \in [Openers -> Seq(Nat)] /\ dated \in [Days -> Seq(Nat)]
  BY DEF LogInv, LoggerTypeOK
<1>1. n \in Held(dated[d]) => n \in DOMAIN written
  BY DEF LogInv, LinesKnown
<1>2. Doomed(d) /\ n \in Held(dated[d]) => n \in excused' \/ Expired(n)'
  BY <1>1, ReasonsStay DEF DoomedMayGo
<1>3. ASSUME NEW o \in Openers, FindOld(o)
      PROVE  n \in excused' \/ Expired(n)'
  <2>1. /\ UNCHANGED dated
        /\ \A p \in Openers \ {o} : pc'[p] = pc[p] /\ date'[p] = date[p]
        /\ TooOld(date'[o]) /\ RetentionDays # 0
    BY <1>0, <1>3 DEF FindOld, Move, files, LogInv, OnlyIfRetained
  <2>2. CASE Doomed(d)
    BY <1>2, <2>1, <2>2
  <2>3. CASE date'[o] = d
    BY <1>1, <2>1, <2>3, OldLinesExpired, ReasonsStay
  <2> QED
    BY <2>1, <2>2, <2>3 DEF Doomed
<1>4. ASSUME NEW o \in Openers, Merge(o),
             excused' = IF Doomed(date[o]) THEN excused \cup Copied(o) ELSE excused
      PROVE  n \in excused' \/ Expired(n)'
  <2>1. /\ pc' = [pc EXCEPT ![o] = "truncate"] /\ UNCHANGED date
        /\ dated' = [dated EXCEPT ![date[o]] = dated[date[o]] \o content[o]]
    BY <1>4 DEF Merge, Move
  <2>2. Doomed(d)
    BY <1>0, <2>1 DEF Doomed
  <2>3. n \in Held(dated[d]) \/ (d = date[o] /\ n \in Held(content[o]))
    <3>1. dated'[d] = IF d = date[o] THEN dated[d] \o content[o] ELSE dated[d]
      BY <1>0, <2>1
    <3>2. Held(dated[d] \o content[o]) = Held(dated[d]) \cup Held(content[o])
      BY <1>0, HeldByConcat
    <3> QED
      BY <3>1, <3>2
  <2>4. Held(content[o]) = Copied(o)
    BY DEF Held, Copied
  <2> QED
    BY <1>2, <1>4, <2>2, <2>3, <2>4
<1>5. ASSUME NEW o \in Openers, Remove(o)
      PROVE  n \in excused' \/ Expired(n)'
  <2>1. /\ pc' = [pc EXCEPT ![o] = "look"] /\ UNCHANGED date
        /\ dated'[d] \in {dated[d], <<>>}
    BY <1>0, <1>5 DEF Remove, Move
  <2>2. Doomed(d) /\ n \in Held(dated[d])
    BY <1>0, <2>1, HeldByEmpty DEF Doomed
  <2> QED
    BY <1>2, <2>2
<1>6. ASSUME NEW o \in Openers,
             \/ Open(o) \/ NoRollover(o) \/ Rollover(o) \/ Read(o) \/ ReadFails(o)
             \/ MergeFails(o) \/ Truncate(o) \/ TruncateFails(o) \/ List(o)
             \/ Retain(o) \/ Close(o)
      PROVE  n \in excused' \/ Expired(n)'
  <2>1. /\ UNCHANGED dated /\ pc'[o] # "remove"
        /\ \A p \in Openers \ {o} : pc'[p] = pc[p] /\ date'[p] = date[p]
    BY <1>0, <1>6 DEF Open, NoRollover, Rollover, Read, ReadFails, MergeFails,
       Truncate, TruncateFails, List, Retain, Close, Move, files
  <2> QED
    BY <1>2, <2>1 DEF Doomed
<1>7. CASE UNCHANGED <<pc, date, dated>>
  BY <1>2, <1>7 DEF Doomed
<1> QED
  BY <1>3, <1>4, <1>5, <1>6, <1>7 DEF LossNext, Loses, Repeats, Keeps, lossVars,
     loggerVars, files, openVars, DayPasses, Write

\* A line that has its explanation keeps one: the clean-up removes a line
\* from a dated log only when it may go.
LEMMA StaysExplained ==
    ASSUME LogInv, DoomedMayGo, [LossNext]_lossVars, NEW n \in DOMAIN written,
           Explained(n)
    PROVE  Explained(n)'
<1>1. CASE n \in excused \/ Expired(n)
  BY <1>1, ReasonsStay DEF Explained
<1>2. ASSUME NEW d \in Days, n \in Held(dated[d])
      PROVE  Explained(n)'
  <2>1. CASE dated'[d] = dated[d]
    BY <1>2, <2>1 DEF Explained
  <2>2. ASSUME NEW o \in Openers, Merge(o)
        PROVE  Explained(n)'
    <3>1. /\ content[o] \in Seq(Nat) /\ dated[d] \in Seq(Nat)
          /\ dated \in [Days -> Seq(Nat)]
      BY DEF LogInv, LoggerTypeOK
    <3>2. dated'[d] = IF d = date[o] THEN dated[d] \o content[o] ELSE dated[d]
      BY <2>2, <3>1 DEF Merge
    <3>3. n \in Held(dated'[d])
      BY <1>2, <3>1, <3>2, HeldByConcat
    <3> QED
      BY <3>3 DEF Explained
  <2>3. ASSUME NEW o \in Openers, Remove(o)
        PROVE  Explained(n)'
    <3>1. /\ pc[o] = "remove"
          /\ dated'[d] = IF d = date[o] THEN <<>> ELSE dated[d]
      BY <2>3 DEF Remove, Move, LogInv, LoggerTypeOK
    <3>2. CASE d = date[o]
      BY <1>1, <1>2, <3>1, <3>2 DEF DoomedMayGo, Doomed
    <3> QED
      BY <2>1, <3>1, <3>2
  <2> QED
    BY <2>1, <2>2, <2>3 DEF LossNext, Loses, Repeats, Keeps, lossVars, loggerVars,
       files, DayPasses, Write, Open, NoRollover, Rollover, Read, ReadFails, MergeFails,
       Truncate, TruncateFails, List, Retain, FindOld, Close
<1> QED
  BY <1>1, <1>2 DEF Explained

LEMMA LossInvInit == LossInit => LossInv
BY HeldByEmpty
   DEF LossInit, LoggerInit, LossInv, Accounted, Spent, InHand, DoomedMayGo, Doomed

LEMMA LossInvStep == LogInv /\ LossInv /\ [LossNext]_lossVars => LossInv'
<1> SUFFICES ASSUME LogInv, LossInv, [LossNext]_lossVars
             PROVE  Accounted' /\ \A o \in Openers : Spent(o)' /\ InHand(o)'
  BY DoomedMayGoStep DEF LossInv
<1> USE DEF Accounted, Spent, InHand
<1>0. /\ pc \in [Openers -> OpenLabels]
      /\ content \in [Openers -> Seq(Nat)] /\ dated \in [Days -> Seq(Nat)]
      /\ current \in Seq(Nat) /\ written \in Seq(Days) /\ date \in [Openers -> Days]
  BY DEF LogInv, LoggerTypeOK
<1>1. Held(current) \subseteq DOMAIN written
  BY DEF LogInv, LinesKnown
<1>2. Accounted /\ \A o \in Openers : Spent(o) /\ InHand(o)
  BY DEF LossInv
<1>3. \A n \in DOMAIN written : Explained(n) => Explained(n)'
  BY StaysExplained DEF LossInv
<1>4. ASSUME Write,
             excused' = IF \E o \in Openers : Rotating(o)
                        THEN excused \cup {Len(written')} ELSE excused
      PROVE  Accounted' /\ \A o \in Openers : Spent(o)' /\ InHand(o)'
  <2>0. PICK new \in Nat : new = Len(written) + 1
    BY <1>0
  <2>1. /\ written' = Append(written, today) /\ current' = Append(current, new)
        /\ UNCHANGED <<pc, content>>
    BY <1>4, <2>0 DEF Write, openVars
  <2>2. Len(written') = new /\ DOMAIN written' = (DOMAIN written) \cup {new}
    <3>1. today \in Days
      BY DEF LogInv, LoggerTypeOK
    <3> QED
      BY <1>0, <2>0, <2>1, <3>1, AppendedLine
  <2>3. Held(current') = Held(current) \cup {new}
    BY <1>0, <2>1, HeldByAppend
  <2>4. excused \subseteq excused' /\
        ((\E o \in Openers : Rotating(o)) => new \in excused')
    BY <1>4, <2>2
  <2>5. new \in excused' => Explained(new)'
    BY DEF Explained
  <2>6. Accounted'
    BY <1>2, <1>3, <2>2, <2>3
  <2>7. ASSUME NEW o \in Openers
        PROVE  Spent(o)' /\ InHand(o)'
    BY <1>1, <1>2, <1>3, <2>1, <2>3, <2>4, <2>5 DEF Rotating
  <2> QED
    BY <2>6, <2>7
<1>5. ASSUME NEW p \in Openers, MergeFails(p), excused' = excused \cup Copied(p)
      PROVE  Accounted' /\ \A o \in Openers : Spent(o)' /\ InHand(o)'
  <2>1. /\ UNCHANGED <<written, current, content>>
        /\ pc[p] = "merge" /\ pc' = [pc EXCEPT ![p] = "truncate"]
    BY <1>5 DEF MergeFails, Move, files
  <2>2. excused' = excused \cup Held(content[p])
    BY <1>5 DEF Held, Copied
  <2>3. \A n \in Held(current) : Explained(n)'
    BY <1>2, <2>1, <2>2 DEF Explained
  <2> QED
    BY <1>0, <1>2, <1>3, <2>1, <2>2, <2>3
<1>6. ASSUME NEW p \in Openers, Merge(p), excused \subseteq excused'
      PROVE  Accounted' /\ \A o \in Openers : Spent(o)' /\ InHand(o)'
  <2>1. /\ UNCHANGED <<written, current, content, date>>
        /\ pc[p] = "merge" /\ pc' = [pc EXCEPT ![p] = "truncate"]
        /\ dated'[date[p]] = dated[date[p]] \o content[p] /\ date[p] \in Days
    BY <1>0, <1>6 DEF Merge, Move
  <2>2. Held(content[p]) \subseteq Held(dated'[date[p]])
    BY <1>0, <2>1, HeldByConcat
  <2>3. \A n \in Held(current) : Explained(n)'
    BY <1>2, <1>6, <2>1, <2>2 DEF Explained
  <2> QED
    BY <1>0, <1>2, <1>3, <1>6, <2>1, <2>3
<1>7. ASSUME NEW p \in Openers, Truncate(p)
      PROVE  Accounted' /\ \A o \in Openers : Spent(o)' /\ InHand(o)'
  <2>1. /\ UNCHANGED <<written, content>> /\ current' = <<>>
        /\ pc[p] = "truncate" /\ pc' = [pc EXCEPT ![p] = "clean"]
    BY <1>7 DEF Truncate, Move
  <2> QED
    BY <1>0, <1>2, <1>3, <2>1, HeldByEmpty
<1>8. ASSUME NEW p \in Openers, Keeps, Read(p)
      PROVE  Accounted' /\ \A o \in Openers : Spent(o)' /\ InHand(o)'
  <2>1. /\ UNCHANGED <<written, current>> /\ excused' = excused
        /\ pc' = [pc EXCEPT ![p] = IF current = <<>> THEN "truncate" ELSE "merge"]
        /\ content' = [content EXCEPT ![p] = current]
    BY <1>8 DEF Read, Move, files, Keeps
  <2>2. pc'[p] = "truncate" => current = <<>>
    BY <1>0, <2>1
  <2>3. Spent(p)' /\ InHand(p)'
    BY <1>0, <2>1, <2>2, HeldByEmpty
  <2>4. ASSUME NEW o \in Openers \ {p}
        PROVE  Spent(o)' /\ InHand(o)'
    BY <1>0, <1>1, <1>2, <1>3, <2>1
  <2> QED
    BY <1>2, <1>3, <2>1, <2>3, <2>4
<1>9. ASSUME NEW p \in Openers, excused' = excused,
             \/ Open(p) \/ NoRollover(p) \/ Rollover(p) \/ ReadFails(p)
             \/ TruncateFails(p) \/ List(p) \/ Retain(p) \/ FindOld(p)
             \/ Remove(p) \/ Close(p)
      PROVE  Accounted' /\ \A o \in Openers : Spent(o)' /\ InHand(o)'
  <2>1. /\ UNCHANGED <<written, current, excused>>
        /\ pc'[p] \notin {"merge", "truncate"}
        /\ \A o \in Openers \ {p} : pc'[o] = pc[o] /\ content'[o] = content[o]
    BY <1>0, <1>9 DEF Open, NoRollover, Rollover, ReadFails, TruncateFails, List,
       Retain, FindOld, Remove, Close, Move, files
  <2> QED
    BY <1>1, <1>2, <1>3, <2>1
<1>10. CASE UNCHANGED <<written, current, pc, content, excused>>
  BY <1>1, <1>2, <1>3, <1>10
<1> QED
  <2>1. CASE Keeps /\ DayPasses
    BY <1>10, <2>1 DEF Keeps, DayPasses, files, openVars
  <2>2. CASE UNCHANGED lossVars
    BY <1>10, <2>2 DEF lossVars, loggerVars, files, openVars
  <2> QED
    BY <1>4, <1>5, <1>6, <1>7, <1>8, <1>9, <2>1, <2>2
       DEF LossNext, Loses, Repeats, Keeps

\* Whatever the days, the merges that fail and the openers that overlap, a
\* line that no log holds has expired, was in a merge that failed, was written
\* while an opener was between its read and its truncation, or was merged into
\* a log that a clean-up had already found too old.
THEOREM OnlyExplainedAreLost == LossSpec => []OnlyExplainedLosses
<1>1. LossInit => LogInv /\ LossInv
  BY LogInvInit, LossInvInit DEF LossInit
<1>2. (LogInv /\ LossInv) /\ [LossNext]_lossVars => (LogInv /\ LossInv)'
  BY LossStepIsLoggerStep, LogInvStep, LossInvStep
<1>3. LossInv => OnlyExplainedLosses
  BY OccursIsHeld DEF LossInv, Accounted, Explained, OnlyExplainedLosses
<1> QED
  BY <1>1, <1>2, <1>3, PTL DEF LossSpec

-----------------------------------------------------------------------------
\* Every line of s was written before every line of t, repetitions aside.
Below(s, t) == \A m \in Held(s) \ repeated, n \in Held(t) \ repeated : m < n

LEMMA InOrderAppend ==
    ASSUME NEW s \in Seq(Nat), NEW n \in Nat, InOrder(s),
           \A m \in Held(s) : m < n
    PROVE  InOrder(Append(s, n))
<1>1. /\ Len(s) \in Nat /\ DOMAIN s = 1..Len(s)
      /\ DOMAIN Append(s, n) = 1..Len(s) + 1
      /\ \A i \in 1..Len(s) : Append(s, n)[i] = s[i]
      /\ Append(s, n)[Len(s) + 1] = n
  OBVIOUS
<1>2. \A i \in 1..Len(s) : s[i] < n
  BY <1>1 DEF Held
<1> DEFINE a == Append(s, n)
<1> SUFFICES ASSUME NEW i \in 1..Len(s) + 1, NEW j \in 1..Len(s) + 1, i < j
             PROVE  a[i] < a[j] \/ a[i] \in repeated \/ a[j] \in repeated
  BY <1>1 DEF InOrder
<1>3. i \in 1..Len(s) /\ (j \in 1..Len(s) \/ j = Len(s) + 1)
  BY <1>1
<1> QED
  BY <1>1, <1>2, <1>3 DEF InOrder

LEMMA InOrderConcat ==
    ASSUME NEW s \in Seq(Nat), NEW t \in Seq(Nat), InOrder(s), InOrder(t),
           Below(s, t)
    PROVE  InOrder(s \o t)
<1>1. /\ Len(s) \in Nat /\ Len(t) \in Nat
      /\ DOMAIN s = 1..Len(s) /\ DOMAIN t = 1..Len(t)
      /\ DOMAIN (s \o t) = 1..Len(s) + Len(t)
      /\ \A i \in 1..Len(s) : (s \o t)[i] = s[i]
      /\ \A i \in 1..Len(s) + Len(t) : i > Len(s) => (s \o t)[i] = t[i - Len(s)]
  OBVIOUS
<1> DEFINE After(m, n) == m < n \/ m \in repeated \/ n \in repeated
<1>2. \A i \in 1..Len(s), j \in 1..Len(t) : After(s[i], t[j])
  BY <1>1 DEF Below, Held
<1> SUFFICES ASSUME NEW i \in 1..Len(s) + Len(t), NEW j \in 1..Len(s) + Len(t), i < j
             PROVE  After((s \o t)[i], (s \o t)[j])
  BY <1>1 DEF InOrder
<1>3. CASE j \in 1..Len(s)
  <2>1. i \in 1..Len(s)
    BY <1>1, <1>3
  <2> QED
    BY <1>1, <1>3, <2>1 DEF InOrder
<1>4. CASE j > Len(s)
  <2>1. j - Len(s) \in 1..Len(t) /\ (s \o t)[j] = t[j - Len(s)]
    BY <1>1, <1>4
  <2>2. CASE i \in 1..Len(s)
    BY <1>1, <1>2, <2>1, <2>2
  <2>3. CASE i > Len(s)
    <3>1. /\ i - Len(s) \in 1..Len(t) /\ (s \o t)[i] = t[i - Len(s)]
          /\ i - Len(s) < j - Len(s)
      BY <1>1, <2>3
    <3> QED
      BY <1>1, <2>1, <3>1 DEF InOrder
  <2> QED
    BY <1>1, <2>2, <2>3
<1> QED
  BY <1>1, <1>3, <1>4

\* Rotations of current.log do not overlap; other parts of openings may.
RotationsApart == \A o, p \in Openers : Rotating(o) /\ Rotating(p) => o = p

\* The dated logs hold different lines, all of them before those of
\* current.log, unless current.log has been copied and not emptied: then this
\* is true of the lines that have not been copied.
FilesApart ==
    \A d, e \in Days : d # e => Held(dated[d]) \cap Held(dated[e]) \subseteq repeated

OrderInv ==
    /\ InOrder(current)
    /\ \A d \in Days : InOrder(dated[d])
    /\ FilesApart
    /\ (\A o \in Openers : pc[o] # "truncate") =>
          \A d \in Days : Below(dated[d], current)
    /\ \A o \in Openers : pc[o] = "merge" =>
          InOrder(content[o]) /\ \A d \in Days : Below(dated[d], content[o])
    /\ \A o \in Openers : pc[o] = "truncate" =>
          \A d \in Days :
              \A m \in Held(dated[d]) \ (repeated \cup Copied(o)),
                 n \in Held(current) \ (repeated \cup Copied(o)) : m < n

LEMMA OrderInvInit == LossInit => OrderInv
BY HeldByEmpty DEF LossInit, LoggerInit, OrderInv, FilesApart, Below, InOrder

LEMMA OrderInvStep ==
    ASSUME LogInv, OrderInv, RotationsApart, RotationsApart', [LossNext]_lossVars
    PROVE  OrderInv'
<1> USE LoggerAssumption
<1>0. /\ pc \in [Openers -> OpenLabels]
      /\ content \in [Openers -> Seq(Nat)] /\ dated \in [Days -> Seq(Nat)]
      /\ current \in Seq(Nat) /\ written \in Seq(Days) /\ date \in [Openers -> Days]
  BY DEF LogInv, LoggerTypeOK
<1>1. CASE Write /\ UNCHANGED repeated
  <2>1. PICK new \in Nat : new = Len(written) + 1
    BY <1>0
  <2>2. current' = Append(current, new) /\ UNCHANGED <<dated, pc, content, repeated>>
    BY <1>1, <2>1 DEF Write, openVars
  <2>3. \A n \in DOMAIN written : n < new
    <3>1. DOMAIN written = 1..Len(written) /\ Len(written) \in Nat
      BY <1>0
    <3> QED
      BY <2>1, <3>1
  <2>4. /\ \A m \in Held(current) : m < new
        /\ \A d \in Days : \A m \in Held(dated[d]) : m < new
    BY <2>3 DEF LogInv, LinesKnown
  <2>5. InOrder(Append(current, new))
    BY <1>0, <2>4, InOrderAppend DEF OrderInv
  <2>6. Held(current') = Held(current) \cup {new}
    BY <1>0, <2>2, HeldByAppend
  <2>7. (\A o \in Openers : pc'[o] # "truncate") =>
           \A d \in Days : Below(dated[d], current)'
    BY <2>2, <2>4, <2>6 DEF OrderInv, Below
  <2>8. ASSUME NEW o \in Openers, pc'[o] = "truncate", NEW d \in Days,
               NEW m \in Held(dated'[d]) \ (repeated' \cup Copied(o)'),
               NEW n \in Held(current') \ (repeated' \cup Copied(o)')
        PROVE  m < n
    BY <2>2, <2>4, <2>6, <2>8 DEF OrderInv, Copied
  <2>9. InOrder(current)' /\ FilesApart' /\ \A d \in Days : InOrder(dated[d])'
    BY <2>2, <2>5 DEF OrderInv, FilesApart, InOrder
  <2>10. \A o \in Openers : pc'[o] = "merge" =>
            InOrder(content[o])' /\ \A d \in Days : Below(dated[d], content[o])'
    BY <2>2 DEF OrderInv, Below, InOrder
  <2> QED
    BY <2>7, <2>8, <2>9, <2>10 DEF OrderInv
<1>2. ASSUME NEW o \in Openers, Merge(o) \/ MergeFails(o), UNCHANGED repeated
      PROVE  OrderInv'
  <2>1. PICK f \in Days : f = date[o]
    BY <1>0
  <2>2. /\ UNCHANGED <<current, content, repeated>>
        /\ pc[o] = "merge" /\ pc'[o] = "truncate"
        /\ \/ dated' = [dated EXCEPT ![f] = dated[f] \o content[o]]
           \/ UNCHANGED dated
    BY <1>0, <1>2, <2>1 DEF Merge, MergeFails, Move, files
  <2>3. InOrder(content[o]) /\ \A d \in Days : Below(dated[d], content[o])
    BY <2>2 DEF OrderInv
  <2>4. /\ InOrder(dated'[f])
        /\ Held(dated'[f]) \subseteq Held(dated[f]) \cup Held(content[o])
    <3>1. dated'[f] \in {dated[f] \o content[o], dated[f]} /\ InOrder(dated[f])
      BY <1>0, <2>2 DEF OrderInv
    <3>2. dated[f] \in Seq(Nat) /\ content[o] \in Seq(Nat)
      BY <1>0
    <3> QED
      BY <2>3, <3>1, <3>2, InOrderConcat, HeldByConcat
  <2>5. \A d \in Days \ {f} : dated'[d] = dated[d]
    BY <1>0, <2>2
  <2>6. \A d \in Days : Held(dated[d]) \cap Held(content[o]) \subseteq repeated
    <3>1. \A n \in Held(content[o]) : n \in Nat
      BY <1>0 DEF Held
    <3> QED
      BY <2>3, <3>1 DEF Below
  <2>7. FilesApart'
    BY <2>2, <2>4, <2>5, <2>6 DEF OrderInv, FilesApart
  <2>8. \A p \in Openers \ {o} : pc'[p] = pc[p] /\ ~Rotating(p)
    BY <1>0, <1>2, <2>2 DEF Merge, MergeFails, Move, RotationsApart, Rotating
  <2>9. \A d \in Days : Below(dated[d], current)
    BY <2>2, <2>8 DEF OrderInv, Rotating
  <2>10. Held(content[o]) = Copied(o) /\ Copied(o)' = Copied(o)
    BY <2>2 DEF Held, Copied
  <2>11. ASSUME NEW d \in Days, NEW m \in Held(dated'[d]) \ (repeated \cup Copied(o)),
                NEW n \in Held(current) \ (repeated \cup Copied(o))
         PROVE  m < n
    BY <2>4, <2>5, <2>9, <2>10 DEF Below
  <2>12. InOrder(current)' /\ \A d \in Days : InOrder(dated[d])'
    BY <2>2, <2>4, <2>5 DEF OrderInv, InOrder
  <2> QED
    BY <2>2, <2>7, <2>8, <2>10, <2>11, <2>12 DEF OrderInv, Rotating
<1>3. ASSUME NEW o \in Openers, Truncate(o), UNCHANGED repeated
      PROVE  OrderInv'
  <2>1. /\ current' = <<>> /\ UNCHANGED <<dated, content>> /\ pc'[o] = "clean"
    BY <1>0, <1>3 DEF Truncate, Move
  <2>2. InOrder(current)' /\ \A d \in Days : Below(dated[d], current)'
    BY <2>1, HeldByEmpty DEF Below, InOrder
  <2>3. \A p \in Openers \ {o} : pc'[p] = pc[p] /\ ~Rotating(p)
    BY <1>0, <1>3 DEF Truncate, Move, RotationsApart, Rotating
  <2>4. FilesApart' /\ \A d \in Days : InOrder(dated[d])'
    BY <1>3, <2>1 DEF OrderInv, FilesApart, InOrder
  <2> QED
    BY <2>1, <2>2, <2>3, <2>4 DEF OrderInv, Rotating
<1>4. ASSUME NEW o \in Openers, TruncateFails(o), repeated' = repeated \cup Copied(o)
      PROVE  OrderInv'
  <2>1. /\ UNCHANGED <<current, dated, content>>
        /\ pc[o] = "truncate" /\ pc'[o] = "clean"
    BY <1>0, <1>4 DEF TruncateFails, Move, files
  <2>2. \A d \in Days : Below(dated[d], current)'
    BY <1>4, <2>1 DEF OrderInv, Below
  <2>3. \A p \in Openers \ {o} : pc'[p] = pc[p] /\ ~Rotating(p)
    BY <1>0, <1>4 DEF TruncateFails, Move, RotationsApart, Rotating
  <2>4. InOrder(current)' /\ FilesApart' /\ \A d \in Days : InOrder(dated[d])'
    BY <1>4, <2>1 DEF OrderInv, FilesApart, InOrder
  <2> QED
    BY <2>1, <2>2, <2>3, <2>4 DEF OrderInv, Rotating
<1>5. ASSUME NEW o \in Openers, Read(o), UNCHANGED repeated
      PROVE  OrderInv'
  <2>1. /\ UNCHANGED <<current, dated>> /\ pc[o] = "read" /\ content'[o] = current
        /\ pc'[o] = IF current = <<>> THEN "truncate" ELSE "merge"
    BY <1>0, <1>5 DEF Read, Move, files
  <2>2. Rotating(o)' /\ \A p \in Openers \ {o} : pc'[p] = pc[p]
    BY <1>0, <1>5 DEF Read, Move, Rotating
  <2>3. \A p \in Openers \ {o} : ~Rotating(p)
    BY <2>2 DEF RotationsApart, Rotating
  <2>4. \A d \in Days : Below(dated[d], current)
    BY <2>1, <2>3 DEF OrderInv, Rotating
  <2>5. /\ InOrder(current)' /\ FilesApart' /\ \A d \in Days : InOrder(dated[d])'
        /\ InOrder(content[o])'
        /\ \A d \in Days : Below(dated[d], current)' /\ Below(dated[d], content[o])'
    BY <1>5, <2>1, <2>4 DEF OrderInv, FilesApart, InOrder, Below
  <2>6. pc'[o] = "truncate" => Held(current') = {}
    BY <2>1, HeldByEmpty
  <2> QED
    BY <2>2, <2>3, <2>5, <2>6 DEF OrderInv, Rotating
<1>6. ASSUME NEW o \in Openers, UNCHANGED repeated,
             List(o) \/ Retain(o) \/ FindOld(o) \/ Remove(o) \/ Close(o)
      PROVE  OrderInv'
  <2>1. /\ UNCHANGED current /\ pc[o] # "truncate"
        /\ pc'[o] \notin {"merge", "truncate"}
        /\ \A d \in Days : dated'[d] \in {dated[d], <<>>}
    BY <1>0, <1>6 DEF List, Retain, FindOld, Remove, Close, Move, files
  <2>2. /\ InOrder(current)'
        /\ \A d \in Days :
              InOrder(dated[d])' /\ Held(dated'[d]) \subseteq Held(dated[d])
    BY <1>6, <2>1, HeldByEmpty DEF OrderInv, InOrder
  <2>3. \A p \in Openers \ {o} : pc'[p] = pc[p] /\ content'[p] = content[p]
    BY <1>0, <1>6 DEF List, Retain, FindOld, Remove, Close, Move
  <2>4. FilesApart'
    BY <1>6, <2>2 DEF OrderInv, FilesApart
  <2>5. (\A p \in Openers : pc'[p] # "truncate") =>
           \A d \in Days : Below(dated[d], current)'
    BY <1>6, <2>1, <2>2, <2>3 DEF OrderInv, Below
  <2>6. ASSUME NEW p \in Openers, pc'[p] = "merge"
        PROVE  InOrder(content[p])' /\ \A d \in Days : Below(dated[d], content[p])'
    BY <1>6, <2>1, <2>2, <2>3, <2>6 DEF OrderInv, Below, InOrder
  <2>7. ASSUME NEW p \in Openers, pc'[p] = "truncate", NEW d \in Days,
               NEW m \in Held(dated'[d]) \ (repeated' \cup Copied(p)'),
               NEW n \in Held(current') \ (repeated' \cup Copied(p)')
        PROVE  m < n
    <3>1. pc[p] = "truncate" /\ Copied(p)' = Copied(p)
      BY <2>1, <2>3, <2>7 DEF Copied
    <3> QED
      BY <1>6, <2>1, <2>2, <2>7, <3>1 DEF OrderInv
  <2> QED
    BY <2>2, <2>4, <2>5, <2>6, <2>7 DEF OrderInv
<1>7. ASSUME NEW o \in Openers, UNCHANGED repeated,
             Open(o) \/ NoRollover(o) \/ Rollover(o) \/ ReadFails(o)
      PROVE  OrderInv'
  <2>1. /\ UNCHANGED <<current, dated, content, repeated>>
        /\ pc[o] \in {"closed", "stat", "read"}
        /\ pc'[o] \in {"stat", "clean", "read"}
        /\ \A p \in Openers \ {o} : pc'[p] = pc[p]
    BY <1>0, <1>7 DEF Open, NoRollover, Rollover, ReadFails, Move, files
  <2>2. /\ InOrder(current)' = InOrder(current) /\ FilesApart' = FilesApart
        /\ \A d \in Days : InOrder(dated[d])' = InOrder(dated[d])
        /\ \A d \in Days : Below(dated[d], current)' = Below(dated[d], current)
    BY <2>1 DEF InOrder, FilesApart, Below
  <2>3. \A p \in Openers :
           /\ InOrder(content[p])' = InOrder(content[p]) /\ Copied(p)' = Copied(p)
           /\ \A d \in Days : Below(dated[d], content[p])' = Below(dated[d], content[p])
    BY <2>1 DEF InOrder, Copied, Below
  <2> QED
    BY <2>1, <2>2, <2>3 DEF OrderInv
<1>8. CASE UNCHANGED <<current, dated, pc, content, repeated>>
  BY <1>8 DEF OrderInv, FilesApart, InOrder, Below, Copied
<1> QED
  <2>1. CASE DayPasses /\ UNCHANGED repeated
    BY <1>8, <2>1 DEF DayPasses, files, openVars
  <2>2. CASE UNCHANGED lossVars
    BY <1>8, <2>2 DEF lossVars, loggerVars, files, openVars
  <2> QED
    BY <1>1, <1>2, <1>3, <1>4, <1>5, <1>6, <1>7, <2>1, <2>2
       DEF LossNext, Loses, Repeats, Keeps

\* However many openings of the service's log overlap, whatever is written
\* meanwhile and whatever fails: unless two of them rotate current.log at the
\* same time, no line is in two places once they are done and every file has its
\* lines in the order in which they were written, but for the lines that an
\* opener had read and, failing to empty current.log, left there to be merged
\* once more.
THEOREM LinesKeepOrder == LossSpec /\ []RotationsApart => []LinesInOrder
<1>1. LossInit => LogInv /\ OrderInv
  BY LogInvInit, OrderInvInit DEF LossInit
<1>2. /\ LogInv /\ OrderInv
      /\ RotationsApart /\ RotationsApart' /\ [LossNext]_lossVars
      => (LogInv /\ OrderInv)'
  BY LossStepIsLoggerStep, LogInvStep, OrderInvStep
<1>3. LogInv /\ OrderInv => LinesInOrder
  <2> SUFFICES ASSUME LogInv, OrderInv, Quiet
               PROVE  /\ InOrder(current)
                      /\ \A d \in Days : InOrder(dated[d])
                      /\ \A d \in Days, n \in Lines \ repeated : n \in Held(dated[d]) =>
                            /\ n \notin Held(current)
                            /\ \A e \in Days \ {d} : n \notin Held(dated[e])
    BY OccursIsHeld DEF LinesInOrder
  <2>1. \A d \in Days : Below(dated[d], current)
    BY DEF OrderInv, Quiet
  <2>2. \A n \in Lines : ~(n < n)
    BY LoggerAssumption DEF Lines
  <2> QED
    BY <2>1, <2>2 DEF OrderInv, FilesApart, Below
<1> QED
  BY <1>1, <1>2, <1>3, PTL DEF LossSpec
=============================================================================
