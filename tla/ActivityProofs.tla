---------------------------- MODULE ActivityProofs ----------------------------
(***************************************************************************)
(* Theorems about Activity, for any number of requests, log files, lines,  *)
(* rotations and faults and any limits.                                    *)
(*                                                                         *)
(* A refresh reads files whose names move under it and claims the time     *)
(* between the first login it saw and the instant it began; what it saw    *)
(* has no gap but where it went past a name that was not listed (NoGap),   *)
(* in whatever order writes, rotations and reads follow one another.       *)
(***************************************************************************)
EXTENDS Activity, FiniteSetTheorems, WellFoundedInduction, TLAPS

\* The lines that are in a log, whether or not a scan still looks at it.
Written == UNION {logs[i] : i \in 1..Len(logs)}

\* A login that is on the disk, stored, or in the hands of a refresh.
Known == Written \cup stored \cup scan.seen

Names == Nat \ {0}
Scans == [at : Nat, files : SUBSET Names, left : SUBSET Names, count : Nat,
          seen : SUBSET Times, passed : SUBSET Times, lost : BOOLEAN]
Ranges == [start : Nat \ {0}, end : Nat]
Answers == [from : Int, shown : SUBSET Times, until : Nat, complete : BOOLEAN, late : SUBSET Times]

Shapes ==
    TypeOK /\ scan \in Scans /\ ranges \subseteq Ranges /\ answer \in [Requests -> Answers]

\* Time only goes on: the logs are in order, newest first, and nothing is later
\* than the clock.
LogsOrdered ==
    /\ \A i \in 1..Len(logs) : \A t \in logs[i] : t <= clock
    /\ \A i, j \in 1..Len(logs) : i < j => \A t \in logs[i], u \in logs[j] : u < t

\* What was seen and covered is past, and no range is from after the instant the
\* running refresh began at.
RangesPast ==
    /\ \A r \in ranges : r.start <= clock /\ r.end <= clock
    /\ \A t \in scan.seen : t <= clock
    /\ scan.at <= clock
    /\ scan.files # {} => \A r \in ranges : r.start <= scan.at /\ r.end <= scan.at

\* A range that the clock left behind its start, by a login that came after the
\* refresh had begun, is not between another range and its end.
EndsApart == \A q, r \in ranges : q.end <= r.end \/ q.end >= r.start

\* Every file the refresh has read is newer than name i.
Behind(i) == \A k \in scan.files \ scan.left : k < i

\* What a refresh that lost nothing has seen goes without a gap up to the instant
\* it began at, but for what it went past, though the names of the files move
\* under it.
NoGap ==
    ~scan.lost /\ scan.count <= Capacity =>
        \A i \in 1..Len(logs) : \A t \in logs[i] :
            \/ t \in scan.seen
            \/ t > scan.at
            \/ t \in scan.passed
            \/ Behind(i) /\ \A s \in scan.seen : t < s

CoveredIsKnown ==
    \A t \in Known : t >= clock - Window /\ (\E r \in ranges : t \in Covered(r))
        => t \in stored \cup missed

\* What an answer shows, and what is excepted.
Given(r) == answer[r].shown \cup missed \cup answer[r].late

\* Between the two reads of a request, and when it has answered.
Answered ==
    \A r \in Requests :
        /\ pc[r] = "ranges" =>
              \A t \in Known : t >= answer[r].from =>
                  \/ t \in Given(r)
                  \/ t \notin stored /\ \A q \in ranges : t \notin Covered(q)
        /\ pc[r] = "done" /\ answer[r].complete =>
              /\ answer[r].until <= clock
              /\ \A t \in Known : t >= answer[r].from /\ t <= answer[r].until => t \in Given(r)

ActivityInv ==
    /\ Shapes /\ LogsOrdered /\ RangesPast /\ EndsApart /\ RangesDisjoint
    /\ NoGap /\ CoveredIsKnown /\ Answered

-----------------------------------------------------------------------------
(* Operators *)

\* Min and Max are choices: what they return is what they are named for, where there
\* is such a number.
LEMMA MinOfNaturals ==
    ASSUME NEW S, S \subseteq Nat, S # {}
    PROVE  Min(S) \in S /\ \A y \in S : Min(S) <= y
<1> DEFINE R == OpToRel(<, Nat)
<1>0. ASSUME NEW x \in Nat, NEW y \in Nat, <<y, x>> \notin R PROVE x <= y
  <2>1. <<y, x>> \in Nat \X Nat
    OBVIOUS
  <2>2. ~(<<y, x>>[1] < <<y, x>>[2])
    BY <1>0, <2>1 DEF OpToRel
  <2> QED
    BY <2>2
<1>1. IsWellFoundedOn(R, Nat)
  BY NatLessThanWellFounded
<1> HIDE DEF R
<1>2. \E x \in S : \A y \in S : <<y, x>> \notin R
  BY <1>1, WFMin
<1>3. \E x \in S : \A y \in S : x <= y
  BY <1>0, <1>2
<1> QED
  BY <1>3 DEF Min

\* The maximum of naturals below a bound is the bound minus the least distance.
LEMMA MaxOfNaturals ==
    ASSUME NEW S, S \subseteq Nat, S # {}, NEW b \in Nat, \A x \in S : x <= b
    PROVE  Max(S) \in S /\ \A y \in S : y <= Max(S)
<1> DEFINE D == {d \in Nat : b - d \in S}
<1>1. \A x \in S : b - x \in D
  <2> TAKE x \in S
  <2>1. x \in Nat /\ b - x \in Nat /\ b - (b - x) = x
    OBVIOUS
  <2> QED
    BY <2>1
<1>2. D # {} /\ D \subseteq Nat
  BY <1>1
<1>3. Min(D) \in D /\ \A d \in D : Min(D) <= d
  BY <1>2, MinOfNaturals
<1> DEFINE m == Min(D)
<1>4. m \in Nat /\ b - m \in S
  BY <1>3
<1>5. \A y \in S : b - m >= y
  <2> TAKE y \in S
  <2>1. m <= b - y /\ m \in Nat /\ y \in Nat
    BY <1>1, <1>3, <1>4
  <2> QED
    BY <2>1
<1> HIDE DEF m
<1> QED
  BY <1>4, <1>5 DEF Max

\* After a rotation each name holds what the one before it held.
LEMMA RotatedLogs ==
    ASSUME NEW n \in Nat, n <= Len(logs), logs \in Seq(SUBSET Times),
           logs' = <<{}>> \o SubSeq(logs, 1, n)
    PROVE  /\ logs' \in Seq(SUBSET Times) /\ Len(logs') = n + 1
           /\ logs'[1] = {}
           /\ \A i \in 2..(n + 1) : logs'[i] = logs[i - 1]
OBVIOUS

\* The lines of a file are finitely many, and while the limit is not exceeded
\* there was room for all of them.
LEMMA RoomForAll ==
    ASSUME NEW n \in Nat, NEW s, s.count \in Nat, NEW lines, lines \subseteq 1..n
    PROVE  /\ Cardinality(lines) \in Nat
           /\ Room(s, lines) \subseteq lines
           /\ s.count + Cardinality(lines) <= Capacity => Room(s, lines) = lines
<1>1. IsFiniteSet(lines)
  <2>1. IsFiniteSet(1..n)
    BY FS_Interval
  <2> QED
    BY <2>1, FS_Subset
<1>2. Cardinality(lines) \in Nat
  BY <1>1, FS_CardinalityType
<1>3. ASSUME NEW t \in lines
      PROVE  /\ Cardinality(lines \cap 1..t) \in Nat
             /\ Cardinality(lines \cap 1..t) <= Cardinality(lines)
  <2>1. IsFiniteSet(lines \cap 1..t) /\ Cardinality(lines \cap 1..t) <= Cardinality(lines)
    BY <1>1, FS_Subset
  <2> QED
    BY <2>1, FS_CardinalityType
<1>4. Capacity \in Nat
  BY BoundsAssumption
<1>5. ASSUME s.count + Cardinality(lines) <= Capacity, NEW t \in lines
      PROVE  s.count + Cardinality(lines \cap 1..t) <= Capacity
  BY <1>2, <1>3, <1>4, <1>5
<1> QED
  BY <1>2, <1>5 DEF Room

LEMMA Bounds ==
    /\ LastTime \in Nat /\ Capacity \in Nat /\ Window \in Nat /\ Retention \in Nat
    /\ Days \in Nat /\ Grace \in Nat /\ MaxRotations \in Nat /\ MaxFaults \in Nat
    /\ Files \in Nat \ {0} /\ Listed \in Nat \ {0} /\ Days <= Window /\ Window <= Retention
BY BoundsAssumption

-----------------------------------------------------------------------------
(* The steps *)

LEMMA ActivityInitially == Init => ActivityInv
<1> SUFFICES ASSUME Init PROVE ActivityInv
  OBVIOUS
<1> USE Bounds DEF Init
<1>1. /\ logs \in Seq(SUBSET Times) /\ Len(logs) = 1 /\ logs[1] = {}
      /\ scan.seen = {} /\ ranges = {} /\ stored = {} /\ scan.files = {} /\ missed = {}
      /\ scan.at = 0
  BY DEF NoScan
<1>2. Shapes
  <2>1. pc \in [Callers -> {"new", "asleep", "ask", "scan", "logins", "ranges", "done"}]
    OBVIOUS
  <2>2. clock \in 0..LastTime /\ rotations \in 0..MaxRotations /\ faults \in 0..MaxFaults
    OBVIOUS
  <2>3. TypeOK
    <3>1. Len(logs) \in 1..Files /\ stored \subseteq Times /\ missed \subseteq Times
      BY <1>1
    <3>2. fresh \in BOOLEAN
      OBVIOUS
    <3> QED
      BY <1>1, <2>1, <2>2, <3>1, <3>2 DEF TypeOK
  <2>4. scan \in Scans /\ answer \in [Requests -> Answers]
    BY DEF NoScan, NoAnswer, Scans, Answers
  <2> QED
    BY <1>1, <2>3, <2>4 DEF Shapes
<1>3. LogsOrdered /\ RangesPast /\ EndsApart /\ RangesDisjoint /\ NoGap /\ CoveredIsKnown
  BY <1>1 DEF LogsOrdered, RangesPast, EndsApart, RangesDisjoint, NoGap, CoveredIsKnown
<1>4. Answered
  BY CollectorAssumption DEF Answered, Callers
<1> QED
  BY <1>2, <1>3, <1>4 DEF ActivityInv

\* Steps that touch neither logs, tables nor clock, and begin no read of a
\* request: a refresh is given up or not, an answer is dropped or not.
LEMMA StandingStep ==
    ASSUME ActivityInv, UNCHANGED <<host, tables>>, scan' \in {scan, NoScan}, TypeOK',
           \A r \in Requests :
               \/ pc'[r] \in {"ranges", "done"} => pc'[r] = pc[r] /\ answer'[r] = answer[r]
               \/ answer'[r] = NoAnswer /\ pc'[r] # "ranges",
           answer' \in [Requests -> Answers]
    PROVE  ActivityInv'
<1> USE DEF host, tables
<1>1. /\ NoScan \in Scans /\ NoScan.seen = {} /\ NoScan.files = {} /\ NoScan.at = 0
      /\ ~NoAnswer.complete
  BY DEF NoScan, NoAnswer, Scans
<1>2. Shapes'
  BY <1>1 DEF ActivityInv, Shapes
<1>3. LogsOrdered' /\ EndsApart' /\ RangesDisjoint'
  BY DEF ActivityInv, LogsOrdered, EndsApart, RangesDisjoint
<1>4. RangesPast' /\ NoGap'
  <2>1. clock \in Nat
    BY Bounds DEF ActivityInv, Shapes, TypeOK
  <2> QED
    BY <1>1, <2>1 DEF ActivityInv, RangesPast, NoGap, Behind
<1>5. Known' \subseteq Known
  BY <1>1 DEF Known, Written
<1>6. CoveredIsKnown'
  BY <1>5 DEF ActivityInv, CoveredIsKnown, Covered
<1>7. Answered'
  BY <1>1, <1>5 DEF ActivityInv, Answered, Given, Covered
<1> QED
  BY <1>2, <1>3, <1>4, <1>6, <1>7 DEF ActivityInv

\* The new line is later than everything covered or being read.
LEMMA WriteStep == ActivityInv /\ Write => ActivityInv'
<1> SUFFICES ASSUME ActivityInv, Write PROVE ActivityInv'
  OBVIOUS
<1> USE Bounds
<1>1. /\ clock \in Nat /\ clock' = clock + 1 /\ clock' \in Times
      /\ UNCHANGED <<rotations, pc, scan, fresh, stored, ranges, missed, answer, faults>>
      /\ logs' \in {logs, [logs EXCEPT ![1] = @ \cup {clock'}]}
      /\ logs \in Seq(SUBSET Times) /\ Len(logs) \in Nat \ {0}
      /\ Shapes /\ TypeOK
  BY DEF ActivityInv, Shapes, TypeOK, Write, Times, tables
<1>2. /\ Len(logs') = Len(logs) /\ logs' \in Seq(SUBSET Times)
      /\ \A i \in 1..Len(logs) : \A t \in logs'[i] : t \in logs[i] \/ (i = 1 /\ t = clock')
  BY <1>1
<1>3. Shapes'
  BY <1>1, <1>2 DEF Shapes, TypeOK, Write
<1>4. /\ \A i \in 1..Len(logs) : logs[i] \subseteq Times
      /\ Times \subseteq Nat /\ stored \subseteq Times
      /\ scan \in Scans /\ ranges \subseteq Ranges /\ scan.seen \subseteq Times
      /\ scan.at \in Nat
  BY <1>1 DEF Shapes, TypeOK, Times, Scans
<1>5. LogsOrdered'
  <2>1. \A i \in 1..Len(logs) : \A t \in logs[i] : t <= clock /\ t \in Nat
    BY <1>1, <1>4 DEF ActivityInv, LogsOrdered
  <2>2. \A i \in 1..Len(logs) : \A t \in logs'[i] : t <= clock'
    BY <1>1, <1>2, <2>1
  <2>3. ASSUME NEW i \in 1..Len(logs), NEW j \in 1..Len(logs), i < j,
               NEW t \in logs'[i], NEW u \in logs'[j]
        PROVE  u < t
    <3>1. u \in logs[j]
      BY <1>2, <2>3
    <3>2. CASE t \in logs[i]
      BY <2>3, <3>1, <3>2 DEF ActivityInv, LogsOrdered
    <3>3. CASE t = clock'
      BY <1>1, <2>1, <3>1, <3>3
    <3> QED
      BY <1>2, <3>2, <3>3
  <2> QED
    BY <1>2, <2>2, <2>3 DEF LogsOrdered
<1>6. RangesPast' /\ EndsApart' /\ RangesDisjoint'
  BY <1>1, <1>4 DEF ActivityInv, RangesPast, EndsApart, RangesDisjoint, Ranges, Scans
<1>7. scan.at <= clock
  BY <1>1 DEF ActivityInv, RangesPast
<1>8. NoGap'
  BY <1>1, <1>2, <1>4, <1>7 DEF ActivityInv, NoGap, Behind
<1>9. Known' \subseteq Known \cup {clock'}
  BY <1>1, <1>2 DEF Known, Written
<1>10. \A r \in ranges : clock' \notin Covered(r)
  BY <1>1, <1>4 DEF ActivityInv, RangesPast, Covered, Ranges
<1>11. CoveredIsKnown'
  BY <1>1, <1>4, <1>9, <1>10 DEF ActivityInv, CoveredIsKnown, Known, Written, Covered
<1>12. Answered'
  <2>1. \A r \in Requests : Given(r)' = Given(r) /\ answer[r].until \in Nat
    BY <1>1 DEF Given, Shapes, Answers
  <2>2. ASSUME NEW r \in Requests, pc[r] = "ranges", NEW t \in Known', t >= answer[r].from,
               t \in stored \/ \E q \in ranges : t \in Covered(q)
        PROVE  t \in Given(r)
    <3>1. t \in Known
      BY <1>9, <1>10, <2>2 DEF Known
    <3> QED
      BY <2>2, <3>1 DEF ActivityInv, Answered
  <2>3. ASSUME NEW r \in Requests, pc[r] = "done", answer[r].complete
        PROVE  /\ answer[r].until <= clock'
               /\ \A t \in Known' : t >= answer[r].from /\ t <= answer[r].until => t \in Given(r)
    <3>1. answer[r].until <= clock /\ answer[r].until \in Nat
      BY <2>1, <2>3 DEF ActivityInv, Answered
    <3>2. ~(clock' <= answer[r].until)
      BY <1>1, <3>1
    <3> QED
      BY <1>1, <1>9, <2>3, <3>1, <3>2 DEF ActivityInv, Answered
  <2> QED
    BY <1>1, <2>1, <2>2, <2>3 DEF Answered, Covered
<1> QED
  BY <1>3, <1>5, <1>6, <1>8, <1>11, <1>12 DEF ActivityInv

\* The names move on; what a refresh has read is then under the next name.
LEMMA RotateStep == ActivityInv /\ Rotate => ActivityInv'
<1> SUFFICES ASSUME ActivityInv, Rotate PROVE ActivityInv'
  OBVIOUS
<1> USE Bounds
<1> DEFINE n == Earliest(Len(logs), Files - 1)
<1>1. /\ logs' = <<{}>> \o SubSeq(logs, 1, n)
      /\ UNCHANGED <<clock, pc, scan, fresh, stored, ranges, missed, answer, faults>>
      /\ logs \in Seq(SUBSET Times) /\ Len(logs) \in 1..Files /\ Shapes /\ TypeOK
  BY DEF ActivityInv, Shapes, TypeOK, Rotate, tables
<1>2. n \in Nat /\ n <= Len(logs) /\ n <= Files - 1
  BY <1>1 DEF Earliest
<1> HIDE DEF n
<1>3. /\ logs' \in Seq(SUBSET Times) /\ Len(logs') = n + 1
      /\ logs'[1] = {}
      /\ \A i \in 2..(n + 1) : logs'[i] = logs[i - 1]
  BY <1>1, <1>2, RotatedLogs
<1>4. \A i \in 1..Len(logs') : \A t \in logs'[i] :
          i - 1 \in 1..Len(logs) /\ t \in logs[i - 1] /\ i > 1
  BY <1>2, <1>3
<1>5. Shapes'
  BY <1>1, <1>2, <1>3 DEF Shapes, TypeOK, Rotate
<1>6. LogsOrdered'
  <2>1. ASSUME NEW i \in 1..Len(logs'), NEW j \in 1..Len(logs'), i < j,
               NEW t \in logs'[i], NEW u \in logs'[j]
        PROVE  u < t
    <3>1. /\ i - 1 \in 1..Len(logs) /\ j - 1 \in 1..Len(logs) /\ i - 1 < j - 1
          /\ t \in logs[i - 1] /\ u \in logs[j - 1]
      BY <1>2, <1>3, <1>4, <2>1
    <3> QED
      BY <3>1 DEF ActivityInv, LogsOrdered
  <2>2. \A i \in 1..Len(logs') : \A t \in logs'[i] : t <= clock'
    BY <1>1, <1>4 DEF ActivityInv, LogsOrdered
  <2> QED
    BY <2>1, <2>2 DEF LogsOrdered
<1>7. RangesPast' /\ EndsApart' /\ RangesDisjoint'
  BY <1>1 DEF ActivityInv, RangesPast, EndsApart, RangesDisjoint
<1>8. NoGap'
  <2>1. scan.files \subseteq Nat
    BY <1>1 DEF Shapes, Scans, Names
  <2>2. ASSUME ~scan.lost, scan.count <= Capacity, NEW i \in 1..Len(logs'), NEW t \in logs'[i]
        PROVE  \/ t \in scan.seen \/ t > scan.at \/ t \in scan.passed
               \/ Behind(i) /\ \A s \in scan.seen : t < s
    <3>1. i - 1 \in 1..Len(logs) /\ t \in logs[i - 1]
      BY <1>4
    <3>2. \/ t \in scan.seen \/ t > scan.at \/ t \in scan.passed
          \/ Behind(i - 1) /\ \A s \in scan.seen : t < s
      BY <2>2, <3>1 DEF ActivityInv, NoGap
    <3> QED
      BY <1>3, <2>1, <3>2 DEF Behind
  <2> QED
    BY <1>1, <2>2 DEF NoGap, Behind
<1>9. Known' \subseteq Known
  <2>1. Written' \subseteq Written
    BY <1>4 DEF Written
  <2> QED
    BY <1>1, <2>1 DEF Known
<1>10. CoveredIsKnown' /\ Answered'
  BY <1>1, <1>9 DEF ActivityInv, CoveredIsKnown, Answered, Given, Covered
<1> QED
  BY <1>5, <1>6, <1>7, <1>8, <1>10 DEF ActivityInv

\* A refresh begins: nothing seen yet, and every range is of the past.
LEMMA RefreshStep == ASSUME ActivityInv, NEW c \in Callers, Refresh(c) PROVE ActivityInv'
<1> USE Bounds
<1>1. /\ UNCHANGED <<clock, logs, rotations, stored, ranges, missed, answer>>
      /\ Shapes /\ TypeOK /\ clock \in Nat
      /\ pc' \in [Callers -> {"new", "asleep", "ask", "scan", "logins", "ranges", "done"}]
      /\ \A r \in Callers : pc'[r] \in {"ranges", "done"} => pc'[r] = pc[r]
      /\ fresh' \in BOOLEAN
  <2>1. Shapes /\ TypeOK
    BY DEF ActivityInv, Shapes
  <2>2. clock \in Nat
    BY <2>1 DEF TypeOK
  <2>3. \E step \in {"scan", "logins"} : pc' = [pc EXCEPT ![c] = step]
    BY DEF Refresh, Goto
  <2>4. fresh' = TRUE \/ fresh' = fresh
    BY DEF Refresh
  <2>5. fresh' \in BOOLEAN
    BY <2>1, <2>4 DEF TypeOK
  <2>6. UNCHANGED <<clock, logs, rotations, stored, ranges, missed, answer>>
    BY DEF Refresh, host, tables
  <2> QED
    BY <2>1, <2>2, <2>3, <2>5, <2>6 DEF TypeOK
<1>2. \/ UNCHANGED <<scan, faults>>
      \/ /\ \E names \in SUBSET (1..Len(logs)) :
               scan' = [NoScan EXCEPT !.at = clock, !.files = names, !.left = names]
         /\ faults' = faults \/ (faults < MaxFaults /\ faults' = faults + 1)
  <2>1. CASE \E out \in SUBSET (1..Len(logs)) : List(out)
    <3>1. PICK out \in SUBSET (1..Len(logs)) : List(out)
      BY <2>1
    <3>2. Newest((1..Len(logs)) \ out) \subseteq 1..Len(logs)
      BY DEF Newest
    <3>3. faults' = faults \/ (faults < MaxFaults /\ faults' = faults + 1)
      BY <3>1 DEF List
    <3> QED
      BY <3>1, <3>2, <3>3 DEF List
  <2> QED
    BY <2>1 DEF Refresh
<1>3. faults' \in 0..MaxFaults
  <2>1. faults' = faults \/ (faults < MaxFaults /\ faults' = faults + 1)
    BY <1>2
  <2>2. faults \in 0..MaxFaults
    BY <1>1 DEF TypeOK
  <2> QED
    BY <2>1, <2>2
<1>4. TypeOK'
  BY <1>1, <1>3 DEF TypeOK
<1>5. CASE scan' = scan
  BY <1>1, <1>4, <1>5, StandingStep DEF host, tables, Callers, Shapes, ActivityInv
<1>6. ASSUME NEW names \in SUBSET (1..Len(logs)),
             scan' = [NoScan EXCEPT !.at = clock, !.files = names, !.left = names]
      PROVE  ActivityInv'
  <2>1. /\ scan' \in Scans /\ scan'.at = clock /\ scan'.seen = {}
        /\ scan'.files = scan'.left
    <3>1. names \subseteq Names
      BY <1>1, <1>6 DEF Names, TypeOK
    <3>2. scan' = [at |-> clock, files |-> names, left |-> names, count |-> 0, seen |-> {},
                   passed |-> {}, lost |-> FALSE]
      BY <1>6 DEF NoScan
    <3> QED
      BY <1>1, <3>1, <3>2 DEF Scans
  <2>2. Shapes'
    BY <1>1, <1>4, <2>1 DEF Shapes
  <2>3. LogsOrdered' /\ RangesPast' /\ EndsApart' /\ RangesDisjoint'
    BY <1>1, <2>1 DEF ActivityInv, LogsOrdered, RangesPast, EndsApart, RangesDisjoint
  <2>4. NoGap'
    BY <1>1, <2>1 DEF NoGap, Behind
  <2>5. Known' \subseteq Known
    BY <1>1, <2>1 DEF Known, Written
  <2>6. CoveredIsKnown' /\ Answered'
    BY <1>1, <2>5 DEF ActivityInv, CoveredIsKnown, Answered, Given, Covered, Callers
  <2> QED
    BY <2>2, <2>3, <2>4, <2>6 DEF ActivityInv
<1> QED
  BY <1>2, <1>5, <1>6

\* A file is read, whole or up to a line that cannot be read.  Where its lines are all
\* seen, older ones are in files behind it; newer ones that were not read stand
\* under names that were not listed.
LEMMA ReadStep ==
    ASSUME ActivityInv, NEW c \in Callers, ReadFile(c) \/ ReadFileFails(c)
    PROVE  ActivityInv'
<1> USE Bounds
<1> DEFINE name == NextFile(scan)
<1>1. /\ UNCHANGED <<clock, logs, rotations, pc, fresh, stored, ranges, missed, answer>>
      /\ Shapes /\ TypeOK /\ scan \in Scans /\ clock \in 0..LastTime
      /\ faults' \in 0..MaxFaults
  <2>1. Shapes /\ TypeOK /\ scan \in Scans
    BY DEF ActivityInv, Shapes
  <2>2. clock \in 0..LastTime
    BY <2>1 DEF TypeOK
  <2>3. faults' \in 0..MaxFaults
    <3>1. faults' = faults \/ (faults < MaxFaults /\ faults' = faults + 1)
      BY DEF ReadFile, ReadFileFails
    <3>2. faults \in 0..MaxFaults
      BY <2>1 DEF TypeOK
    <3> QED
      BY <3>1, <3>2
  <2> QED
    BY <2>1, <2>2, <2>3 DEF ReadFile, ReadFileFails, host, tables
<1>2. name \in scan.left /\ name \in Nat \ {0} /\ \A k \in scan.left : name <= k
  <2>1. scan.left # {} /\ scan.left \subseteq Nat \ {0}
    BY <1>1 DEF ReadFile, ReadFileFails, Reading, Scans, Names
  <2> QED
    BY <2>1, MinOfNaturals DEF NextFile
<1>3. PICK lines \in SUBSET Lines(name), lost \in BOOLEAN :
         /\ Take(name, lines, lost)
         /\ ~lost => lines = Lines(name) /\ ~scan.lost
  <2>1. CASE ReadFile(c)
    <3>1. Take(name, Lines(name), scan.lost)
      BY <2>1 DEF ReadFile
    <3>2. scan.lost \in BOOLEAN
      BY <1>1 DEF Scans
    <3> QED
      BY <3>1, <3>2
  <2>2. CASE ReadFileFails(c)
    <3>1. PICK t \in 0..clock : Take(name, Lines(name) \cap 1..t, TRUE)
      BY <2>2 DEF ReadFileFails
    <3> QED
      BY <3>1
  <2> QED
    BY <2>1, <2>2
<1> HIDE DEF name
<1> DEFINE past == UNION {Lines(i) : i \in (1..name) \ scan.files}
<1>4. \A i \in 1..Len(logs) : \A t \in logs[i] : t \in Times /\ t \in Nat /\ t <= clock /\ 1 <= t
  BY <1>1 DEF ActivityInv, Shapes, TypeOK, LogsOrdered, Times
<1>5. /\ scan.count \in Nat /\ scan.seen \subseteq Times /\ scan.at \in Nat
      /\ scan.files \subseteq Names /\ scan.passed \subseteq Times
  BY <1>1 DEF Scans
<1>6. \A i \in Nat \ {0} : \A t \in Lines(i) : i \in 1..Len(logs) /\ t \in logs[i] /\ t \in 1..clock
  BY <1>1, <1>4 DEF Lines, Shapes, TypeOK
<1>7. /\ Cardinality(lines) \in Nat
      /\ Room(scan, lines) \subseteq lines
      /\ scan.count + Cardinality(lines) <= Capacity => Room(scan, lines) = lines
  <2>1. lines \subseteq 1..clock /\ clock \in Nat
    BY <1>1, <1>2, <1>3, <1>6
  <2> QED
    BY <1>5, <2>1, RoomForAll
<1>8. past \subseteq Times
  BY <1>4, <1>6
<1> HIDE DEF past
<1>9. /\ scan'.at = scan.at /\ scan'.files = scan.files /\ scan'.left = scan.left \ {name}
      /\ scan'.count = scan.count + Cardinality(lines)
      /\ scan'.seen = scan.seen \cup Room(scan, lines)
      /\ scan'.passed = scan.passed \cup past /\ scan'.lost = lost
      /\ scan' \in Scans
  <2>1. Room(scan, lines) \subseteq Times
    BY <1>1, <1>2, <1>3, <1>6, <1>7 DEF Times
  <2>2. scan' = [scan EXCEPT !.left = scan.left \ {name}, !.count = scan.count + Cardinality(lines),
                             !.seen = scan.seen \cup Room(scan, lines), !.lost = lost,
                             !.passed = scan.passed \cup past]
    BY <1>3 DEF Take, past
  <2>3. scan' = [at |-> scan.at, files |-> scan.files, left |-> scan.left \ {name},
                 count |-> scan.count + Cardinality(lines),
                 seen |-> scan.seen \cup Room(scan, lines),
                 passed |-> scan.passed \cup past, lost |-> lost]
    BY <1>1, <2>2 DEF Scans
  <2>4. /\ scan.at \in Nat /\ scan.left \ {name} \subseteq Names
        /\ scan.count + Cardinality(lines) \in Nat
        /\ scan.seen \cup Room(scan, lines) \subseteq Times
        /\ scan.passed \cup past \subseteq Times
    BY <1>1, <1>5, <1>7, <1>8, <2>1 DEF Scans
  <2> QED
    BY <1>3, <1>5, <2>3, <2>4 DEF Scans
<1>10. Shapes'
  BY <1>1, <1>9 DEF Shapes, TypeOK
<1>11. \A t \in scan'.seen : t \in scan.seen \/ t \in Lines(name)
  BY <1>3, <1>7, <1>9
<1>12. LogsOrdered' /\ RangesPast' /\ EndsApart' /\ RangesDisjoint'
  <2>1. \A t \in scan'.seen : t <= clock
    BY <1>1, <1>2, <1>6, <1>11 DEF ActivityInv, RangesPast
  <2> QED
    BY <1>1, <1>9, <2>1 DEF ActivityInv, LogsOrdered, RangesPast, EndsApart, RangesDisjoint
<1>13. NoGap'
  <2> SUFFICES ASSUME ~scan'.lost, scan'.count <= Capacity,
                      NEW i \in 1..Len(logs), NEW t \in logs[i]
               PROVE  \/ t \in scan'.seen \/ t > scan'.at \/ t \in scan'.passed
                      \/ Behind(i)' /\ \A s \in scan'.seen : t < s
    BY <1>1 DEF NoGap, Behind
  <2>1. scan.count <= Capacity /\ ~scan.lost /\ scan'.seen = scan.seen \cup Lines(name)
    BY <1>3, <1>5, <1>7, <1>9
  <2>2. \/ t \in scan.seen \/ t > scan.at \/ t \in scan.passed
        \/ Behind(i) /\ \A s \in scan.seen : t < s
    BY <2>1 DEF ActivityInv, NoGap
  <2>3. t \in Lines(i) /\ i \in Nat \ {0} /\ t \in Nat
    BY <1>4 DEF Lines
  <2>4. CASE i = name
    BY <2>1, <2>3, <2>4
  <2>5. CASE i < name /\ Behind(i)
    <3>1. i \notin scan.files
      BY <1>2, <2>3, <2>5 DEF Behind
    <3> QED
      BY <1>2, <1>9, <2>3, <2>5, <3>1 DEF past
  <2>6. CASE i > name /\ Behind(i) /\ \A s \in scan.seen : t < s
    <3>1. \A s \in Lines(name) : t < s
      BY <1>2, <1>6, <2>6 DEF ActivityInv, LogsOrdered
    <3>2. Behind(i)'
      BY <1>9, <2>6 DEF Behind
    <3> QED
      BY <2>1, <2>6, <3>1, <3>2
  <2> QED
    BY <1>2, <1>9, <2>1, <2>2, <2>3, <2>4, <2>5, <2>6
<1>14. Known' \subseteq Known
  <2>1. Lines(name) \subseteq Written
    BY <1>2, <1>6 DEF Written
  <2> QED
    BY <1>1, <1>11, <2>1 DEF Known, Written
<1>15. CoveredIsKnown' /\ Answered'
  BY <1>1, <1>14 DEF ActivityInv, CoveredIsKnown, Answered, Given, Covered
<1> QED
  BY <1>10, <1>12, <1>13, <1>15 DEF ActivityInv

\* The range a complete refresh adds: from the first login seen, or the start of a
\* range it reaches, to the instant the refresh began at.
LEMMA MergedRange ==
    ASSUME scan \in Scans, ranges \subseteq Ranges, RangesPast, scan.files # {}, scan.seen # {}
    PROVE  /\ Scanned(scan) \in Ranges /\ Merged(scan) \in Ranges
           /\ Scanned(scan).end = scan.at /\ Merged(scan).end = scan.at
           /\ Scanned(scan).start \in scan.seen
           /\ \A t \in scan.seen : Scanned(scan).start <= t
           /\ \E q \in Overlapping(scan) \cup {Scanned(scan)} : Merged(scan).start = q.start
           /\ \A q \in Overlapping(scan) \cup {Scanned(scan)} : Merged(scan).start <= q.start
<1> DEFINE all == Overlapping(scan) \cup {Scanned(scan)}
<1> DEFINE starts == {r.start : r \in all}
<1> DEFINE ends == {r.end : r \in all}
<1>1. scan.at \in Nat /\ scan.seen \subseteq Nat \ {0}
  BY DEF Scans, Times
<1>2. Min(scan.seen) \in scan.seen /\ \A t \in scan.seen : Min(scan.seen) <= t
  BY <1>1, MinOfNaturals
<1>3. /\ Scanned(scan).start = Min(scan.seen) /\ Scanned(scan).end = scan.at
      /\ Scanned(scan) \in Ranges
  BY <1>1, <1>2 DEF Scanned, Ranges
<1>4. all \subseteq Ranges /\ Scanned(scan) \in all /\ Overlapping(scan) \subseteq ranges
  BY <1>3 DEF Overlapping
<1>5. \A q \in all : q.start \in Nat \ {0} /\ q.end \in Nat /\ q.end <= scan.at
  BY <1>1, <1>3, <1>4 DEF RangesPast, Ranges
<1>6. starts \subseteq Nat /\ starts # {} /\ ends \subseteq Nat /\ ends # {}
      /\ \A e \in ends : e <= scan.at
  BY <1>4, <1>5
<1>7. Min(starts) \in starts /\ \A x \in starts : Min(starts) <= x
  BY <1>6, MinOfNaturals
<1>8. Max(ends) \in ends /\ \A x \in ends : x <= Max(ends)
  BY <1>1, <1>6, MaxOfNaturals
<1>9. Merged(scan).start = Min(starts) /\ Merged(scan).end = Max(ends)
  BY DEF Merged
<1>10. Merged(scan) = [start |-> Min(starts), end |-> Max(ends)]
  BY DEF Merged
<1>11. /\ \E q \in all : Min(starts) = q.start
       /\ \A q \in all : Min(starts) <= q.start
  BY <1>7
<1>12. Max(ends) = scan.at
  <2>1. scan.at \in ends
    BY <1>3, <1>4
  <2>2. Max(ends) \in Nat /\ Max(ends) <= scan.at /\ scan.at <= Max(ends)
    BY <1>6, <1>8, <2>1
  <2> QED
    BY <1>1, <2>2
<1>13. Min(starts) \in Nat \ {0}
  BY <1>5, <1>11
<1> HIDE DEF starts, ends
<1>14. Merged(scan) \in Ranges
  BY <1>1, <1>10, <1>12, <1>13 DEF Ranges
<1> QED
  BY <1>2, <1>3, <1>9, <1>11, <1>12, <1>14

\* A range that the merge leaves out ends before the scan's first login, and
\* before the start of whatever range the merge takes in.
LEMMA KeptRanges ==
    ASSUME ActivityInv, scan.files # {}, scan.seen # {}, NEW r \in ranges \ Overlapping(scan)
    PROVE  r.end < Merged(scan).start /\ r.start <= scan.at /\ r.end <= scan.at
<1>1. scan \in Scans /\ ranges \subseteq Ranges /\ RangesPast
  BY DEF ActivityInv, Shapes
<1>2. /\ Scanned(scan) \in Ranges /\ Scanned(scan).end = scan.at
      /\ \E q \in Overlapping(scan) \cup {Scanned(scan)} : Merged(scan).start = q.start
  BY <1>1, MergedRange
<1>3. r.start <= scan.at /\ r.end <= scan.at /\ r.start \in Nat /\ r.end \in Nat
  BY <1>1 DEF RangesPast, Ranges
<1>4. r.end < Scanned(scan).start
  BY <1>2, <1>3 DEF Overlapping, Ranges
<1>5. ASSUME NEW q \in Overlapping(scan) PROVE r.end < q.start
  <2>1. /\ q \in ranges /\ q # r /\ q.start \in Nat /\ q.end \in Nat
        /\ q.end >= Scanned(scan).start
    BY <1>1, <1>5 DEF Overlapping, Ranges
  <2>2. r.end < q.start \/ q.end < r.start
    BY <2>1 DEF ActivityInv, RangesDisjoint
  <2>3. q.end <= r.end \/ q.end >= r.start
    BY <2>1 DEF ActivityInv, EndsApart
  <2> QED
    BY <1>2, <1>3, <1>4, <2>1, <2>2, <2>3 DEF Ranges
<1> QED
  BY <1>2, <1>3, <1>4, <1>5

\* One transaction: the logins that were seen, and the range if nothing was lost.
LEMMA StoreStep == ASSUME ActivityInv, NEW c \in Callers, Store(c) PROVE ActivityInv'
<1> USE Bounds
<1> DEFINE merges == Complete(scan) /\ scan.seen # {}
<1>1. /\ UNCHANGED <<clock, logs, rotations, fresh, faults>>
      /\ scan' = NoScan
      /\ stored' = {t \in stored \cup {u \in scan.seen : u >= scan.at - Window} :
                       t >= clock - Retention}
      /\ ranges' = IF merges THEN (ranges \ Overlapping(scan)) \cup {Merged(scan)} ELSE ranges
      /\ missed' = IF merges THEN missed \cup (scan.passed \ scan.seen) ELSE missed
      /\ pc[c] = "scan"
      /\ \E step \in {"asleep", "logins"} : pc' = [pc EXCEPT ![c] = step]
      /\ answer' = [r \in Requests |->
            [answer[r] EXCEPT !.late = IF pc[r] = "ranges" THEN @ \cup scan.seen ELSE @]]
  BY DEF Store, Goto, AfterRefresh, host
<1>2. /\ Shapes /\ TypeOK /\ scan \in Scans /\ ranges \subseteq Ranges
      /\ answer \in [Requests -> Answers] /\ RangesPast
  BY DEF ActivityInv, Shapes
<1>3. /\ clock \in Nat /\ scan.at \in Nat /\ scan.at <= clock /\ scan.seen \subseteq Times
      /\ stored \subseteq Times /\ Times \subseteq Nat
      /\ \A t \in scan.seen : t <= clock
  BY <1>2 DEF TypeOK, Scans, RangesPast, Times
<1>4. /\ NoScan \in Scans /\ NoScan.seen = {} /\ NoScan.files = {}
      /\ NoScan.at = 0
  BY DEF NoScan, Scans
<1>5. merges => /\ scan.files # {} /\ ~scan.lost /\ scan.count <= Capacity
                /\ Merged(scan) \in Ranges /\ Merged(scan).end = scan.at
  BY <1>2, MergedRange DEF Complete
<1>6. \A r \in Requests :
         /\ answer'[r] \in Answers
         /\ answer'[r].from = answer[r].from /\ answer'[r].shown = answer[r].shown
         /\ answer'[r].until = answer[r].until /\ answer'[r].complete = answer[r].complete
         /\ answer[r].late \subseteq answer'[r].late
         /\ pc[r] = "ranges" => scan.seen \subseteq answer'[r].late
  <2> TAKE r \in Requests
  <2> DEFINE l == IF pc[r] = "ranges" THEN answer[r].late \cup scan.seen ELSE answer[r].late
  <2>1. answer[r] \in Answers /\ answer'[r] = [answer[r] EXCEPT !.late = l]
    BY <1>1, <1>2
  <2>2. l \subseteq Times /\ answer[r].late \subseteq l /\ (pc[r] = "ranges" => scan.seen \subseteq l)
    BY <1>2, <1>3 DEF Answers
  <2> HIDE DEF merges, l
  <2>3. /\ answer'[r] \in Answers /\ answer'[r].late = l
        /\ answer'[r].from = answer[r].from /\ answer'[r].shown = answer[r].shown
        /\ answer'[r].until = answer[r].until /\ answer'[r].complete = answer[r].complete
    BY <2>1, <2>2 DEF Answers
  <2> QED
    BY <2>2, <2>3
<1>7. /\ pc' \in [Callers -> {"new", "asleep", "ask", "scan", "logins", "ranges", "done"}]
      /\ \A r \in Callers : pc'[r] \in {"ranges", "done"} => pc'[r] = pc[r]
  BY <1>1, <1>2 DEF TypeOK
<1>8. stored' \subseteq Times /\ missed' \subseteq Times
  BY <1>1, <1>2, <1>3 DEF TypeOK, Scans
<1>9. Shapes'
  <2>1. TypeOK'
    BY <1>1, <1>2, <1>7, <1>8 DEF TypeOK
  <2>2. ranges' \subseteq Ranges
    BY <1>1, <1>2, <1>5
  <2>3. answer' \in [Requests -> Answers]
    BY <1>1, <1>6
  <2> QED
    BY <1>1, <1>4, <2>1, <2>2, <2>3 DEF Shapes
<1>10. LogsOrdered'
  BY <1>1 DEF ActivityInv, LogsOrdered
<1>11. merges => \A r \in ranges \ Overlapping(scan) :
           r.end < Merged(scan).start /\ r.start <= scan.at /\ r.end <= scan.at
  BY <1>5, KeptRanges
<1>12. merges => Merged(scan).start \in Nat /\ Merged(scan).start <= clock
  <2> SUFFICES ASSUME merges PROVE Merged(scan).start \in Nat /\ Merged(scan).start <= clock
    OBVIOUS
  <2>1. /\ Merged(scan).start <= Scanned(scan).start
        /\ Scanned(scan).start \in scan.seen
    BY <1>2, <1>5, MergedRange
  <2>2. Merged(scan).start \in Nat
    BY <1>5 DEF Ranges
  <2>3. Scanned(scan).start \in Nat /\ Scanned(scan).start <= clock
    BY <1>3, <2>1
  <2> QED
    BY <1>3, <2>1, <2>2, <2>3
<1>13. RangesPast'
  <2>1. \A r \in ranges' : r.start <= clock /\ r.end <= clock
    BY <1>1, <1>2, <1>3, <1>5, <1>12 DEF RangesPast
  <2> QED
    BY <1>1, <1>3, <1>4, <2>1 DEF RangesPast
<1>14. EndsApart' /\ RangesDisjoint'
  <2>1. CASE merges
    <3>1. \A q \in ranges' : q \in ranges \ Overlapping(scan) \/ q = Merged(scan)
      BY <1>1, <2>1
    <3>2. \A q \in ranges : q.start \in Nat /\ q.end \in Nat
      BY <1>2 DEF Ranges
    <3>3. EndsApart'
      BY <1>3, <1>5, <1>11, <1>12, <2>1, <3>1, <3>2 DEF ActivityInv, EndsApart
    <3>4. RangesDisjoint'
      BY <1>11, <2>1, <3>1 DEF ActivityInv, RangesDisjoint
    <3> QED
      BY <3>3, <3>4
  <2>2. CASE ~merges
    BY <1>1, <2>2 DEF ActivityInv, EndsApart, RangesDisjoint
  <2> QED
    BY <2>1, <2>2
<1>15. NoGap'
  BY <1>1, <1>4 DEF NoGap, Behind
<1>16. Written' = Written /\ Known' = Written \cup stored'
  BY <1>1, <1>4 DEF Known, Written
<1>17. stored' \subseteq stored \cup scan.seen
  BY <1>1
<1>18. ASSUME NEW t \in Known, t \in stored \/ (t \in scan.seen /\ t >= scan.at - Window),
              t >= clock - Window
       PROVE  t \in stored'
  BY <1>1, <1>3, <1>18
\* What the new range covers was covered before, has been seen, or was gone past.
<1>19. ASSUME NEW t \in Written, merges, t \in Covered(Merged(scan)),
              \A q \in ranges : t \notin Covered(q)
       PROVE  /\ t <= scan.at
              /\ t \in scan.seen \/ t \in missed'
  <2>1. t \in Nat
    BY <1>2 DEF Written, TypeOK, Times
  <2>2. /\ scan.files # {} /\ scan.seen # {}
        /\ Scanned(scan).start \in scan.seen
        /\ Scanned(scan) \in Ranges
    BY <1>2, <1>5, <1>19, MergedRange
  <2>3. PICK q \in Overlapping(scan) \cup {Scanned(scan)} : Merged(scan).start = q.start
    BY <1>2, <2>2, MergedRange
  <2>4. q.start <= t /\ t <= scan.at
    BY <1>5, <1>19, <2>3 DEF Covered, Ranges
  <2>5. Scanned(scan).start <= t
    <3>1. CASE q = Scanned(scan)
      BY <2>4, <3>1
    <3>2. CASE q \in Overlapping(scan)
      <4>1. /\ q \in ranges /\ q.start \in Nat /\ q.end \in Nat
            /\ q.end >= Scanned(scan).start /\ Scanned(scan).start \in Nat
        BY <1>2, <1>3, <2>2, <3>2 DEF Overlapping, Ranges
      <4>2. ~(t <= q.end)
        BY <1>19, <2>1, <2>4, <4>1 DEF Covered
      <4> QED
        BY <2>1, <4>1, <4>2
    <3> QED
      BY <2>3, <3>1, <3>2
  <2>6. ~(t < Scanned(scan).start)
    <3>1. Scanned(scan).start \in Nat
      BY <1>3, <2>2
    <3> QED
      BY <2>1, <2>5, <3>1
  <2>7. t \in scan.seen \/ t > scan.at \/ t \in scan.passed
    <3>1. PICK i \in 1..Len(logs) : t \in logs[i]
      BY DEF Written
    <3> QED
      BY <1>5, <1>19, <2>2, <2>6, <3>1 DEF ActivityInv, NoGap
  <2> QED
    BY <1>1, <1>3, <1>19, <2>1, <2>4, <2>7
<1>20. missed \subseteq missed'
  BY <1>1
<1>21. \A t : (\E r \in ranges' : t \in Covered(r)) =>
           \/ \E q \in ranges : t \in Covered(q)
           \/ merges /\ t \in Covered(Merged(scan))
  BY <1>1
<1>22. CoveredIsKnown'
  <2> SUFFICES ASSUME NEW t \in Written, t >= clock - Window,
                      \E r \in ranges' : t \in Covered(r)
               PROVE  t \in stored' \/ t \in missed'
    BY <1>1, <1>16 DEF CoveredIsKnown
  <2>1. t \in Known /\ t \in Nat
    BY <1>2 DEF Known, Written, TypeOK, Times
  <2>2. CASE \E q \in ranges : t \in Covered(q)
    BY <1>18, <1>20, <2>1, <2>2 DEF ActivityInv, CoveredIsKnown
  <2>3. CASE merges /\ t \in Covered(Merged(scan)) /\ \A q \in ranges : t \notin Covered(q)
    <3>1. t <= scan.at /\ (t \in scan.seen \/ t \in missed')
      BY <1>19, <2>3
    <3>2. t >= scan.at - Window
      BY <1>3, <2>1
    <3> QED
      BY <1>18, <2>1, <3>1, <3>2
  <2> QED
    BY <1>21, <2>2, <2>3
<1>23. \A t \in Known' : t \in Known /\ (t \in Written \/ t \in stored \/ t \in scan.seen)
  BY <1>16, <1>17 DEF Known
<1>24. Answered'
  <2>1. \A r \in Requests : Given(r) \subseteq Given(r)'
    BY <1>6, <1>20 DEF Given
  <2>2. ASSUME NEW r \in Requests, pc[r] = "ranges", NEW t \in Known', t >= answer[r].from,
               t \in stored' \/ \E q \in ranges' : t \in Covered(q)
        PROVE  t \in Given(r)'
    <3>1. CASE \E q \in ranges : t \in Covered(q)
      BY <1>23, <2>1, <2>2, <3>1 DEF ActivityInv, Answered
    <3>2. CASE /\ merges /\ t \in Covered(Merged(scan)) /\ \A q \in ranges : t \notin Covered(q)
               /\ t \in Written
      BY <1>6, <1>19, <2>2, <3>2 DEF Given
    <3>3. CASE t \in scan.seen
      BY <1>6, <2>2, <3>3 DEF Given
    <3>4. CASE t \in stored
      BY <1>23, <2>1, <2>2, <3>4 DEF ActivityInv, Answered
    <3> QED
      BY <1>17, <1>21, <1>23, <2>2, <3>1, <3>2, <3>3, <3>4
  <2>3. ASSUME NEW r \in Requests, pc[r] = "done", answer[r].complete
        PROVE  /\ answer'[r].until <= clock
               /\ \A t \in Known' :
                     t >= answer'[r].from /\ t <= answer'[r].until => t \in Given(r)'
    BY <1>6, <1>23, <2>1, <2>3 DEF ActivityInv, Answered
  <2>4. \A r \in Requests : pc'[r] \in {"ranges", "done"} => pc'[r] = pc[r]
    BY <1>7 DEF Callers
  <2>5. \A r \in Requests : /\ answer'[r].from = answer[r].from
                            /\ answer'[r].complete = answer[r].complete
    BY <1>6
  <2> HIDE DEF merges
  <2> QED
    BY <1>1, <2>2, <2>3, <2>4, <2>5 DEF Answered, Covered
<1> QED
  BY <1>9, <1>10, <1>13, <1>14, <1>15, <1>22, <1>24 DEF ActivityInv

LEMMA KnownTimes == Shapes => Known \subseteq Times /\ Known \subseteq Nat \ {0}
<1> SUFFICES ASSUME Shapes PROVE Known \subseteq Times
  BY Bounds DEF Times
<1>1. \A i \in 1..Len(logs) : logs[i] \subseteq Times
  BY DEF Shapes, TypeOK
<1>2. Written \subseteq Times
  BY <1>1 DEF Written
<1> QED
  BY <1>2 DEF Known, Shapes, TypeOK, Scans

\* The first read of a request: the logins, among them whatever a range covers.
LEMMA ReadLoginsStep == ASSUME ActivityInv, NEW r \in Requests, ReadLogins(r) PROVE ActivityInv'
<1> USE Bounds
<1>1. /\ UNCHANGED <<clock, logs, rotations, scan, fresh, stored, ranges, missed, faults>>
      /\ answer' = [answer EXCEPT ![r].from = clock - Days,
                                  ![r].shown = {t \in stored : t >= clock - Days}]
      /\ pc' = [pc EXCEPT ![r] = "ranges"]
      /\ Shapes /\ TypeOK /\ answer \in [Requests -> Answers]
  BY DEF ReadLogins, Goto, ActivityInv, Shapes, host, tables
<1>2. clock \in Nat /\ stored \subseteq Times /\ Known \subseteq Nat
  BY <1>1, KnownTimes DEF TypeOK
<1>3. /\ answer'[r] \in Answers
      /\ answer'[r].from = clock - Days
      /\ answer'[r].shown = {t \in stored : t >= clock - Days}
      /\ \A q \in Requests \ {r} : answer'[q] = answer[q] /\ pc'[q] = pc[q]
  <2> DEFINE shown == {t \in stored : t >= clock - Days}
  <2>1. answer[r] \in Answers /\ shown \subseteq Times /\ clock - Days \in Int
    BY <1>1, <1>2
  <2>2. answer'[r] = [[answer[r] EXCEPT !.from = clock - Days] EXCEPT !.shown = shown]
    BY <1>1
  <2> HIDE DEF shown
  <2>3. answer'[r] \in Answers /\ answer'[r].from = clock - Days /\ answer'[r].shown = shown
    BY <2>1, <2>2 DEF Answers
  <2>4. \A q \in Requests \ {r} : answer'[q] = answer[q] /\ pc'[q] = pc[q]
    BY <1>1 DEF TypeOK, Callers
  <2> QED
    BY <2>3, <2>4 DEF shown
<1>4. Shapes'
  <2>1. TypeOK'
    BY <1>1 DEF TypeOK
  <2>2. answer' \in [Requests -> Answers]
    BY <1>1, <1>3
  <2> QED
    BY <1>1, <2>1, <2>2 DEF Shapes
<1>5. LogsOrdered' /\ RangesPast' /\ EndsApart' /\ RangesDisjoint' /\ NoGap'
  BY <1>1 DEF ActivityInv, LogsOrdered, RangesPast, EndsApart, RangesDisjoint, NoGap, Behind
<1>6. Known' = Known
  BY <1>1 DEF Known, Written
<1>7. CoveredIsKnown'
  BY <1>1, <1>6 DEF ActivityInv, CoveredIsKnown, Covered
<1>8. Answered'
  <2>1. pc'[r] = "ranges"
    BY <1>1 DEF TypeOK, Callers
  <2>2. ASSUME NEW t \in Known, t >= clock - Days, \E q \in ranges : t \in Covered(q)
        PROVE  t \in stored \cup missed
    <3>1. t >= clock - Window
      BY <1>2, <2>2
    <3> QED
      BY <2>2, <3>1 DEF ActivityInv, CoveredIsKnown
  <2>3. \A t \in Known : t >= answer'[r].from =>
            \/ t \in Given(r)'
            \/ t \notin stored /\ \A q \in ranges : t \notin Covered(q)
    BY <1>1, <1>3, <2>2 DEF Given
  <2>4. \A q \in Requests \ {r} : Given(q)' = Given(q)
    BY <1>1, <1>3 DEF Given
  <2>5. ASSUME NEW q \in Requests \ {r}
        PROVE  /\ pc'[q] = "ranges" =>
                     \A t \in Known : t >= answer'[q].from =>
                         \/ t \in Given(q)'
                         \/ t \notin stored /\ \A x \in ranges : t \notin Covered(x)
               /\ pc'[q] = "done" /\ answer'[q].complete =>
                     /\ answer'[q].until <= clock
                     /\ \A t \in Known : t >= answer'[q].from /\ t <= answer'[q].until =>
                           t \in Given(q)'
    BY <1>3, <2>4 DEF ActivityInv, Answered
  <2> QED
    BY <1>1, <1>6, <2>1, <2>3, <2>5 DEF Answered, Covered
<1> QED
  BY <1>4, <1>5, <1>7, <1>8 DEF ActivityInv

\* The second read: what is claimed is covered by one range from the start asked
\* for, and nothing was stored since the first.
LEMMA ReadRangesStep == ASSUME ActivityInv, NEW r \in Requests, ReadRanges(r) PROVE ActivityInv'
<1> USE Bounds
<1> DEFINE claims == {q \in ranges : q.start <= answer[r].from /\ q.end >= clock - Grace}
<1> DEFINE ends == {0} \cup {q.end : q \in claims}
<1> DEFINE complete == claims # {}
<1> DEFINE until == Max(ends)
<1>1. /\ UNCHANGED <<clock, logs, rotations, scan, fresh, stored, ranges, missed, faults>>
      /\ answer' = [answer EXCEPT ![r].complete = complete, ![r].until = until]
      /\ pc' = [pc EXCEPT ![r] = "done"] /\ pc[r] = "ranges"
      /\ Shapes /\ TypeOK /\ answer \in [Requests -> Answers]
  BY DEF ReadRanges, Goto, ActivityInv, Shapes, host, tables
<1>2. clock \in Nat /\ Known \subseteq Nat \ {0}
  BY <1>1, KnownTimes DEF TypeOK
<1>3. \A q \in ranges : q.start \in Nat /\ q.end \in Nat /\ q.end <= clock
  BY <1>1 DEF Shapes, Ranges, ActivityInv, RangesPast
<1>4. until \in Nat /\ until <= clock /\ (until = 0 \/ \E q \in claims : until = q.end)
  <2>1. ends \subseteq Nat /\ 0 \in ends /\ \A e \in ends : e <= clock
    BY <1>2, <1>3
  <2>2. Max(ends) \in ends
    BY <1>2, <2>1, MaxOfNaturals
  <2> QED
    BY <2>1, <2>2
<1>5. complete \in BOOLEAN
  OBVIOUS
<1> HIDE DEF ends, until, complete
<1>6. /\ answer'[r] \in Answers
      /\ answer'[r].from = answer[r].from /\ answer'[r].shown = answer[r].shown
      /\ answer'[r].until = until /\ answer'[r].late = answer[r].late
      /\ \A q \in Requests \ {r} : answer'[q] = answer[q] /\ pc'[q] = pc[q]
  <2>1. answer'[r] = [[answer[r] EXCEPT !.complete = complete] EXCEPT !.until = until]
    BY <1>1
  <2>2. \A q \in Requests \ {r} : answer'[q] = answer[q] /\ pc'[q] = pc[q]
    BY <1>1 DEF TypeOK, Callers
  <2>3. answer[r] \in Answers
    BY <1>1
  <2> QED
    BY <1>4, <1>5, <2>1, <2>2, <2>3 DEF Answers
<1>7. Shapes'
  <2>1. TypeOK'
    BY <1>1 DEF TypeOK
  <2>2. answer' \in [Requests -> Answers]
    BY <1>1, <1>6
  <2> QED
    BY <1>1, <2>1, <2>2 DEF Shapes
<1>8. LogsOrdered' /\ RangesPast' /\ EndsApart' /\ RangesDisjoint' /\ NoGap'
  BY <1>1 DEF ActivityInv, LogsOrdered, RangesPast, EndsApart, RangesDisjoint, NoGap, Behind
<1>9. Known' = Known
  BY <1>1 DEF Known, Written
<1>10. CoveredIsKnown'
  BY <1>1, <1>9 DEF ActivityInv, CoveredIsKnown, Covered
<1>11. Answered'
  <2>1. pc'[r] = "done"
    BY <1>1 DEF TypeOK, Callers
  <2>2. ASSUME NEW t \in Known, t >= answer'[r].from, t <= answer'[r].until
        PROVE  t \in Given(r)'
    <3>1. PICK q \in claims : until = q.end
      BY <1>2, <1>4, <1>6, <2>2
    <3>2. answer[r].from \in Int
      BY <1>1 DEF Answers
    <3>3. t \in Covered(q) /\ q \in ranges
      BY <1>2, <1>3, <1>6, <2>2, <3>1, <3>2 DEF Covered
    <3>4. t \in Given(r)
      BY <1>1, <1>6, <2>2, <3>3 DEF ActivityInv, Answered
    <3> QED
      BY <1>1, <1>6, <3>4 DEF Given
  <2>3. \A q \in Requests \ {r} : Given(q)' = Given(q)
    BY <1>1, <1>6 DEF Given
  <2>4. ASSUME NEW q \in Requests \ {r}
        PROVE  /\ pc'[q] = "ranges" =>
                     \A t \in Known : t >= answer'[q].from =>
                         \/ t \in Given(q)'
                         \/ t \notin stored /\ \A x \in ranges : t \notin Covered(x)
               /\ pc'[q] = "done" /\ answer'[q].complete =>
                     /\ answer'[q].until <= clock
                     /\ \A t \in Known : t >= answer'[q].from /\ t <= answer'[q].until =>
                           t \in Given(q)'
    BY <1>6, <2>3 DEF ActivityInv, Answered
  <2> HIDE DEF claims
  <2> QED
    BY <1>1, <1>4, <1>6, <1>9, <2>1, <2>2, <2>4 DEF Answered, Covered
<1> QED
  BY <1>7, <1>8, <1>10, <1>11 DEF ActivityInv

\* What moves no log, no table and no answer that was given.
LEMMA OtherStep ==
    ASSUME ActivityInv,
           \/ \E c \in Callers : RefreshFails(c)
           \/ \E r \in Requests : Ask(r)
           \/ Wake \/ AttemptAges \/ PanelRestarts
           \/ UNCHANGED vars
    PROVE  ActivityInv'
<1> USE Bounds
<1>1. Shapes /\ TypeOK /\ answer \in [Requests -> Answers]
  BY DEF ActivityInv, Shapes
<1>2. NoAnswer \in Answers
  BY DEF NoAnswer, Answers
<1>3. UNCHANGED <<clock, logs, rotations, stored, ranges, missed>> /\ scan' \in {scan, NoScan}
  BY DEF RefreshFails, Ask, Wake, AttemptAges, PanelRestarts, vars, host, tables
<1>4. faults' \in 0..MaxFaults
  <2>1. faults' = faults \/ (faults < MaxFaults /\ faults' = faults + 1)
    BY DEF RefreshFails, Ask, Wake, AttemptAges, PanelRestarts, vars
  <2>2. faults \in 0..MaxFaults
    BY <1>1 DEF TypeOK
  <2> QED
    BY <2>1, <2>2
<1>5. fresh' \in BOOLEAN
  <2>1. fresh' = fresh \/ fresh' = FALSE \/ fresh' \in BOOLEAN
    BY DEF RefreshFails, Ask, Wake, AttemptAges, PanelRestarts, vars
  <2> QED
    BY <1>1, <2>1 DEF TypeOK
<1>6. CASE \/ \E c \in Callers : RefreshFails(c)
           \/ \E r \in Requests : Ask(r)
           \/ Wake \/ AttemptAges \/ UNCHANGED vars
  <2>1. \/ pc' = pc
        \/ \E c \in Callers, step \in {"asleep", "logins", "ask"} : pc' = [pc EXCEPT ![c] = step]
    BY <1>6 DEF RefreshFails, Ask, Wake, AttemptAges, vars, Goto, AfterRefresh, Callers
  <2>2. answer' = answer
    BY <1>6 DEF RefreshFails, Ask, Wake, AttemptAges, vars
  <2>3. /\ pc' \in [Callers -> {"new", "asleep", "ask", "scan", "logins", "ranges", "done"}]
        /\ \A r \in Requests : pc'[r] \in {"ranges", "done"} => pc'[r] = pc[r]
    BY <1>1, <2>1 DEF TypeOK, Callers
  <2>4. TypeOK'
    BY <1>1, <1>3, <1>4, <1>5, <2>3 DEF TypeOK
  <2> QED
    BY <1>1, <1>3, <2>2, <2>3, <2>4, StandingStep DEF host, tables
<1>7. CASE PanelRestarts
  <2>1. /\ pc' = [c \in Callers |->
                    IF c = Collector THEN "ask" ELSE IF pc[c] = "new" THEN "new" ELSE "done"]
        /\ answer' = [r \in Requests |-> IF pc[r] = "done" THEN answer[r] ELSE NoAnswer]
    BY <1>7 DEF PanelRestarts
  <2>2. /\ pc' \in [Callers -> {"new", "asleep", "ask", "scan", "logins", "ranges", "done"}]
        /\ answer' \in [Requests -> Answers]
    BY <1>1, <1>2, <2>1
  <2>3. \A r \in Requests :
            \/ pc'[r] \in {"ranges", "done"} => pc'[r] = pc[r] /\ answer'[r] = answer[r]
            \/ answer'[r] = NoAnswer /\ pc'[r] # "ranges"
    BY <2>1, CollectorAssumption DEF Callers
  <2>4. TypeOK'
    BY <1>1, <1>3, <1>4, <1>5, <2>2 DEF TypeOK
  <2> QED
    BY <1>3, <2>2, <2>3, <2>4, StandingStep DEF host, tables
<1> QED
  BY <1>6, <1>7

LEMMA ActivityStep == ActivityInv /\ [Next]_vars => ActivityInv'
BY WriteStep, RotateStep, RefreshStep, ReadStep, StoreStep, ReadLoginsStep, ReadRangesStep,
   OtherStep DEF Next, Step, Get

THEOREM ActivityInvHolds == Spec => []ActivityInv
BY ActivityInitially, ActivityStep, PTL DEF Spec

-----------------------------------------------------------------------------

\* activity.py:190-211: a merged range takes in every range it touches, so time is
\* covered once, also by ranges whose first login came after the refresh began.
THEOREM RangesDisjointHolds == Spec => []RangesDisjoint
BY ActivityInvHolds, PTL DEF ActivityInv

\* However writes and rotations fall between the reads of a refresh, every login in
\* a log that a scan looks at is stored if a range covers its time, but for what
\* stood under a name that the refresh had not listed (systemd.py:325-334, 399-402).
THEOREM CoveredIsStoredHolds == Spec => []CoveredIsStored
<1>1. ActivityInv => CoveredIsStored
  <2> SUFFICES ASSUME ActivityInv, NEW t \in Visible, t >= clock - Window,
                      \E r \in ranges : t \in Covered(r)
               PROVE  t \in stored \/ t \in missed
    BY DEF CoveredIsStored
  <2>1. t \in Known
    BY Bounds DEF Visible, Lines, Known, Written, ActivityInv, Shapes, TypeOK
  <2> QED
    BY <2>1 DEF ActivityInv, CoveredIsKnown
<1> QED
  BY <1>1, ActivityInvHolds, PTL

\* An answer that claims completeness (activity.py:257-278) shows every login of the
\* time it claims, on the disk or stored, but for those missed in that way and those
\* read by a refresh that ended between its two reads.
THEOREM ClaimIsKeptHolds == Spec => []ClaimIsKept
<1>1. ActivityInv => ClaimIsKept
  <2> SUFFICES ASSUME ActivityInv PROVE ClaimIsKept
    OBVIOUS
  <2>1. Visible \cup stored \subseteq Known
    BY Bounds DEF Visible, Lines, Known, Written, ActivityInv, Shapes, TypeOK
  <2> QED
    BY <2>1 DEF ActivityInv, Answered, Given, ClaimIsKept
<1> QED
  BY <1>1, ActivityInvHolds, PTL
=============================================================================
