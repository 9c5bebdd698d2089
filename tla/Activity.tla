------------------------------- MODULE Activity -------------------------------
(***************************************************************************)
(* The login history (activity.py with scan_player_activity of             *)
(* adapters/systemd.py): a refresh reads the server's logs file by file,   *)
(* newest first, and one transaction adds the logins it found and merges   *)
(* the time they cover into the stored ranges.  The collector refreshes    *)
(* forever; a request refreshes when the last attempt is old, and then     *)
(* reads logins and ranges in statements of their own.  The server writes  *)
(* and the host rotates the logs meanwhile.                                *)
(*                                                                         *)
(* Every line of a log is a login: other lines are read and covered alike. *)
(***************************************************************************)
EXTENDS Integers, Sequences, FiniteSetsExt

CONSTANTS
    Requests,       \* GET /api/v1/server/player-activity
    Collector,
    LastTime,       \* bound on the clock
    Files,          \* logs the host keeps
    Listed,         \* files a scan looks at: 14
    Capacity,       \* MAX_ACTIVITY_LOG_BYTES, in lines
    FileLimit,      \* the 64 MiB above which a file is not listed, in lines
    Window,         \* the 30 days a scan imports
    Retention,      \* RETENTION_DAYS
    Days,           \* the time a request asks for
    Grace,          \* FRESHNESS_GRACE_SECONDS
    MaxRotations,   \* bound on rotations
    MaxFaults       \* bound on errors and panel restarts

ASSUME CollectorAssumption == Collector \notin Requests
ASSUME BoundsAssumption ==
    /\ {LastTime, Capacity, FileLimit, Window, Retention, Days, Grace, MaxRotations, MaxFaults} \subseteq Nat
    /\ Files \in Nat \ {0} /\ Listed \in Nat \ {0}
    /\ Days <= Window /\ Window <= Retention /\ Capacity <= FileLimit

VARIABLES
    clock,
    logs,       \* the times in each log: logs[1] is latest.log, logs[2] latest.log.1
    rotations,
    pc,         \* pc[c]: the step the collector or request c is about to take
    scan,       \* the refresh under _refresh_lock
    fresh,      \* time since _last_refresh is below REFRESH_SECONDS
    stored,     \* player_activity_events
    ranges,     \* player_activity_coverage
    answer,     \* answer[r]: what request r has read
    missed,     \* history: what a refresh that stored a range had not been listed
    faults

host == <<clock, logs, rotations>>
tables == <<stored, ranges, missed>>
vars == <<host, pc, scan, fresh, tables, answer, faults>>

Callers == Requests \cup {Collector}
Times == 1..LastTime

Lines(file) == IF file <= Len(logs) THEN logs[file] ELSE {}
Visible == UNION {Lines(i) : i \in 1..Listed}
Earliest(m, n) == IF m < n THEN m ELSE n
Covered(r) == r.start..r.end

Refreshing(c) == pc[c] = "scan"
Free == \A c \in Callers : ~Refreshing(c)
Goto(c, step) == pc' = [pc EXCEPT ![c] = step]

\* Variant: the collector does not survive an exception.
EndsWith(c, failed) == IF c # Collector THEN "logins" ELSE IF failed THEN "dead" ELSE "asleep"
AfterRefresh(c, failed) == IF c = Collector THEN "asleep" ELSE "logins"

\* files: the names listed; left: those still to be read; passed and late are
\* history: what stood under names that were not listed when the scan went past
\* them, and what a refresh read that ended between the reads of a request.
NoScan == [at |-> 0, files |-> {}, left |-> {}, count |-> 0, seen |-> {}, passed |-> {},
           lost |-> FALSE]
NoAnswer == [from |-> 0, shown |-> {}, until |-> 0, complete |-> FALSE, late |-> {}]

Init ==
    /\ clock = 0 /\ logs = <<{}>> /\ rotations = 0
    /\ pc = [c \in Callers |-> IF c = Collector THEN "ask" ELSE "new"]
    /\ scan = NoScan
    /\ fresh = FALSE
    /\ stored = {} /\ ranges = {} /\ missed = {}
    /\ answer = [r \in Requests |-> NoAnswer]
    /\ faults = 0

-----------------------------------------------------------------------------
(* The host *)

Write ==
    /\ clock < LastTime /\ clock' = clock + 1
    /\ logs' \in {logs, [logs EXCEPT ![1] = @ \cup {clock'}]}
    /\ UNCHANGED <<rotations, pc, scan, fresh, tables, answer, faults>>

Rotate ==
    /\ rotations < MaxRotations /\ rotations' = rotations + 1
    /\ logs' = <<{}>> \o SubSeq(logs, 1, Earliest(Len(logs), Files - 1))
    /\ UNCHANGED <<clock, pc, scan, fresh, tables, answer, faults>>

-----------------------------------------------------------------------------
(* refresh_if_stale and scan_player_activity, under _refresh_lock *)

\* A compressed log may be within the limit all the same.
TooLarge == {i \in 1..Len(logs) : Cardinality(logs[i]) > FileLimit}
Newest(S) == {i \in S : Cardinality(S \cap 1..i) <= Listed}

\* _activity_paths: a log that is too large, and one that is gone when it is
\* looked at, are not listed, and nothing tells that they are missing.
List(out) ==
    /\ TooLarge \cap {1, 2} \subseteq out
    /\ IF out \subseteq TooLarge THEN UNCHANGED faults
                                 ELSE faults < MaxFaults /\ faults' = faults + 1
    /\ LET names == Newest((1..Len(logs)) \ out)
       IN  scan' = [NoScan EXCEPT !.at = clock, !.files = names, !.left = names]

\* The time of the attempt is kept before the refresh is tried.  The clock is
\* read and the logs are listed in one step.
Refresh(c) ==
    /\ pc[c] = "ask" /\ Free
    /\ IF c = Collector \/ ~fresh
         THEN /\ Goto(c, "scan")
              /\ fresh' = TRUE
              /\ \E out \in SUBSET (1..Len(logs)) : List(out)
         ELSE Goto(c, "logins") /\ UNCHANGED <<fresh, scan, faults>>
    /\ UNCHANGED <<host, tables, answer>>

\* Variant: the oldest file is read first.
OldestFirst(s) == Max(s.left)
NextFile(s) == Min(s.left)

Reading == scan.left # {} /\ scan.count <= Capacity

\* Lines are read oldest first, until the limit on all files is exceeded.
Room(s, lines) == {t \in lines : s.count + Cardinality(lines \cap 1..t) <= Capacity}

\* What the scan read from the next file, and what it went past.
Take(name, lines, lost) ==
    scan' = [scan EXCEPT !.left = @ \ {name}, !.count = @ + Cardinality(lines),
                         !.seen = @ \cup Room(scan, lines), !.lost = lost,
                         !.passed = @ \cup UNION {Lines(i) : i \in (1..name) \ scan.files}]

\* A file was rotated since it was listed: its name now holds a newer one.
ReadFile(c) ==
    /\ pc[c] = "scan" /\ Reading
    /\ Take(NextFile(scan), Lines(NextFile(scan)), scan.lost)
    /\ UNCHANGED <<host, pc, fresh, tables, answer, faults>>

\* The lines before the one that cannot be read are kept.
ReadFileFails(c) ==
    /\ pc[c] = "scan" /\ Reading
    /\ faults < MaxFaults /\ faults' = faults + 1
    /\ \E t \in 0..clock : Take(NextFile(scan), Lines(NextFile(scan)) \cap 1..t, TRUE)
    /\ UNCHANGED <<host, pc, fresh, tables, answer>>

-----------------------------------------------------------------------------
(* _refresh: one transaction.  The row of player_activity_state it writes   *)
(* too, and writes again when it fails, is shown and decides nothing.       *)

\* All that was listed was read.
\* Variant: what was read counts, whether or not it was all.
AnyScan(s) == s.seen # {}
Complete(s) == s.files # {} /\ ~s.lost /\ s.count <= Capacity

Scanned(s) == [start |-> Min(s.seen), end |-> s.at]

\* Variant: a range must be crossed, and not only touched.
Crossing(s) == {r \in ranges : r.end > Scanned(s).start /\ r.start < Scanned(s).end}
Overlapping(s) == {r \in ranges : r.end >= Scanned(s).start /\ r.start <= Scanned(s).end}

Merged(s) ==
    LET all == Overlapping(s) \cup {Scanned(s)}
    IN  [start |-> Min({r.start : r \in all}), end |-> Max({r.end : r \in all})]

Store(c) ==
    /\ pc[c] = "scan" /\ ~Reading
    /\ stored' = {t \in stored \cup {u \in scan.seen : u >= scan.at - Window} :
                     t >= clock - Retention}
    /\ IF Complete(scan) /\ scan.seen # {}
         THEN /\ ranges' = (ranges \ Overlapping(scan)) \cup {Merged(scan)}
              /\ missed' = missed \cup (scan.passed \ scan.seen)
         ELSE UNCHANGED <<ranges, missed>>
    /\ Goto(c, AfterRefresh(c, FALSE))
    /\ scan' = NoScan
    /\ answer' = [r \in Requests |->
                     [answer[r] EXCEPT !.late = IF pc[r] = "ranges" THEN @ \cup scan.seen ELSE @]]
    /\ UNCHANGED <<host, fresh, faults>>

\* The exception goes on to the caller: the request answers from what is
\* stored, the collector logs it.
RefreshFails(c) ==
    /\ Refreshing(c)
    /\ faults < MaxFaults /\ faults' = faults + 1
    /\ Goto(c, AfterRefresh(c, TRUE))
    /\ scan' = NoScan
    /\ UNCHANGED <<host, fresh, tables, answer>>

Wake ==
    /\ pc[Collector] = "asleep"
    /\ Goto(Collector, "ask")
    /\ UNCHANGED <<host, scan, fresh, tables, answer, faults>>

\* REFRESH_SECONDS pass.
AttemptAges ==
    /\ fresh /\ fresh' = FALSE
    /\ UNCHANGED <<host, pc, scan, tables, answer, faults>>

-----------------------------------------------------------------------------
(* get_activity *)

Ask(r) ==
    /\ pc[r] = "new"
    /\ Goto(r, "ask")
    /\ UNCHANGED <<host, scan, fresh, tables, answer, faults>>

ReadLogins(r) ==
    /\ pc[r] = "logins"
    /\ answer' = [answer EXCEPT ![r].from = clock - Days,
                                ![r].shown = {t \in stored : t >= clock - Days}]
    /\ Goto(r, "ranges")
    /\ UNCHANGED <<host, scan, fresh, tables, faults>>

ReadRanges(r) ==
    LET claims == {q \in ranges : q.start <= answer[r].from /\ q.end >= clock - Grace} IN
    /\ pc[r] = "ranges"
    /\ answer' = [answer EXCEPT ![r].complete = claims # {},
                                ![r].until = Max({0} \cup {q.end : q \in claims})]
    /\ Goto(r, "done")
    /\ UNCHANGED <<host, scan, fresh, tables, faults>>

-----------------------------------------------------------------------------
\* Nothing was attempted by the new process, which the first minutes after a
\* boot of the host cannot tell from an attempt.
PanelRestarts ==
    /\ faults < MaxFaults /\ faults' = faults + 1
    /\ pc' = [c \in Callers |->
                 IF c = Collector THEN "ask" ELSE IF pc[c] = "new" THEN "new" ELSE "done"]
    /\ scan' = NoScan
    /\ fresh' \in BOOLEAN
    /\ answer' = [r \in Requests |-> IF pc[r] = "done" THEN answer[r] ELSE NoAnswer]
    /\ UNCHANGED <<host, tables>>

Step(c) == Refresh(c) \/ ReadFile(c) \/ Store(c)
Get(r) == ReadLogins(r) \/ ReadRanges(r)

Next ==
    \/ Write \/ Rotate
    \/ \E c \in Callers : Step(c) \/ ReadFileFails(c) \/ RefreshFails(c)
    \/ \E r \in Requests : Ask(r) \/ Get(r)
    \/ Wake \/ AttemptAges \/ PanelRestarts

Spec == Init /\ [][Next]_vars

\* The threads of the pool run, the collector's sleep ends, and the lock goes
\* round: a caller that keeps asking gets it.  No request, write or rotation has
\* to come.
FairSpec ==
    /\ Spec
    /\ WF_vars(Wake)
    /\ \A c \in Callers : SF_vars(Step(c))
    /\ \A r \in Requests : WF_vars(Get(r))

-----------------------------------------------------------------------------
TypeOK ==
    /\ clock \in 0..LastTime
    /\ logs \in Seq(SUBSET Times) /\ Len(logs) \in 1..Files
    /\ rotations \in 0..MaxRotations
    /\ pc \in [Callers -> {"new", "asleep", "ask", "scan", "logins", "ranges", "done"}]
    /\ fresh \in BOOLEAN
    /\ stored \subseteq Times /\ missed \subseteq Times
    /\ faults \in 0..MaxFaults

\* The stored ranges never overlap or touch: time is covered once, so a range
\* that starts early enough and ends late enough is found if the time between is
\* covered (activity.py:277).
RangesDisjoint == \A q, r \in ranges : q = r \/ q.end < r.start \/ r.end < q.start

\* Every login the server wrote in a time a range covers is stored, as far back
\* as a scan imports, though logs are rotated and lines written during the scans.
\* PlayersView.tsx:138 promises it of all logins.  The code does not keep that:
\* of a log left out of the list it says nothing, so the logins that stood under
\* such a name when the scan went past it are the exception, and the only one.
CoveredIsStored ==
    \A t \in Visible : t >= clock - Window /\ (\E r \in ranges : t \in Covered(r))
        => t \in stored \/ t \in missed

\* An answer that claims complete coverage shows every login of that time but
\* for those that were missed, and those that a refresh read which ended between
\* its reads of logins and ranges: their time is claimed and they are not shown.
ClaimIsKept ==
    \A r \in Requests : pc[r] = "done" /\ answer[r].complete
        => \A t \in Visible \cup stored :
              t >= answer[r].from /\ t <= answer[r].until
                => t \in answer[r].shown \cup missed \cup answer[r].late

\* A login comes into the history however refreshes fail, as long as the host
\* keeps its log within what one scan reads: no failure stops the collector.
LoginsArrive ==
    \A t \in Times :
        t \in Visible ~> \/ t \in stored \/ t \notin Visible
                         \/ t < clock - Window
                         \/ Cardinality(Visible) > Capacity
=============================================================================
