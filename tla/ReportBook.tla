----------------------------- MODULE ReportBook -----------------------------
(***************************************************************************)
(* The reports users make of signals and the daily and weekly reports over *)
(* them (reports/service.py).  A report is dated when its transaction      *)
(* begins and seen when it commits; a periodic report takes its bounds     *)
(* from the clock and then reads signals, reports and pushes one after the *)
(* other.  Times are in units of which a day has DAY and local time is     *)
(* OFFSET ahead of UTC.  What a verdict is made of is in ReviewRules: it   *)
(* rests on evidences that never change, so a signal has one.              *)
(***************************************************************************)
EXTENDS Integers, Sequences, FiniteSets, SequencesExt

CONSTANTS Users, Requests,   \* profiles, and the requests that make reports
          Types,             \* of {"quick", "standard", "deep"}
          Periods,           \* of {"daily", "weekly"}
          Verdicts,          \* what the signals' evidences may be worth
          DAY, DAYS, OFFSET, \* units of a day, days of a week, Asia/Shanghai's lead
          TopLimit,          \* PERIODIC_SUBJECT_LIMIT
          MaxSignals, MaxReports, MaxPushes, MaxTime

\* Assumed of the constants by the modules that give them values.
BookAssumption ==
    /\ DAY \in Nat \ {0} /\ DAYS \in Nat \ {0} /\ OFFSET \in Nat /\ TopLimit \in Nat \ {0}
    /\ Verdicts \subseteq {"approved", "needs_human_review", "blocked"}

VARIABLES clock, signals, reports, pushes, request, reader, last
vars == <<clock, signals, reports, pushes, request, reader, last>>

Priorities == {"P0", "P1", "P2"}
Statuses == Verdicts \cup {"candidate"}
NoReport == <<>>
Idle == [pc |-> "idle"]

Init ==
    /\ clock = 0 /\ signals = <<>> /\ reports = <<>> /\ pushes = <<>>
    /\ request = [q \in Requests |-> Idle] /\ reader = Idle
    /\ last = [u \in Users |-> [p \in Periods |-> NoReport]]

Tick == clock < MaxTime /\ clock' = clock + 1
        /\ UNCHANGED <<signals, reports, pushes, request, reader, last>>
AddSignal(priority, verdict) ==
    /\ Len(signals) < MaxSignals
    /\ signals' = Append(signals, [at |-> clock, priority |-> priority, verdict |-> verdict,
                                   status |-> "candidate"])
    /\ UNCHANGED <<clock, reports, pushes, request, reader, last>>
AddPush(user) ==
    /\ Len(pushes) < MaxPushes
    /\ pushes' = Append(pushes, [user |-> user, at |-> clock])
    /\ UNCHANGED <<clock, signals, reports, request, reader, last>>

(* POST /reports/from-signal and POST /reports/deep/from-signal *)
_suggestion_label(priority, status) ==
    IF status = "needs_human_review" THEN "cautious"
    ELSE [P0 |-> "focus", P1 |-> "watch", P2 |-> "cautious"][priority]

\* The review is committed on its own; the report is dated by the transaction that
\* follows it.  A blocked signal ends the request with 409.
Reviewed(q, user, i, type, status) ==
    /\ request[q].pc = "idle"
    /\ signals' = [signals EXCEPT ![i].status = signals[i].verdict]
    /\ request' = [request EXCEPT ![q] =
          IF status = "blocked" THEN Idle
          ELSE [pc |-> "reviewed", user |-> user, signal |-> i, type |-> type, at |-> clock, status |-> status]]
    /\ UNCHANGED <<clock, reports, pushes, reader, last>>
\* mutant: a signal that has a status is not evaluated again, a candidate passes
TrustStored(q, user, i, type) ==
    Reviewed(q, user, i, type, IF signals[i].status = "candidate" THEN "approved" ELSE signals[i].status)
ReviewForReport(q, user, i, type) == Reviewed(q, user, i, type, signals[i].verdict)
CommitReport(q) ==
    LET r == request[q] IN
    /\ r.pc = "reviewed" /\ Len(reports) < MaxReports
    /\ reports' = Append(reports, [user |-> r.user, signal |-> r.signal, type |-> r.type, at |-> r.at,
          status |-> IF r.status = "needs_human_review" THEN r.status ELSE "generated",
          label |-> _suggestion_label(signals[r.signal].priority, r.status)])
    /\ request' = [request EXCEPT ![q] = Idle]
    /\ UNCHANGED <<clock, signals, pushes, reader, last>>
\* the database fails the request (503): its review stays
LoseReport(q) ==
    /\ request[q].pc = "reviewed"
    /\ request' = [request EXCEPT ![q] = Idle]
    /\ UNCHANGED <<clock, signals, reports, pushes, reader, last>>

(* GET /reports/periodic *)
\* mutant: the day is the day of UTC
UtcDays(type, now) ==
    LET day == now - (now % DAY) IN
    [start |-> IF type = "daily" THEN day ELSE day - DAY * ((day \div DAY) % DAYS), end |-> now]
\* local midnight of the day or of the week's first day, back in UTC
_period_bounds(type, now) ==
    LET local == now + OFFSET
        day == local - (local % DAY)
        start == IF type = "daily" THEN day ELSE day - DAY * ((day \div DAY) % DAYS)
    IN  [start |-> start - OFFSET, end |-> now]
Within(row, bounds) == bounds.start <= row.at /\ row.at < bounds.end
OwnRows(table, user, bounds) ==
    Cardinality({i \in DOMAIN table : table[i].user = user /\ Within(table[i], bounds)})

_field_counts(rows, field, known) ==
    [v \in known |-> Cardinality({i \in rows : signals[i][field] = v})]
Rank(i) == CHOOSE n \in 1 .. 3 : <<"P0", "P1", "P2">>[n] = signals[i].priority
\* priority first, then the newest, then the highest id
Above(i, j) ==
    \/ Rank(i) < Rank(j)
    \/ Rank(i) = Rank(j) /\ signals[i].at > signals[j].at
    \/ Rank(i) = Rank(j) /\ signals[i].at = signals[j].at /\ i > j
_periodic_top_subjects(rows) == {i \in rows : Cardinality({j \in rows : Above(j, i)}) < TopLimit}

StartPeriodic(user, type) ==
    /\ reader.pc = "idle"
    /\ reader' = [pc |-> "signals", user |-> user, type |-> type, bounds |-> _period_bounds(type, clock),
          rows |-> {}, priorities |-> _field_counts({}, "priority", Priorities),
          reviews |-> _field_counts({}, "status", Statuses), top |-> {},
          report_count |-> 0, push_count |-> 0]
    /\ UNCHANGED <<clock, signals, reports, pushes, request, last>>
ReadSignals ==
    /\ reader.pc = "signals"
    /\ LET rows == {i \in DOMAIN signals : Within(signals[i], reader.bounds)} IN
       reader' = [reader EXCEPT !.pc = "reports", !.rows = rows,
          !.priorities = _field_counts(rows, "priority", Priorities),
          !.reviews = _field_counts(rows, "status", Statuses), !.top = _periodic_top_subjects(rows)]
    /\ UNCHANGED <<clock, signals, reports, pushes, request, last>>
ReadReports ==
    /\ reader.pc = "reports"
    /\ reader' = [reader EXCEPT !.pc = "pushes",
          !.report_count = OwnRows(reports, reader.user, reader.bounds)]
    /\ UNCHANGED <<clock, signals, reports, pushes, request, last>>
ReadPushes ==
    /\ reader.pc = "pushes"
    /\ last' = [last EXCEPT ![reader.user][reader.type] =
          [reader EXCEPT !.pc = "done", !.push_count = OwnRows(pushes, reader.user, reader.bounds)]]
    /\ reader' = Idle
    /\ UNCHANGED <<clock, signals, reports, pushes, request>>

Next ==
    \/ Tick
    \/ \E p \in Priorities, v \in Verdicts : AddSignal(p, v)
    \/ \E u \in Users : AddPush(u)
    \/ \E q \in Requests, u \in Users, i \in DOMAIN signals, t \in Types :
          ReviewForReport(q, u, i, t)
    \/ \E q \in Requests : CommitReport(q) \/ LoseReport(q)
    \/ \E u \in Users, t \in Periods : StartPeriodic(u, t)
    \/ ReadSignals \/ ReadReports \/ ReadPushes
Spec == Init /\ [][Next]_vars

-----------------------------------------------------------------------------
Periodics == Users \X Periods

\* All reports of a signal, whoever asked for them and when, carry one status and one
\* label, and none is made of a signal the rules block.
ReportsAgree ==
    /\ \A i, j \in DOMAIN reports : reports[i].signal = reports[j].signal =>
          reports[i].status = reports[j].status /\ reports[i].label = reports[j].label
    /\ \A i \in DOMAIN reports : signals[reports[i].signal].verdict # "blocked"

\* Asked for again within its day or week, a periodic report never counts less than
\* before: the period does not start anew while the local day or week lasts, even
\* though reports are dated before they are seen.
CountsGrow ==
    \A p \in Periodics :
      LET old == last[p[1]][p[2]]
          new == last'[p[1]][p[2]]
          span == DAY * (IF p[2] = "daily" THEN 1 ELSE DAYS)
          same == (old.bounds.end + OFFSET) \div span = (new.bounds.end + OFFSET) \div span
      IN  old # NoReport /\ new # old /\ same =>
            /\ \A v \in Priorities : new.priorities[v] >= old.priorities[v]
            /\ new.report_count >= old.report_count /\ new.push_count >= old.push_count

\* The subjects a periodic report names are its most urgent ones, and a weekly report
\* misses none that a daily one of an earlier moment of the week named with P0 unless
\* it is full of P0 itself.
TopSubjectsLead ==
    \A p \in Periodics : last[p[1]][p[2]] # NoReport =>
        LET r == last[p[1]][p[2]] IN
        /\ \A i \in r.rows \ r.top : \A j \in r.top : Rank(j) <= Rank(i)
        /\ \A u \in Users : LET d == last[u]["daily"] IN
             p[2] = "weekly" /\ d # NoReport /\ d.bounds.start >= r.bounds.start /\ d.bounds.end <= r.bounds.end =>
                \A i \in d.top : Rank(i) = 1 /\ i \in r.rows /\ i \notin r.top => \A j \in r.top : Rank(j) = 1
=============================================================================
