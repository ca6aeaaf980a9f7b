------------------------------ MODULE OpsGrid ------------------------------
(***************************************************************************)
(* The operations grid and its two sources: the prober outside the host    *)
(* (tools/probe.sh, .github/workflows/probe.yml), whose reports the intake *)
(* appends and whose log a replay reads after an outage                    *)
(* (api/internal/intake, api/internal/uptime), and the roll-up that turns  *)
(* checks into days (api/internal/ops, store/queries/ops.sql).  Several    *)
(* instances of the api run both loops against one database.               *)
(*                                                                         *)
(* Time is in probe intervals.  A check is the instant it speaks of and    *)
(* what it says; of recorded_at the roll-up needs the newest of each day.  *)
(***************************************************************************)
EXTENDS Integers, Sequences, FiniteSets, FiniteSetsExt

CONSTANTS
    Instance,
    Replaying,       \* those that read the log: UPTIME_TRANSPORT is not off
    Horizon,         \* bound: how long the world is watched
    PastLogs,        \* what uptime-log.txt may hold when the watch begins
    MaxProbes,       \* bound: prober runs in that time; cron skips the others
    MaxFaults,       \* bound: what goes wrong in that time
    Attempts,        \* how often the prober sends one report
    DayLength,
    OutageChecks,    \* failed checks that make a day an outage
    Lookback,        \* what a roll-up scans
    AggregateEvery,
    Nobody

ASSUME OpsAssumption ==
    /\ Nobody \notin Instance /\ Replaying \subseteq Instance
    /\ {Horizon, MaxProbes, Attempts, DayLength, OutageChecks, AggregateEvery} \subseteq Nat \ {0}
    /\ {Lookback, MaxFaults} \subseteq Nat
    /\ AggregateEvery < Lookback
    /\ \A l \in PastLogs : /\ l \in Seq(0..Horizon)
                           /\ \A m, n \in DOMAIN l : m < n => l[m] < l[n]

VARIABLES
    now,
    faults,      \* lost requests, failed statements and stops so far
    probes,      \* prober runs so far
    report,      \* the report the prober is sending
    told,        \* instants whose report was answered with 204
    log,         \* uptime-log.txt: instants, alternately going down and coming back
    checks,      \* ops_checks
    recorded,    \* [Day -> when the newest of its checks was recorded]
    cells,       \* ops_days
    locks,       \* [Day -> the instance whose upsert holds the row]
    running,     \* [Instance -> BOOLEAN]
    due,         \* [Instance -> until its aggregator's tick]
    roll,        \* [Instance -> its roll-up under way]
    replay,      \* [Instance -> its replay under way]
    etag,        \* [Instance -> the version of the log it has replayed, 0 for none]
    wellSince    \* since when it has been running and its roll-ups have succeeded

proberVars == <<probes, report, told, log>>
tableVars == <<checks, recorded>>
gridVars == <<cells, locks>>
rollVars == <<due, roll, wellSince>>
replayVars == <<replay, etag>>
vars == <<now, faults, proberVars, tableVars, gridVars, running, rollVars, replayVars>>

Never == -1
Instant == 0..Horizon
DayOf(t) == t \div DayLength
Day == 0..DayOf(Horizon)

Check == [at : Instant, up : BOOLEAN]
NoData == [state |-> "nodata", downSec |-> 0, total |-> 0]
Idle == [stage |-> "idle", rows |-> <<>>, left |-> {}]
NotReplaying == [stage |-> "idle", version |-> 0, left |-> {}]
NoReport == [at |-> Never, tries |-> 0]

Init ==
    /\ log \in PastLogs /\ now = IF log = <<>> THEN 0 ELSE log[Len(log)]
    /\ faults = 0 /\ probes = 0 /\ report = NoReport /\ told = {}
    /\ checks = {} /\ recorded = [d \in Day |-> Never]
    /\ cells = [d \in Day |-> NoData] /\ locks = [d \in Day |-> Nobody]
    /\ running = [i \in Instance |-> FALSE] /\ due = [i \in Instance |-> 0]
    /\ roll = [i \in Instance |-> Idle]
    /\ replay = [i \in Instance |-> NotReplaying] /\ etag = [i \in Instance |-> 0]
    /\ wellSince = [i \in Instance |-> Never]
Fault == faults < MaxFaults /\ faults' = faults + 1
-----------------------------------------------------------------------------
(***************************************************************************)
(* The table of checks                                                     *)
(***************************************************************************)

\* ON CONFLICT (system_id, observed_at) DO NOTHING.
NewAmongAll(rows) == rows
NewAmong(rows) == {r \in rows : \A c \in checks : c.at # r.at}

Insert(rows) ==
    LET new == NewAmong(rows) IN
    /\ checks' = checks \cup new
    /\ recorded' = [d \in Day |-> IF \E r \in new : DayOf(r.at) = d THEN now ELSE recorded[d]]

-----------------------------------------------------------------------------
(***************************************************************************)
(* The prober and the intake                                               *)
(***************************************************************************)

\* The state on record is that of the last line; no line is up.
OnRecord == IF Len(log) % 2 = 0 THEN "up" ELSE "down"

\* A change is a line; the push of the branch may fail, and the line with it.
Record(state, at) ==
    IF state = OnRecord THEN log' = log
    ELSE log' \in {log, Append(log, at)}

\* One run at a time, and one in an interval.
MayProbe ==
    /\ probes < MaxProbes /\ report = NoReport
    /\ \A n \in DOMAIN log : log[n] < now
    /\ \A c \in checks : c.at < now

\* GET / is not a 200.
ProbeFindsNothing ==
    /\ MayProbe
    /\ Record("down", now)
    /\ probes' = probes + 1
    /\ UNCHANGED <<now, faults, report, told, tableVars, gridVars, running, rollVars, replayVars>>

\* GET / is a 200; whether the host is up depends on the report.
ProbeFindsPage ==
    /\ MayProbe
    /\ report' = [at |-> now, tries |-> 0]
    /\ probes' = probes + 1
    /\ UNCHANGED <<now, faults, told, log, tableVars, gridVars, running, rollVars, replayVars>>

\* POST /api/internal/probe: stored, or already there, which is a 204 as well.
ReportProbe ==
    /\ report # NoReport /\ report.tries < Attempts /\ \E i \in Instance : running[i]
    /\ Insert({[at |-> report.at, up |-> TRUE]})
    /\ \/ /\ report' = NoReport
          /\ told' = told \cup {report.at}
          /\ Record("up", report.at)
          /\ faults' = faults
       \/ /\ report' = [report EXCEPT !.tries = @ + 1]    \* the 204 does not arrive
          /\ Fault /\ UNCHANGED <<told, log>>
    /\ UNCHANGED <<now, probes, gridVars, running, rollVars, replayVars>>

\* The request does not arrive, or the insert fails.
ReportLost ==
    /\ Fault
    /\ report # NoReport /\ report.tries < Attempts
    /\ report' = [report EXCEPT !.tries = @ + 1]
    /\ UNCHANGED <<now, probes, told, log, tableVars, gridVars, running, rollVars, replayVars>>

\* Three attempts, then the api is unreachable, and that is an outage.
ReportGivenUp ==
    /\ report # NoReport /\ report.tries = Attempts
    /\ Record("down", report.at)
    /\ report' = NoReport
    /\ UNCHANGED <<now, faults, probes, told, tableVars, gridVars, running, rollVars, replayVars>>
-----------------------------------------------------------------------------
(***************************************************************************)
(* RollUpOpsDays                                                           *)
(***************************************************************************)
Later(rows, r) == {s \in rows : s.at > r.at}

\* A failed check vouches for the span to the next check of its day, or for none.
Span(rows, r) == IF r.up \/ Later(rows, r) = {} THEN 0
                 ELSE Min({s.at : s \in Later(rows, r)}) - r.at

CellOf(rows) ==
    LET down == Cardinality({r \in rows : ~r.up})
    IN [state   |-> CASE rows = {} -> "nodata"
                      [] rows # {} /\ down = 0 -> "ok"
                      [] down > 0 /\ down < OutageChecks -> "degraded"
                      [] OTHER -> "outage",
        downSec |-> MapThenSumSet(LAMBDA r : Span(rows, r), rows),
        total   |-> Cardinality(rows)]

\* A day is derived from all its checks.
RowsOf(d) == {c \in checks : DayOf(c.at) = d}
Derive(d) == CellOf(RowsOf(d))

TouchedByObservation == {d \in Day : recorded[d] # Never /\ (d + 1) * DayLength > now - Lookback}
Touched == {d \in Day : recorded[d] # Never /\ recorded[d] >= now - Lookback}

\* The statement's snapshot: the days with news, each derived from all its checks.
RollUp(i) ==
    /\ running[i] /\ due[i] = 0 /\ roll[i].stage = "idle"
    /\ roll' = IF Touched = {} THEN roll
               ELSE [roll EXCEPT ![i] = [stage |-> "upserting", left |-> Touched,
                                         rows |-> [d \in Touched |-> Derive(d)]]]
    /\ due' = [due EXCEPT ![i] = AggregateEvery]
    /\ UNCHANGED <<now, faults, proberVars, tableVars, gridVars, running, wellSince, replayVars>>

\* ORDER BY system_id, day: rows are locked in one order.
NextRowsUnordered(left) == left
NextRows(left) == {d \in left : \A e \in left : d <= e}

\* DO UPDATE.
Overwritten(rows) == [d \in Day |-> IF d \in DOMAIN rows THEN rows[d] ELSE cells[d]]
Released(i) == [d \in Day |-> IF locks[d] = i THEN Nobody ELSE locks[d]]

\* The last row is upserted and the statement commits.
Upsert(i, d) ==
    /\ roll[i].stage = "upserting" /\ d \in NextRows(roll[i].left)
    /\ locks[d] = Nobody
    /\ IF roll[i].left = {d}
       THEN /\ cells' = Overwritten(roll[i].rows)
            /\ locks' = Released(i)
            /\ roll' = [roll EXCEPT ![i] = Idle]
       ELSE /\ cells' = cells
            /\ locks' = [locks EXCEPT ![d] = i]
            /\ roll' = [roll EXCEPT ![i].left = @ \ {d}]
    /\ UNCHANGED <<now, faults, proberVars, tableVars, running, due, wellSince, replayVars>>

\* Cut off by the statement timeout, or refused: a log line and the next tick.
RollUpFails(i) ==
    /\ Fault
    /\ roll[i].stage = "upserting"
    /\ locks' = Released(i)
    /\ roll' = [roll EXCEPT ![i] = Idle]
    /\ wellSince' = [wellSince EXCEPT ![i] = now]
    /\ UNCHANGED <<now, proberVars, tableVars, cells, running, due, replayVars>>
-----------------------------------------------------------------------------
(***************************************************************************)
(* Backfiller.runOnce                                                      *)
(***************************************************************************)

\* An outage is closed by the line that ends it; the last one may be open.
Closed(version) == 1..(version \div 2)
OutageInstants(n) == log[2 * n - 1]..(log[2 * n] - 1)

\* A 200.  A 304, a 404, a failure and an open breaker leave everything as it is.
Read(i) ==
    /\ i \in Replaying /\ running[i] /\ replay[i].stage = "idle" /\ Len(log) > 0 /\ etag[i] # Len(log)
    /\ replay' = [replay EXCEPT ![i] = [stage |-> "writing", version |-> Len(log),
                                        left |-> Closed(Len(log))]]
    /\ UNCHANGED <<now, faults, proberVars, tableVars, gridVars, running, rollVars, etag>>

\* BackfillOpsChecks: one statement per outage, in the order of the log.
WriteOutage(i) ==
    /\ replay[i].stage = "writing" /\ replay[i].left # {}
    /\ LET n == Min(replay[i].left) IN
          /\ Insert({[at |-> t, up |-> FALSE] : t \in OutageInstants(n)})
          /\ replay' = [replay EXCEPT ![i].left = @ \ {n}]
    /\ UNCHANGED <<now, faults, proberVars, gridVars, running, rollVars, etag>>

ReplayFails(i) ==
    /\ Fault
    /\ replay[i].stage = "writing"
    /\ replay' = [replay EXCEPT ![i] = NotReplaying]
    /\ UNCHANGED <<now, proberVars, tableVars, gridVars, running, rollVars, etag>>

\* Only now: an etag stored before the write would make a lost row a 304 for ever.
MayStoreEtagEarly(i) == replay[i].stage = "writing"
MayStoreEtag(i) == replay[i].stage = "writing" /\ replay[i].left = {}

Replayed(i) ==
    /\ MayStoreEtag(i)
    /\ etag' = [etag EXCEPT ![i] = replay[i].version]
    /\ replay' = [replay EXCEPT ![i] = NotReplaying]
    /\ UNCHANGED <<now, faults, proberVars, tableVars, gridVars, running, rollVars>>
-----------------------------------------------------------------------------
\* Both loops run once as soon as the process is there.
Start(i) ==
    /\ ~running[i]
    /\ running' = [running EXCEPT ![i] = TRUE]
    /\ due' = [due EXCEPT ![i] = 0]
    /\ wellSince' = [wellSince EXCEPT ![i] = now]
    /\ UNCHANGED <<now, faults, proberVars, tableVars, gridVars, roll, replayVars>>

\* Stop cancels what runs; a kill does the same without asking.
Stop(i) ==
    /\ Fault
    /\ running[i]
    /\ running' = [running EXCEPT ![i] = FALSE]
    /\ locks' = Released(i)
    /\ roll' = [roll EXCEPT ![i] = Idle]
    /\ replay' = [replay EXCEPT ![i] = NotReplaying]
    /\ etag' = [etag EXCEPT ![i] = 0]
    /\ wellSince' = [wellSince EXCEPT ![i] = Never]
    /\ due' = [due EXCEPT ![i] = 0]
    /\ UNCHANGED <<now, proberVars, tableVars, cells>>

\* No tick of a loop is missed; statement_timeout is seconds and three attempts
\* of a report are less than a minute, both well within a probe interval.
Tick ==
    /\ now < Horizon
    /\ report = NoReport
    /\ \A i \in Instance :
          roll[i].stage = "idle" /\ (running[i] => due[i] > 0)
    /\ now' = now + 1
    /\ due' = [i \in Instance |-> IF due[i] > 0 THEN due[i] - 1 ELSE 0]
    /\ UNCHANGED <<faults, proberVars, tableVars, gridVars, running, roll, wellSince, replayVars>>

Next ==
    \/ ProbeFindsNothing \/ ProbeFindsPage \/ ReportProbe \/ ReportLost \/ ReportGivenUp
    \/ \E i \in Instance :
          \/ RollUp(i) \/ RollUpFails(i)
          \/ \E d \in Day : Upsert(i, d)
          \/ Read(i) \/ WriteOutage(i) \/ ReplayFails(i) \/ Replayed(i)
          \/ Start(i) \/ Stop(i)
    \/ Tick

Spec == Init /\ [][Next]_vars
-----------------------------------------------------------------------------
(***************************************************************************)
(* Properties                                                              *)
(***************************************************************************)

\* The observations that stand: a report answered with 204 is one check, up,
\* whatever was sent twice and whatever a replay says of that instant
\* (ops.sql:183-190, 211-213, intake.go:118-124).
ReportsStand ==
    /\ \A t \in told : [at |-> t, up |-> TRUE] \in checks
    /\ \A b, c \in checks : b.at = c.at => b = c

\* An instance asks GitHub for news of a log only after every outage that log
\* closes is in the table (backfill.go:243-246, 281-304).
EtagMeansReplayed ==
    \A i \in Instance : \A n \in Closed(etag[i]) :
        OutageInstants(n) \subseteq {c.at : c \in checks}

\* A day is what all its checks say, late ones included, as soon as one instance
\* has worked for a tick since the newest of them was recorded, though another may
\* have overwritten it with what it read earlier (ops.sql:38-47, 112-117).  An
\* instance that was away while the lookback passed is no such instance: nothing
\* reads the day again (ops.go:130-131).
GridCatchesUp ==
    \A d \in Day, i \in Instance :
        /\ recorded[d] # Never /\ now - recorded[d] > AggregateEvery
        /\ wellSince[i] # Never /\ now - wellSince[i] > AggregateEvery
        /\ wellSince[i] + AggregateEvery <= recorded[d] + Lookback
        => cells[d] = Derive(d)

\* Two upserts never hold what the other waits for (ops.sql:112-115).
UpsertsNeverDeadlock ==
    \A i, j \in Instance : \A d \in NextRows(roll[i].left), e \in NextRows(roll[j].left) :
        ~(i # j /\ locks[d] = j /\ locks[e] = i)
=============================================================================
