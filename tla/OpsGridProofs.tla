--------------------------- MODULE OpsGridProofs ---------------------------
(***************************************************************************)
(* Proofs about OpsGrid, for any number of instances, any log and any      *)
(* bounds: reports answered with 204 stand, a replay forgets no outage,    *)
(* the upserts of the roll-ups never wait for each other in a circle, and  *)
(* every day of the grid catches up with its checks.                       *)
(***************************************************************************)
EXTENDS OpsGrid, WellFoundedInduction, TLAPS

USE OpsAssumption

LEMMA LeastOfNats ==
    ASSUME NEW S, S \subseteq Nat, S # {}
    PROVE  Min(S) \in S /\ \A n \in S : Min(S) <= n
<1>1. PICK m \in S : \A n \in S : ~(<<n, m>> \in OpToRel(<, Nat))
  BY NatLessThanWellFounded, WFMin
<1>2. \A n \in S : ~(n < m)
  BY <1>1, Zenon DEF OpToRel
<1>3. \A n \in S : m <= n
  BY <1>2
<1>4. QED
  BY <1>3 DEF Min

\* The days of the horizon are numbers.
LEMMA DaysAreNumbers == Day \subseteq Nat
BY DEF Day
-----------------------------------------------------------------------------
(***************************************************************************)
(* The upserts                                                             *)
(***************************************************************************)
IsRoll(x) == x \in [stage : {x.stage}, rows : {x.rows}, left : {x.left}]

LEMMA RollWithout ==
    ASSUME NEW x, IsRoll(x), NEW D
    PROVE  LET y == [x EXCEPT !.left = @ \ D] IN
           IsRoll(y) /\ y.stage = x.stage /\ y.rows = x.rows /\ y.left = x.left \ D
<1> DEFINE y == [x EXCEPT !.left = @ \ D]
<1>1. y \in [stage : {x.stage}, rows : {x.rows}, left : {x.left \ D}]
  BY DEF IsRoll
<1>2. y.stage = x.stage /\ y.rows = x.rows /\ y.left = x.left \ D
  BY <1>1
<1> HIDE DEF y
<1>3. QED
  BY <1>1, <1>2 DEF IsRoll, y

\* An upsert holds only rows that come before those it still has to do.
LocksOK ==
    /\ locks \in [Day -> Instance \cup {Nobody}]
    /\ roll = [i \in Instance |-> roll[i]]
    /\ \A i \in Instance : IsRoll(roll[i]) /\ roll[i].left \subseteq Day
    /\ \A d \in Day, i \in Instance : locks[d] = i =>
          roll[i].stage = "upserting" /\ \A e \in roll[i].left : d < e

LEMMA InitLocksOK == Init => LocksOK
BY DEF Init, LocksOK, IsRoll, Idle

LEMMA NextLocksOK == LocksOK /\ [Next]_vars => LocksOK'
<1> SUFFICES ASSUME LocksOK, [Next]_vars PROVE LocksOK'
  OBVIOUS
<1>u. ASSUME UNCHANGED <<locks, roll>> PROVE LocksOK'
  BY <1>u DEF LocksOK, IsRoll
\* An instance's upsert ends, and with it its locks.
<1>r. ASSUME NEW i \in Instance, roll' = [roll EXCEPT ![i] = Idle], locks' = Released(i)
      PROVE  LocksOK'
  BY <1>r DEF LocksOK, Released, IsRoll, Idle
<1>1. ASSUME NEW i \in Instance, RollUp(i) PROVE LocksOK'
  <2>1. locks' = locks /\ \A d \in Day : locks[d] # i
    BY <1>1 DEF RollUp, LocksOK, gridVars
  <2>2. CASE roll' = roll
    BY <1>u, <2>1, <2>2
  <2>3. CASE roll' # roll
    <3>1. PICK x : IsRoll(x) /\ x.left \subseteq Day /\ roll' = [roll EXCEPT ![i] = x]
      <4> DEFINE x == [stage |-> "upserting", left |-> Touched, rows |-> [d \in Touched |-> Derive(d)]]
      <4>1. roll' = [roll EXCEPT ![i] = x]
        BY <1>1, <2>3 DEF RollUp
      <4>2. IsRoll(x) /\ x.left \subseteq Day
        BY DEF IsRoll, Touched
      <4>3. QED
        BY <4>1, <4>2
    <3>2. QED
      BY <2>1, <3>1 DEF LocksOK
  <2>4. QED
    BY <2>2, <2>3
<1>2. ASSUME NEW i \in Instance, NEW d \in Day, Upsert(i, d) PROVE LocksOK'
  <2>1. CASE roll[i].left = {d}
    BY <1>2, <1>r, <2>1 DEF Upsert
  <2>2. CASE roll[i].left # {d}
    <3> DEFINE x == [roll[i] EXCEPT !.left = @ \ {d}]
    <3>1. roll' = [roll EXCEPT ![i] = x] /\ locks' = [locks EXCEPT ![d] = i]
      BY <1>2, <2>2 DEF Upsert, LocksOK
    <3>2. roll[i].stage = "upserting" /\ \A e \in roll[i].left : d <= e
      BY <1>2 DEF Upsert, NextRows
    <3>3. IsRoll(x) /\ x.stage = "upserting" /\ x.left = roll[i].left \ {d}
      BY <3>2, RollWithout DEF LocksOK
    <3>4. \A e \in x.left : d < e
      BY <3>2, <3>3, DaysAreNumbers DEF LocksOK
    <3> HIDE DEF x
    <3>5. QED
      BY <3>1, <3>3, <3>4 DEF LocksOK
  <2>3. QED
    BY <2>1, <2>2
<1>3. ASSUME NEW i \in Instance, RollUpFails(i) PROVE LocksOK'
  BY <1>3, <1>r DEF RollUpFails
<1>4. ASSUME NEW i \in Instance, Stop(i) PROVE LocksOK'
  BY <1>4, <1>r DEF Stop
<1>5. CASE UNCHANGED <<locks, roll>>
  BY <1>5, <1>u
<1>6. \/ UNCHANGED <<locks, roll>>
      \/ \E i \in Instance : RollUp(i) \/ RollUpFails(i) \/ Stop(i) \/ \E d \in Day : Upsert(i, d)
  BY DEF Next, vars, ProbeFindsNothing, ProbeFindsPage, ReportProbe, ReportLost, ReportGivenUp, Read,
         WriteOutage, ReplayFails, Replayed, Start, Tick, gridVars, rollVars
<1>7. QED
  BY <1>1, <1>2, <1>3, <1>4, <1>5, <1>6

\* However many instances recompute the same days, and however often they fail or
\* stop half way, none waits for a row of one that waits for it (ops.sql:112-115):
\* an upsert holds only rows older than those it still wants.
THEOREM UpsertsNeverDeadlockHolds == Spec => []UpsertsNeverDeadlock
<1>1. LocksOK => UpsertsNeverDeadlock
  BY DaysAreNumbers DEF LocksOK, UpsertsNeverDeadlock, NextRows
<1>2. QED
  BY <1>1, InitLocksOK, NextLocksOK, PTL DEF Spec
-----------------------------------------------------------------------------
(***************************************************************************)
(* The log, its replays and the reports                                    *)
(***************************************************************************)
Times == {c.at : c \in checks}
Covered(n) == OutageInstants(n) \subseteq Times
Replay == [stage : {"idle", "writing"}, version : Nat, left : SUBSET Nat]

\* The log is a list of instants, each later than the one before.
LogOK ==
    /\ log \in Seq(Nat)
    /\ \A m, n \in DOMAIN log : m < n => log[m] < log[n]

\* A probe under way is later than all the log and the table know of, its own check
\* apart, and that says up.
ReportOK ==
    /\ now \in Nat
    /\ report \in [at : Int, tries : Nat]
    /\ report # NoReport =>
         /\ report.at \in Nat
         /\ \A n \in DOMAIN log : log[n] < report.at
         /\ \A c \in checks : c.at < report.at \/ c = [at |-> report.at, up |-> TRUE]

ChecksOK == (\A c \in checks : c.at \in Nat) /\ ReportsStand

\* What a replay has behind it is in the table.
ReplayOK(i) ==
    /\ etag[i] \in 0..Len(log) /\ \A n \in Closed(etag[i]) : Covered(n)
    /\ replay[i].stage = "writing" =>
         /\ replay[i].version \in 0..Len(log) /\ replay[i].left \subseteq Closed(replay[i].version)
         /\ \A n \in Closed(replay[i].version) \ replay[i].left : Covered(n)
ReplaysOK ==
    /\ replay \in [Instance -> Replay] /\ etag \in [Instance -> Nat]
    /\ \A i \in Instance : ReplayOK(i)

TableInv == LogOK /\ ReportOK /\ ChecksOK /\ ReplaysOK

LEMMA InitTableInv == Init => TableInv
<1> SUFFICES ASSUME Init PROVE TableInv
  OBVIOUS
<1>1. LogOK /\ now \in Nat
  <2>1. log \in Seq(0..Horizon) /\ \A m, n \in DOMAIN log : m < n => log[m] < log[n]
    BY DEF Init
  <2>2. now = IF log = <<>> THEN 0 ELSE log[Len(log)]
    BY DEF Init
  <2>3. log # <<>> => Len(log) \in DOMAIN log
    BY <2>1
  <2>4. \A n \in DOMAIN log : log[n] \in 0..Horizon
    BY <2>1
  <2>5. log \in Seq(Nat)
    BY <2>1
  <2>6. QED
    BY <2>1, <2>2, <2>3, <2>4, <2>5 DEF LogOK
<1>2. ReportOK
  BY <1>1 DEF Init, ReportOK, NoReport, Never
<1>3. ChecksOK
  BY DEF Init, ChecksOK, ReportsStand
<1>4. ReplaysOK
  BY <1>1 DEF Init, ReplaysOK, ReplayOK, NotReplaying, Replay, Closed, LogOK
<1>5. QED
  BY <1>1, <1>2, <1>3, <1>4 DEF TableInv

\* A line is added, or not, to a log that it is later than.
LEMMA RecordKeeps ==
    ASSUME LogOK, NEW at \in Nat, \A n \in DOMAIN log : log[n] < at, NEW state, Record(state, at)
    PROVE  /\ LogOK'
           /\ Len(log') \in Nat /\ Len(log) <= Len(log')
           /\ \A n \in 1..Len(log) : log'[n] = log[n]
<1>1. log \in Seq(Nat) /\ Len(log) \in Nat /\ DOMAIN log = 1..Len(log)
  BY DEF LogOK
<1>2. CASE log' = log
  BY <1>1, <1>2 DEF LogOK
<1>3. CASE log' = Append(log, at)
  <2>1. /\ log' \in Seq(Nat) /\ Len(log') = Len(log) + 1 /\ DOMAIN log' = 1..(Len(log) + 1)
        /\ \A n \in 1..Len(log) : log'[n] = log[n]
        /\ log'[Len(log) + 1] = at
    BY <1>1, <1>3
  <2>2. ASSUME NEW m \in DOMAIN log', NEW n \in DOMAIN log', m < n PROVE log'[m] < log'[n]
    <3>1. m \in 1..(Len(log) + 1) /\ n \in 1..(Len(log) + 1)
      BY <2>1
    <3>2. m \in 1..Len(log)
      BY <1>1, <2>2, <3>1
    <3>3. CASE n \in 1..Len(log)
      BY <1>1, <2>1, <2>2, <3>2, <3>3 DEF LogOK
    <3>4. CASE n = Len(log) + 1
      BY <1>1, <2>1, <3>2, <3>4
    <3>5. QED
      BY <1>1, <3>1, <3>3, <3>4
  <2>3. QED
    BY <1>1, <2>1, <2>2 DEF LogOK
<1>4. QED
  BY <1>2, <1>3 DEF Record

\* What an insert leaves: one check for each instant, the first.
LEMMA InsertKeeps ==
    ASSUME ChecksOK, NEW rows, Insert(rows),
           \A r \in rows : r.at \in Nat, \A r, s \in rows : r.at = s.at => r = s
    PROVE  /\ checks \subseteq checks' /\ \A c \in checks' : c \in checks \/ c \in rows
           /\ \A c \in checks' : c.at \in Nat
           /\ \A b, c \in checks' : b.at = c.at => b = c
           /\ \A r \in rows : \E c \in checks' : c.at = r.at
<1>1. checks' = checks \cup {r \in rows : \A c \in checks : c.at # r.at}
  BY DEF Insert, NewAmong
<1>2. QED
  BY <1>1 DEF ChecksOK, ReportsStand

\* An outage a version closes has its two lines in the log.
LEMMA ClosedLines ==
    ASSUME NEW l \in Nat, NEW v \in 0..l, NEW n \in Closed(v)
    PROVE  n \in Nat /\ 2 * n - 1 \in 1..l /\ 2 * n \in 1..l
BY DEF Closed

\* The empty log closes no outage.
LEMMA NothingClosed ==
    Closed(0) = {}
BY DEF Closed

\* An outage the log closes stays what it is, and the table only grows.
LEMMA ReplaysStay ==
    ASSUME LogOK, ReplaysOK, Len(log') \in Nat, Len(log) <= Len(log'),
           \A n \in 1..Len(log) : log'[n] = log[n],
           checks \subseteq checks',
           NEW i \in Instance,
           etag'[i] = etag[i] \/ etag'[i] = 0,
           replay'[i] = replay[i] \/ replay'[i].stage = "idle"
    PROVE  ReplayOK(i)'
<1>1. ReplayOK(i) /\ Len(log) \in Nat
  BY DEF ReplaysOK, LogOK
<1>2. \A v \in 0..Len(log) : \A n \in Closed(v) : 2 * n - 1 \in 1..Len(log) /\ 2 * n \in 1..Len(log)
  BY <1>1, ClosedLines
<1>3. \A v \in 0..Len(log) : \A n \in Closed(v) : OutageInstants(n)' = OutageInstants(n)
  BY <1>2 DEF OutageInstants
<1>4. \A v \in 0..Len(log) : \A n \in Closed(v) : Covered(n) => Covered(n)'
  BY <1>3 DEF Covered, Times
<1>5. etag'[i] \in 0..Len(log') /\ \A n \in Closed(etag'[i]) : Covered(n)'
  <2>1. CASE etag'[i] = 0
    BY <2>1, NothingClosed
  <2>2. CASE etag'[i] = etag[i]
    <3>1. etag[i] \in 0..Len(log) /\ \A n \in Closed(etag[i]) : Covered(n)
      BY <1>1 DEF ReplayOK
    <3>2. \A n \in Closed(etag[i]) : Covered(n)'
      BY <1>4, <3>1
    <3>3. QED
      BY <1>1, <2>2, <3>1, <3>2
  <2>3. QED
    BY <2>1, <2>2
<1>6. CASE replay'[i].stage = "idle"
  BY <1>5, <1>6 DEF ReplayOK
<1>7. CASE replay'[i] = replay[i]
  BY <1>1, <1>4, <1>5, <1>7 DEF ReplayOK
<1>8. QED
  BY <1>6, <1>7
\* The reports, and the log with them.
LEMMA ReportsKeep ==
    ASSUME TableInv,
           ProbeFindsNothing \/ ProbeFindsPage \/ ReportProbe \/ ReportLost \/ ReportGivenUp
    PROVE  TableInv'
<1>i. LogOK /\ ReportOK /\ ChecksOK /\ ReplaysOK
  BY DEF TableInv
<1>e. NoReport \in [at : Int, tries : Nat]
  BY DEF NoReport, Never
<1>s. ASSUME Len(log') \in Nat, Len(log) <= Len(log'), \A n \in 1..Len(log) : log'[n] = log[n],
             checks \subseteq checks', UNCHANGED replayVars
      PROVE  ReplaysOK'
  BY <1>i, <1>s, ReplaysStay DEF ReplaysOK, replayVars
<1>l. ASSUME log' = log PROVE LogOK' /\ Len(log') \in Nat /\ Len(log) <= Len(log')
                             /\ \A n \in 1..Len(log) : log'[n] = log[n]
  BY <1>i, <1>l DEF LogOK
<1>c. ASSUME UNCHANGED <<checks, told>> PROVE ChecksOK'
  BY <1>c, <1>i DEF ChecksOK, ReportsStand
<1>1. CASE ProbeFindsNothing
  <2>1. /\ now \in Nat /\ \A n \in DOMAIN log : log[n] < now
        /\ now' = now /\ report' = NoReport /\ checks' = checks /\ told' = told /\ UNCHANGED replayVars
        /\ Record("down", now)
    BY <1>1, <1>i DEF ProbeFindsNothing, MayProbe, ReportOK, tableVars
  <2>2. LogOK' /\ Len(log') \in Nat /\ Len(log) <= Len(log') /\ \A n \in 1..Len(log) : log'[n] = log[n]
    BY <1>i, <2>1, RecordKeeps
  <2>3. ReportOK'
    BY <1>e, <2>1 DEF ReportOK
  <2>4. QED
    BY <1>s, <1>c, <2>1, <2>2, <2>3 DEF TableInv
<1>2. CASE ProbeFindsPage
  <2>1. /\ now \in Nat
        /\ \A n \in DOMAIN log : log[n] < now
        /\ \A c \in checks : c.at < now
        /\ now' = now /\ report' = [at |-> now, tries |-> 0] /\ checks' = checks /\ log' = log
        /\ told' = told /\ UNCHANGED replayVars
    BY <1>2, <1>i DEF ProbeFindsPage, MayProbe, ReportOK, tableVars
  <2>2. report' \in [at : Int, tries : Nat] /\ report'.at = now
    BY <2>1
  <2>3. ReportOK'
    BY <2>1, <2>2 DEF ReportOK
  <2>4. QED
    BY <1>s, <1>c, <1>l, <2>1, <2>3 DEF TableInv
<1>3. CASE ReportProbe
  <2> DEFINE row == [at |-> report.at, up |-> TRUE]
  <2>1. /\ report # NoReport /\ Insert({row}) /\ now' = now /\ UNCHANGED replayVars
        /\ \/ report' = NoReport /\ told' = told \cup {report.at} /\ Record("up", report.at)
           \/ report' = [report EXCEPT !.tries = @ + 1] /\ told' = told /\ log' = log
    BY <1>3 DEF ReportProbe
  <2>2. /\ report.at \in Nat /\ \A n \in DOMAIN log : log[n] < report.at
        /\ \A c \in checks : c.at < report.at \/ c = row
        /\ now \in Nat /\ report \in [at : Int, tries : Nat]
        /\ row = [at |-> report.at, up |-> TRUE] /\ row.at = report.at
    BY <1>i, <2>1 DEF ReportOK
  <2> HIDE DEF row
  <2>3. /\ checks \subseteq checks' /\ \A c \in checks' : c \in checks \/ c = row
        /\ \A c \in checks' : c.at \in Nat
        /\ \A b, c \in checks' : b.at = c.at => b = c
        /\ \E c \in checks' : c.at = report.at
    <3>1. /\ \A r \in {row} : r.at \in Nat /\ r.at = report.at
          /\ \A r, s \in {row} : r.at = s.at => r = s
      BY <2>2
    <3>2. Insert({row})
      BY <2>1
    <3>3. ChecksOK
      BY <1>i
    <3>4. QED
      BY <3>1, <3>2, <3>3, InsertKeeps
  <2>4. row \in checks'
    <3>1. PICK c \in checks' : c.at = report.at
      BY <2>3
    <3>2. ~(c.at < report.at)
      BY <2>2, <3>1
    <3>3. QED
      BY <2>2, <2>3, <3>1, <3>2
  <2>5. ChecksOK'
    <3>1. \A t \in told' : t \in told \/ t = report.at
      BY <2>1
    <3>2. \A t \in told : [at |-> t, up |-> TRUE] \in checks'
      BY <1>i, <2>3 DEF ChecksOK, ReportsStand
    <3>3. \A t \in told' : [at |-> t, up |-> TRUE] \in checks'
      BY <2>2, <2>4, <3>1, <3>2
    <3>4. QED
      BY <2>3, <3>3 DEF ChecksOK, ReportsStand
  <2>6. LogOK' /\ Len(log') \in Nat /\ Len(log) <= Len(log') /\ \A n \in 1..Len(log) : log'[n] = log[n]
    BY <1>i, <1>l, <2>1, <2>2, RecordKeeps
  <2>7. ReportOK'
    <3>1. CASE report' = NoReport
      BY <1>e, <2>1, <2>2, <3>1 DEF ReportOK
    <3>2. CASE report' = [report EXCEPT !.tries = @ + 1] /\ log' = log
      <4>1. report' \in [at : Int, tries : Nat] /\ report'.at = report.at
        BY <2>2, <3>2
      <4>2. QED
        BY <2>1, <2>2, <2>3, <3>2, <4>1 DEF ReportOK
    <3>3. QED
      BY <2>1, <3>1, <3>2
  <2>8. QED
    BY <1>s, <2>1, <2>3, <2>5, <2>6, <2>7 DEF TableInv
<1>4. CASE ReportLost
  <2>1. /\ report # NoReport /\ report' = [report EXCEPT !.tries = @ + 1] /\ now' = now
        /\ checks' = checks /\ told' = told /\ log' = log /\ UNCHANGED replayVars
    BY <1>4 DEF ReportLost, tableVars
  <2>2. report' \in [at : Int, tries : Nat] /\ report'.at = report.at
    BY <1>i, <2>1 DEF ReportOK
  <2>3. ReportOK'
    BY <1>i, <2>1, <2>2 DEF ReportOK
  <2>4. QED
    BY <1>s, <1>c, <1>l, <2>1, <2>3 DEF TableInv
<1>5. CASE ReportGivenUp
  <2>1. /\ report # NoReport /\ report' = NoReport /\ Record("down", report.at) /\ now' = now
        /\ checks' = checks /\ told' = told /\ UNCHANGED replayVars
    BY <1>5 DEF ReportGivenUp, tableVars
  <2>2. LogOK' /\ Len(log') \in Nat /\ Len(log) <= Len(log') /\ \A n \in 1..Len(log) : log'[n] = log[n]
    BY <1>i, <2>1, RecordKeeps DEF ReportOK
  <2>3. ReportOK'
    BY <1>e, <1>i, <2>1 DEF ReportOK
  <2>4. QED
    BY <1>s, <1>c, <2>1, <2>2, <2>3 DEF TableInv
<1>6. QED
  BY <1>1, <1>2, <1>3, <1>4, <1>5
\* A replay's steps: what the log says stays, and one more outage is behind it.
LEMMA ReplayKeeps ==
    ASSUME TableInv, NEW i \in Instance,
           Read(i) \/ WriteOutage(i) \/ ReplayFails(i) \/ Replayed(i) \/ Stop(i)
    PROVE  TableInv'
<1>i. LogOK /\ ReportOK /\ ChecksOK /\ ReplaysOK
  BY DEF TableInv
<1>t. /\ replay \in [Instance -> Replay] /\ etag \in [Instance -> Nat]
      /\ Len(log) \in Nat /\ DOMAIN log = 1..Len(log) /\ \A j \in Instance : ReplayOK(j)
  BY <1>i DEF ReplaysOK, LogOK
<1>p. LogOK' /\ now' = now /\ report' = report /\ told' = told /\ log' = log
  BY <1>i DEF Read, WriteOutage, ReplayFails, Replayed, Stop, proberVars, LogOK
<1>c. ASSUME checks' = checks PROVE ReportOK' /\ ChecksOK'
  BY <1>i, <1>p, <1>c DEF ReportOK, ChecksOK, ReportsStand
<1>s. ASSUME checks \subseteq checks', NEW j \in Instance, etag'[j] = etag[j] \/ etag'[j] = 0,
             replay'[j] = replay[j] \/ replay'[j].stage = "idle"
      PROVE  ReplayOK(j)'
  BY <1>i, <1>p, <1>s, <1>t, ReplaysStay
<1>n. NotReplaying \in Replay /\ NotReplaying.stage = "idle"
  BY DEF NotReplaying, Replay
<1>1. CASE Read(i)
  <2> DEFINE x == [stage |-> "writing", version |-> Len(log), left |-> Closed(Len(log))]
  <2>1. replay' = [replay EXCEPT ![i] = x] /\ etag' = etag /\ checks' = checks
    BY <1>1 DEF Read, tableVars
  <2>2. x \in Replay
    BY <1>t DEF Replay, Closed
  <2>3. ASSUME NEW j \in Instance PROVE ReplayOK(j)'
    <3>1. CASE j # i
      BY <1>s, <1>t, <2>1, <3>1
    <3>2. CASE j = i
      <4>1. replay'[j] = x /\ Len(log') = Len(log) /\ Closed(etag[j])' = Closed(etag[j])
        BY <1>p, <1>t, <2>1, <3>2 DEF Closed
      <4>2. \A n \in Closed(etag[j]) : Covered(n)'
        BY <1>p, <1>t, <2>1 DEF ReplayOK, Covered, OutageInstants, Times
      <4>3. QED
        BY <1>p, <1>t, <2>1, <4>1, <4>2 DEF ReplayOK
    <3>3. QED
      BY <3>1, <3>2
  <2>4. replay' \in [Instance -> Replay] /\ etag' \in [Instance -> Nat]
    BY <1>t, <2>1, <2>2
  <2>5. QED
    BY <1>c, <1>p, <2>1, <2>3, <2>4 DEF TableInv, ReplaysOK
<1>2. CASE WriteOutage(i)
  <2>0. PICK n : n = Min(replay[i].left)
    OBVIOUS
  <2> DEFINE rows == {[at |-> t, up |-> FALSE] : t \in OutageInstants(n)}
             x == [replay[i] EXCEPT !.left = @ \ {n}]
  <2>1. /\ replay[i].stage = "writing" /\ replay[i].left # {} /\ Insert(rows)
        /\ replay' = [replay EXCEPT ![i].left = @ \ {n}] /\ etag' = etag
    BY <1>2, <2>0 DEF WriteOutage
  <2>2. /\ replay[i].version \in 0..Len(log) /\ replay[i].left \subseteq Closed(replay[i].version)
        /\ \A m \in Closed(replay[i].version) \ replay[i].left : Covered(m)
    BY <1>t, <2>1 DEF ReplayOK
  <2>3. n \in replay[i].left
    <3>1. replay[i].left \subseteq Nat
      BY <2>2 DEF Closed
    <3>2. QED
      BY <2>0, <2>1, <3>1, LeastOfNats
  <2>4. 2 * n - 1 \in DOMAIN log /\ 2 * n \in DOMAIN log
    BY <1>t, <2>2, <2>3, ClosedLines
  <2>5. log[2 * n - 1] \in Nat /\ log[2 * n] \in Nat
    BY <1>i, <2>4 DEF LogOK
  <2>6. \A t \in OutageInstants(n) : t \in Nat /\ t < log[2 * n]
    BY <2>5 DEF OutageInstants
  <2>7. /\ \A r \in rows : r.at \in Nat /\ r.at < log[2 * n]
        /\ \A r, s \in rows : r.at = s.at => r = s
        /\ \A t \in OutageInstants(n) : \E r \in rows : r.at = t
    <3>1. ASSUME NEW r \in rows
          PROVE  \E t \in OutageInstants(n) : r = [at |-> t, up |-> FALSE] /\ r.at = t
      OBVIOUS
    <3>2. ASSUME NEW t \in OutageInstants(n) PROVE \E r \in rows : r.at = t
      <4>1. [at |-> t, up |-> FALSE] \in rows /\ [at |-> t, up |-> FALSE].at = t
        OBVIOUS
      <4>2. QED
        BY <4>1
    <3> HIDE DEF rows
    <3>3. QED
      BY <2>6, <3>1, <3>2
  <2> HIDE DEF rows
  <2>8. /\ checks \subseteq checks' /\ \A c \in checks' : c \in checks \/ c \in rows
        /\ \A c \in checks' : c.at \in Nat
        /\ \A b, c \in checks' : b.at = c.at => b = c
        /\ \A r \in rows : \E c \in checks' : c.at = r.at
    BY <1>i, <2>1, <2>7, InsertKeeps
  <2>9. ChecksOK'
    BY <1>i, <1>p, <2>8 DEF ChecksOK, ReportsStand
  <2>10. ReportOK'
    <3>1. ASSUME report # NoReport, NEW c \in checks'
          PROVE  c.at < report.at \/ c = [at |-> report.at, up |-> TRUE]
      <4>1. CASE c \in checks
        BY <1>i, <3>1, <4>1 DEF ReportOK
      <4>2. CASE c \in rows
        <5>1. c.at \in Nat /\ c.at < log[2 * n] /\ log[2 * n] < report.at /\ report.at \in Nat
          BY <1>i, <2>4, <2>7, <3>1, <4>2 DEF ReportOK
        <5>2. QED
          BY <2>5, <5>1
      <4>3. QED
        BY <2>8, <4>1, <4>2
    <3>2. QED
      BY <1>i, <1>p, <3>1 DEF ReportOK
  <2>11. /\ x \in Replay /\ x.stage = "writing" /\ x.version = replay[i].version
         /\ x.left = replay[i].left \ {n}
    <3>1. replay[i] \in Replay
      BY <1>t
    <3>2. QED
      BY <2>1, <3>1 DEF Replay
  <2>12. replay' = [replay EXCEPT ![i] = x]
    BY <1>t, <2>1
  <2> HIDE DEF x
  <2>13. ASSUME NEW j \in Instance PROVE ReplayOK(j)'
    <3>1. CASE j # i
      BY <1>s, <1>t, <2>1, <2>8, <2>12, <3>1
    <3>2. CASE j = i
      <4>1. replay'[j] = x
        BY <1>t, <2>12, <3>2
      <4>2. \A m \in Nat : OutageInstants(m)' = OutageInstants(m)
        BY <1>p DEF OutageInstants
      <4>3. \A m \in Nat : Covered(m) => Covered(m)'
        BY <2>8, <4>2 DEF Covered, Times
      <4>4. Covered(n)'
        <5>1. ASSUME NEW t \in OutageInstants(n) PROVE \E c \in checks' : c.at = t
          BY <2>7, <2>8
        <5>2. OutageInstants(n)' = OutageInstants(n)
          BY <1>p DEF OutageInstants
        <5>3. QED
          BY <5>1, <5>2 DEF Covered, Times
      <4>5. \A v \in Nat : Closed(v) \subseteq Nat /\ Closed(v)' = Closed(v)
        BY DEF Closed
      <4>6. \A m \in Closed(x.version) \ x.left : Covered(m)'
        <5>1. ASSUME NEW m \in Closed(x.version) \ x.left PROVE m = n \/ Covered(m)
          BY <2>2, <2>11
        <5>2. replay[i].version \in Nat
          BY <1>t, <2>2
        <5>3. ASSUME NEW m \in Closed(x.version) \ x.left PROVE Covered(m)'
          BY <2>11, <4>3, <4>4, <4>5, <5>1, <5>2, <5>3
        <5>4. QED
          BY <4>5, <5>2, <5>3, <2>11
      <4>7. etag'[j] \in 0..Len(log) /\ \A m \in Closed(etag'[j]) : Covered(m)'
        BY <1>t, <2>1, <4>3, <4>5 DEF ReplayOK
      <4>8. x.version \in 0..Len(log) /\ x.left \subseteq Closed(x.version)
        BY <2>2, <2>11
      <4>9. QED
        BY <1>p, <4>1, <4>6, <4>7, <4>8 DEF ReplayOK
    <3>3. QED
      BY <3>1, <3>2
  <2>14. replay' \in [Instance -> Replay] /\ etag' \in [Instance -> Nat]
    BY <1>t, <2>1, <2>11, <2>12
  <2>15. QED
    BY <1>p, <2>9, <2>10, <2>13, <2>14 DEF TableInv, ReplaysOK
<1>3. CASE ReplayFails(i) \/ Stop(i)
  <2>1. /\ checks' = checks /\ replay' = [replay EXCEPT ![i] = NotReplaying]
        /\ etag' = etag \/ etag' = [etag EXCEPT ![i] = 0]
    BY <1>3 DEF ReplayFails, Stop, tableVars
  <2>2. \A j \in Instance : ReplayOK(j)'
    BY <1>n, <1>s, <1>t, <2>1
  <2>3. replay' \in [Instance -> Replay]
    BY <1>n, <1>t, <2>1
  <2>4. etag' \in [Instance -> Nat]
    BY <1>t, <2>1
  <2>5. QED
    BY <1>c, <1>p, <2>1, <2>2, <2>3, <2>4 DEF TableInv, ReplaysOK
<1>4. CASE Replayed(i)
  <2>1. /\ replay[i].stage = "writing" /\ replay[i].left = {} /\ checks' = checks
        /\ etag' = [etag EXCEPT ![i] = replay[i].version] /\ replay' = [replay EXCEPT ![i] = NotReplaying]
    BY <1>4 DEF Replayed, MayStoreEtag, tableVars
  <2>2. replay[i].version \in 0..Len(log) /\ \A m \in Closed(replay[i].version) : Covered(m)
    BY <1>t, <2>1 DEF ReplayOK
  <2>3. ASSUME NEW j \in Instance PROVE ReplayOK(j)'
    <3>1. CASE j # i
      BY <1>s, <1>t, <2>1, <3>1
    <3>2. CASE j = i
      <4>1. etag'[j] = replay[i].version /\ replay'[j].stage = "idle"
        BY <1>n, <1>t, <2>1, <3>2
      <4>2. \A m \in Closed(replay[i].version) : Covered(m)'
        BY <1>p, <2>1, <2>2 DEF Covered, OutageInstants, Times
      <4>3. QED
        BY <1>p, <2>2, <4>1, <4>2 DEF ReplayOK, Closed
    <3>3. QED
      BY <3>1, <3>2
  <2>4. replay' \in [Instance -> Replay] /\ etag' \in [Instance -> Nat]
    BY <1>n, <1>t, <2>1, <2>2
  <2>5. QED
    BY <1>c, <1>p, <2>1, <2>3, <2>4 DEF TableInv, ReplaysOK
<1>5. QED
  BY <1>1, <1>2, <1>3, <1>4

LEMMA NextTableInv == TableInv /\ [Next]_vars => TableInv'
<1> SUFFICES ASSUME TableInv, [Next]_vars PROVE TableInv'
  OBVIOUS
<1>1. CASE /\ UNCHANGED <<report, told, log, checks, replay, etag>>
           /\ now' = now \/ now' = now + 1
  <2>1. LogOK' /\ ChecksOK'
    BY <1>1 DEF TableInv, LogOK, ChecksOK, ReportsStand
  <2>2. ReportOK'
    <3>1. now' \in Nat
      BY <1>1 DEF TableInv, ReportOK
    <3>2. QED
      BY <1>1, <3>1 DEF TableInv, ReportOK
  <2>3. \A i \in Instance : ReplayOK(i)'
    BY <1>1, ReplaysStay DEF TableInv, LogOK, ReplaysOK
  <2>4. QED
    BY <1>1, <2>1, <2>2, <2>3 DEF TableInv, ReplaysOK
<1>2. \/ ProbeFindsNothing \/ ProbeFindsPage \/ ReportProbe \/ ReportLost \/ ReportGivenUp
      \/ \E i \in Instance : Read(i) \/ WriteOutage(i) \/ ReplayFails(i) \/ Replayed(i) \/ Stop(i)
      \/ /\ UNCHANGED <<report, told, log, checks, replay, etag>>
         /\ now' = now \/ now' = now + 1
  BY DEF Next, vars, RollUp, RollUpFails, Upsert, Start, Tick, proberVars, tableVars, replayVars
<1>3. QED
  BY <1>1, <1>2, ReportsKeep, ReplayKeeps

\* A report answered with 204 is one check, up, for good: neither a second delivery
\* of it nor a replay of the log changes or doubles it (ops.sql:183-190, 211-213,
\* intake.go:118-124), whatever fails, stops or runs beside it.
THEOREM ReportsStandHolds == Spec => []ReportsStand
<1>1. TableInv => ReportsStand
  BY DEF TableInv, ChecksOK
<1>2. QED
  BY <1>1, InitTableInv, NextTableInv, PTL DEF Spec

\* An instance that would be answered 304 has written every outage the log closed
\* (backfill.go:243-246, 281-304): the version it remembers is never ahead of the
\* table, however its replays failed half way.
THEOREM EtagMeansReplayedHolds == Spec => []EtagMeansReplayed
<1>1. TableInv => EtagMeansReplayed
  BY DEF TableInv, ReplaysOK, ReplayOK, EtagMeansReplayed, Covered, Times
<1>2. QED
  BY <1>1, InitTableInv, NextTableInv, PTL DEF Spec
-----------------------------------------------------------------------------
(***************************************************************************)
(* The days catch up                                                       *)
(***************************************************************************)

Fresh(d) == cells[d] = Derive(d)

\* When an instance reads next what is in the table; one that has read it, but has
\* not written yet, counts as about to.
NextRead(i) == IF roll[i].stage = "idle" THEN now + due[i] ELSE now

\* A day that waits for a roll-up has one coming, of each instance that has worked
\* long enough to owe it: within a tick of the news, or of the instance's last
\* failure or start.
Owed(d, i) ==
    /\ recorded[d] # Never /\ wellSince[i] # Never
    /\ wellSince[i] + AggregateEvery <= recorded[d] + Lookback
    => \/ Fresh(d)
       \/ NextRead(i) <= recorded[d] + AggregateEvery
       \/ NextRead(i) <= wellSince[i] + AggregateEvery

\* What a roll-up under way has read: it took no tick, so what is not in it, or is no
\* longer what the table says, came in this very tick or is out of its sight.
RollOK(i) ==
    roll[i].stage # "idle" =>
      /\ DOMAIN roll[i].rows \subseteq Day
      /\ \A d \in DOMAIN roll[i].rows : roll[i].rows[d] = Derive(d) \/ recorded[d] = now
      /\ \A d \in Day \ DOMAIN roll[i].rows :
            recorded[d] = Never \/ recorded[d] = now \/ recorded[d] < now - Lookback

LoopsOK ==
    /\ now \in Nat
    /\ due \in [Instance -> 0..AggregateEvery]
    /\ running \in [Instance -> BOOLEAN]
    /\ wellSince \in [Instance -> Int]
    /\ roll = [i \in Instance |-> roll[i]]
    /\ \A i \in Instance :
          /\ IsRoll(roll[i])
          /\ wellSince[i] # Never => running[i]
          /\ ~running[i] => roll[i].stage = "idle"

CellsOK ==
    /\ DOMAIN cells = Day
    /\ recorded \in [Day -> Int]
    /\ \A d \in Day : recorded[d] <= now

GridInv ==
    /\ LoopsOK /\ CellsOK
    /\ \A i \in Instance : RollOK(i)
    /\ \A d \in Day, i \in Instance : Owed(d, i)

LEMMA InitGridInv == ASSUME Init PROVE GridInv
<1>1. now \in Nat
  <2>1. PICK l \in PastLogs : log = l /\ now = IF log = <<>> THEN 0 ELSE log[Len(log)]
    BY DEF Init
  <2>2. log \in Seq(0..Horizon)
    BY <2>1
  <2>3. QED
    BY <2>1, <2>2
<1>2. LoopsOK
  BY <1>1 DEF Init, LoopsOK, IsRoll, Idle, Never
<1>3. CellsOK
  BY <1>1 DEF Init, CellsOK, Never
<1>4. QED
  BY <1>2, <1>3 DEF Init, GridInv, RollOK, Owed, Idle

\* The table of checks alone grows, a day with a new one being recorded now.
LEMMA InsertGrid ==
    ASSUME GridInv, NEW rows, Insert(rows), UNCHANGED <<now, cells, roll, due, running, wellSince>>
    PROVE  GridInv'
<1>1. \A d \in Day : recorded'[d] = now \/ (recorded'[d] = recorded[d] /\ RowsOf(d)' = RowsOf(d))
  <2> SUFFICES ASSUME NEW d \in Day, recorded'[d] # now
               PROVE  recorded'[d] = recorded[d] /\ RowsOf(d)' = RowsOf(d)
    OBVIOUS
  <2>1. recorded'[d] = recorded[d] /\ ~ \E r \in NewAmong(rows) : DayOf(r.at) = d
    BY DEF Insert
  <2>2. checks' = checks \cup NewAmong(rows)
    BY DEF Insert
  <2>3. QED
    BY <2>1, <2>2 DEF RowsOf
<1>2. recorded' \in [Day -> Int] /\ \A d \in Day : recorded'[d] <= now
  BY DEF Insert, GridInv, LoopsOK, CellsOK
<1>3. \A d \in Day : recorded'[d] = now \/ (recorded'[d] = recorded[d] /\ Derive(d)' = Derive(d))
  BY <1>1 DEF Derive
<1>4. LoopsOK'
  BY DEF GridInv, LoopsOK, IsRoll
<1>5. CellsOK'
  BY <1>2 DEF GridInv, CellsOK
<1>6. ASSUME NEW i \in Instance PROVE RollOK(i)'
  BY <1>3 DEF GridInv, RollOK
<1>7. ASSUME NEW d \in Day, NEW i \in Instance PROVE Owed(d, i)'
  <2>1. NextRead(i)' = NextRead(i)
    BY DEF NextRead
  <2>2. CASE recorded'[d] = now
    <3>1. NextRead(i) <= now + AggregateEvery
      BY DEF GridInv, LoopsOK, NextRead
    <3>2. QED
      BY <2>1, <2>2, <3>1 DEF Owed
  <2>3. CASE recorded'[d] = recorded[d] /\ Derive(d)' = Derive(d)
    <3>1. Fresh(d)' = Fresh(d)
      BY <2>3 DEF Fresh
    <3>2. QED
      BY <2>1, <2>3, <3>1 DEF GridInv, Owed
  <2>4. QED
    BY <1>3, <2>2, <2>3
<1>8. QED
  BY <1>4, <1>5, <1>6, <1>7 DEF GridInv

\* What an instance has not in its snapshot it does not owe.
LEMMA NotOwed ==
    ASSUME GridInv, NEW d \in Day, NEW i \in Instance, recorded[d] # Never,
           recorded[d] < now - Lookback, NextRead(i) = now,
           wellSince[i] # Never, wellSince[i] + AggregateEvery <= recorded[d] + Lookback
    PROVE  Fresh(d)
<1>1. now \in Nat /\ recorded[d] \in Int /\ wellSince[i] \in Int
  BY DEF GridInv, LoopsOK, CellsOK
<1>2. Owed(d, i)
  BY DEF GridInv
<1>3. ~(now <= recorded[d] + AggregateEvery) /\ ~(now <= wellSince[i] + AggregateEvery)
  BY <1>1
<1>4. QED
  BY <1>2, <1>3 DEF Owed

\* A roll-up of instance i ends: done, if it wrote what it read, or not at all.
LEMMA UpsertGrid ==
    ASSUME GridInv, NEW j \in Instance, roll[j].stage = "upserting",
           cells' = Overwritten(roll[j].rows), roll' = [roll EXCEPT ![j] = Idle],
           UNCHANGED <<now, checks, recorded, due, running, wellSince>>
    PROVE  GridInv'
<1>1. \A d \in Day : Derive(d)' = Derive(d)
  <2>1. \A d \in Day : RowsOf(d)' = RowsOf(d)
    BY DEF RowsOf
  <2>2. QED
    BY <2>1 DEF Derive
<1>d. DOMAIN roll[j].rows \subseteq Day /\ DOMAIN cells = Day
  BY DEF GridInv, RollOK, CellsOK
<1>2. DOMAIN cells' = Day
  BY <1>d DEF Overwritten
<1>3. \A d \in DOMAIN roll[j].rows : cells'[d] = roll[j].rows[d]
  BY <1>d DEF Overwritten
<1>4. \A d \in Day \ DOMAIN roll[j].rows : cells'[d] = cells[d]
  BY <1>d DEF Overwritten
<1>5. LoopsOK'
  BY DEF GridInv, LoopsOK, IsRoll, Idle
<1>6. CellsOK'
  BY <1>2 DEF GridInv, CellsOK
<1>7. ASSUME NEW i \in Instance PROVE RollOK(i)'
  BY <1>1 DEF GridInv, LoopsOK, RollOK, Idle
<1>8. ASSUME NEW d \in Day, NEW i \in Instance PROVE Owed(d, i)'
  <2>1. SUFFICES ASSUME recorded[d] # Never, wellSince[i] # Never, recorded[d] # now,
                        wellSince[i] + AggregateEvery <= recorded[d] + Lookback
                 PROVE  \/ cells'[d] = Derive(d)
                        \/ NextRead(i)' <= recorded[d] + AggregateEvery
                        \/ NextRead(i)' <= wellSince[i] + AggregateEvery
    <3>1. NextRead(i)' <= now + AggregateEvery
      BY <1>5 DEF LoopsOK, NextRead
    <3>2. Fresh(d)' <=> cells'[d] = Derive(d)
      BY <1>1 DEF Fresh
    <3>3. QED
      BY <3>1, <3>2 DEF Owed
  <2>2. CASE d \in DOMAIN roll[j].rows
    BY <1>3, <2>1, <2>2 DEF GridInv, RollOK
  <2>3. CASE d \notin DOMAIN roll[j].rows /\ i = j
    <3>1. recorded[d] < now - Lookback
      BY <2>1, <2>3 DEF GridInv, RollOK
    <3>2. NextRead(i) = now
      BY <2>3 DEF NextRead
    <3>3. Fresh(d)
      BY <2>1, <3>1, <3>2, NotOwed
    <3>4. QED
      BY <1>4, <2>3, <3>3 DEF Fresh
  <2>4. CASE d \notin DOMAIN roll[j].rows /\ i # j
    <3>1. NextRead(i)' = NextRead(i)
      BY <2>4 DEF NextRead, GridInv, LoopsOK
    <3>2. cells'[d] = cells[d]
      BY <1>4, <2>4
    <3>3. QED
      BY <2>1, <3>1, <3>2 DEF GridInv, Owed, Fresh
  <2>5. QED
    BY <2>2, <2>3, <2>4
<1>9. QED
  BY <1>5, <1>6, <1>7, <1>8 DEF GridInv

\* Nothing but the loop of one instance moves.
LEMMA GridFrame ==
    ASSUME GridInv, UNCHANGED <<now, checks, recorded, cells, roll, due, running, wellSince>>
    PROVE  GridInv'
<1>1. \A d \in Day : Derive(d)' = Derive(d)
  <2>1. \A d \in Day : RowsOf(d)' = RowsOf(d)
    BY DEF RowsOf
  <2>2. QED
    BY <2>1 DEF Derive
<1>2. LoopsOK' /\ CellsOK'
  BY DEF GridInv, LoopsOK, CellsOK, IsRoll
<1>3. ASSUME NEW i \in Instance PROVE RollOK(i)'
  BY <1>1 DEF GridInv, RollOK
<1>4. ASSUME NEW d \in Day, NEW i \in Instance PROVE Owed(d, i)'
  <2>1. (Fresh(d)' <=> Fresh(d)) /\ NextRead(i)' = NextRead(i)
    BY <1>1 DEF Fresh, NextRead
  <2>2. QED
    BY <2>1 DEF GridInv, Owed
<1>5. QED
  BY <1>2, <1>3, <1>4 DEF GridInv

\* The table and the cells stand, and so do all loops but j's.
LEMMA LoopGrid ==
    ASSUME GridInv, NEW j \in Instance, UNCHANGED <<now, checks, recorded, cells>>,
           LoopsOK', RollOK(j)', \A d \in Day : Owed(d, j)',
           \A i \in Instance \ {j} : /\ roll'[i] = roll[i] /\ due'[i] = due[i]
                                     /\ wellSince'[i] = wellSince[i]
    PROVE  GridInv'
<1>1. \A d \in Day : Derive(d)' = Derive(d)
  <2>1. \A d \in Day : RowsOf(d)' = RowsOf(d)
    BY DEF RowsOf
  <2>2. QED
    BY <2>1 DEF Derive
<1>2. CellsOK'
  BY DEF GridInv, CellsOK
<1>3. ASSUME NEW i \in Instance, i # j PROVE RollOK(i)'
  BY <1>1, <1>3 DEF GridInv, RollOK
<1>4. ASSUME NEW d \in Day, NEW i \in Instance, i # j PROVE Owed(d, i)'
  <2>1. (Fresh(d)' <=> Fresh(d)) /\ NextRead(i)' = NextRead(i)
    BY <1>1, <1>4 DEF Fresh, NextRead
  <2>2. QED
    BY <1>4, <2>1 DEF GridInv, Owed
<1>5. QED
  BY <1>2, <1>3, <1>4 DEF GridInv

LEMMA RollUpGrid ==
    ASSUME GridInv, NEW j \in Instance, RollUp(j)
    PROVE  GridInv'
<1>1. /\ UNCHANGED <<now, checks, recorded, cells, running, wellSince>>
      /\ running[j] /\ due[j] = 0 /\ roll[j].stage = "idle"
      /\ due' = [due EXCEPT ![j] = AggregateEvery]
  BY DEF RollUp, proberVars, tableVars, gridVars
<1>2. \A d \in Day \ Touched : recorded[d] = Never \/ recorded[d] < now - Lookback
  BY DEF Touched, GridInv, LoopsOK, CellsOK
<1>3. NextRead(j) = now
  BY <1>1 DEF NextRead, GridInv, LoopsOK
<1>4. \A d \in Day : Derive(d)' = Derive(d)
  <2>1. \A d \in Day : RowsOf(d)' = RowsOf(d)
    BY <1>1 DEF RowsOf
  <2>2. QED
    BY <2>1 DEF Derive
<1>5. CASE Touched = {}
  <2>1. roll' = roll
    BY <1>5 DEF RollUp
  <2>2. LoopsOK'
    BY <1>1, <2>1 DEF GridInv, LoopsOK, IsRoll
  <2>3. RollOK(j)'
    BY <1>1, <2>1 DEF RollOK
  <2>4. ASSUME NEW d \in Day PROVE Owed(d, j)'
    <3>1. recorded[d] # Never /\ wellSince[j] # Never
          /\ wellSince[j] + AggregateEvery <= recorded[d] + Lookback => Fresh(d)
      BY <1>2, <1>3, <1>5, NotOwed
    <3>2. Fresh(d)' <=> Fresh(d)
      BY <1>1, <1>4 DEF Fresh
    <3>3. QED
      BY <1>1, <3>1, <3>2 DEF Owed
  <2>5. QED
    BY <1>1, <2>1, <2>2, <2>3, <2>4, LoopGrid DEF GridInv, LoopsOK
<1>6. CASE Touched # {}
  <2> DEFINE x == [stage |-> "upserting", left |-> Touched, rows |-> [d \in Touched |-> Derive(d)]]
  <2>1. roll' = [roll EXCEPT ![j] = x]
    BY <1>6 DEF RollUp
  <2>2. IsRoll(x) /\ x.stage = "upserting" /\ x.rows = [d \in Touched |-> Derive(d)]
    BY DEF IsRoll
  <2> HIDE DEF x
  <2>3. roll'[j] = x /\ \A i \in Instance \ {j} : roll'[i] = roll[i]
    BY <2>1 DEF GridInv, LoopsOK
  <2>4. LoopsOK'
    <3>1. \A i \in Instance : IsRoll(roll'[i]) /\ (~running[i] => roll'[i].stage = "idle")
      BY <1>1, <2>2, <2>3 DEF GridInv, LoopsOK
    <3>2. due' \in [Instance -> 0..AggregateEvery]
      BY <1>1 DEF GridInv, LoopsOK
    <3>3. roll' = [i \in Instance |-> roll'[i]]
      BY <2>1 DEF GridInv, LoopsOK
    <3>4. QED
      BY <1>1, <3>1, <3>2, <3>3 DEF GridInv, LoopsOK
  <2>5. RollOK(j)'
    <3>1. DOMAIN roll'[j].rows = Touched /\ \A d \in Touched : roll'[j].rows[d] = Derive(d)
      BY <2>2, <2>3
    <3>2. Touched \subseteq Day
      BY DEF Touched
    <3>3. QED
      BY <1>1, <1>2, <1>4, <3>1, <3>2 DEF RollOK
  <2>6. ASSUME NEW d \in Day PROVE Owed(d, j)'
    <3>1. NextRead(j)' = NextRead(j)
      BY <1>1, <1>3, <2>2, <2>3 DEF NextRead
    <3>2. Fresh(d)' <=> Fresh(d)
      BY <1>1, <1>4 DEF Fresh
    <3>3. QED
      BY <1>1, <3>1, <3>2 DEF Owed, GridInv
  <2>7. QED
    BY <1>1, <2>3, <2>4, <2>5, <2>6, LoopGrid DEF GridInv, LoopsOK
<1>7. QED
  BY <1>5, <1>6

\* A loop starts, stops or fails.
LEMMA RestartGrid ==
    ASSUME GridInv, NEW j \in Instance, UNCHANGED <<now, checks, recorded, cells>>,
           roll' = [roll EXCEPT ![j] = Idle],
           \/ wellSince' = [wellSince EXCEPT ![j] = now] /\ running'[j]
           \/ wellSince' = [wellSince EXCEPT ![j] = Never],
           due' = due \/ due' = [due EXCEPT ![j] = 0],
           running' \in [Instance -> BOOLEAN],
           \A i \in Instance \ {j} : running'[i] = running[i]
    PROVE  GridInv'
<1>1. LoopsOK'
  <2>1. IsRoll(Idle) /\ Idle.stage = "idle"
    BY DEF IsRoll, Idle
  <2>2. /\ roll' = [i \in Instance |-> roll'[i]]
        /\ \A i \in Instance : roll'[i] = IF i = j THEN Idle ELSE roll[i]
    BY DEF GridInv, LoopsOK
  <2>3. due' \in [Instance -> 0..AggregateEvery]
    <3>1. 0 \in 0..AggregateEvery
      OBVIOUS
    <3>2. QED
      BY <3>1 DEF GridInv, LoopsOK
  <2>4. wellSince' \in [Instance -> Int]
    BY DEF GridInv, LoopsOK, Never
  <2>5. \A i \in Instance : wellSince'[i] # Never => running'[i]
    BY DEF GridInv, LoopsOK
  <2>6. QED
    BY <2>1, <2>2, <2>3, <2>4, <2>5 DEF GridInv, LoopsOK
<1>2. roll'[j].stage = "idle"
  BY DEF GridInv, LoopsOK, Idle
<1>3. ASSUME NEW d \in Day PROVE Owed(d, j)'
  <2>1. NextRead(j)' <= now + AggregateEvery
    BY <1>1, <1>2 DEF LoopsOK, NextRead
  <2>2. wellSince'[j] = now \/ wellSince'[j] = Never
    BY DEF GridInv, LoopsOK
  <2>3. QED
    BY <2>1, <2>2 DEF Owed
<1>4. QED
  BY <1>1, <1>2, <1>3, LoopGrid DEF GridInv, LoopsOK, RollOK

LEMMA TickGrid ==
    ASSUME GridInv, Tick
    PROVE  GridInv'
<1>1. /\ UNCHANGED <<checks, recorded, cells, roll, running, wellSince>>
      /\ now' = now + 1
      /\ \A i \in Instance : roll[i].stage = "idle" /\ (running[i] => due[i] > 0)
      /\ due' = [i \in Instance |-> IF due[i] > 0 THEN due[i] - 1 ELSE 0]
  BY DEF Tick, tableVars, gridVars
<1>2. \A d \in Day : Derive(d)' = Derive(d)
  <2>1. \A d \in Day : RowsOf(d)' = RowsOf(d)
    BY <1>1 DEF RowsOf
  <2>2. QED
    BY <2>1 DEF Derive
<1>3. LoopsOK'
  BY <1>1 DEF GridInv, LoopsOK, IsRoll
<1>4. CellsOK'
  BY <1>1 DEF GridInv, LoopsOK, CellsOK
<1>5. ASSUME NEW i \in Instance PROVE RollOK(i)'
  BY <1>1 DEF RollOK
<1>6. ASSUME NEW d \in Day, NEW i \in Instance PROVE Owed(d, i)'
  <2>1. Fresh(d)' <=> Fresh(d)
    BY <1>1, <1>2 DEF Fresh
  <2>2. running[i] => NextRead(i)' = NextRead(i)
    BY <1>1 DEF NextRead, GridInv, LoopsOK
  <2>3. wellSince[i] # Never => running[i]
    BY DEF GridInv, LoopsOK
  <2>4. QED
    BY <1>1, <2>1, <2>2, <2>3 DEF GridInv, Owed
<1>7. QED
  BY <1>3, <1>4, <1>5, <1>6 DEF GridInv

LEMMA NextGridInv == GridInv /\ [Next]_vars => GridInv'
<1> SUFFICES ASSUME GridInv, [Next]_vars PROVE GridInv'
  OBVIOUS
<1>1. CASE UNCHANGED <<now, checks, recorded, cells, roll, due, running, wellSince>>
  BY <1>1, GridFrame
<1>2. CASE \/ UNCHANGED vars \/ ProbeFindsNothing \/ ProbeFindsPage \/ ReportLost \/ ReportGivenUp
           \/ \E i \in Instance : Read(i) \/ ReplayFails(i) \/ Replayed(i)
  BY <1>1, <1>2 DEF vars, tableVars, gridVars, rollVars, ProbeFindsNothing, ProbeFindsPage, ReportLost,
     ReportGivenUp, Read, ReplayFails, Replayed
<1>3. CASE ReportProbe
  BY <1>3, InsertGrid DEF ReportProbe, gridVars, rollVars
<1>4. ASSUME NEW i \in Instance, WriteOutage(i) PROVE GridInv'
  <2>1. PICK rows : Insert(rows)
    BY <1>4 DEF WriteOutage
  <2>2. QED
    BY <1>4, <2>1, InsertGrid DEF WriteOutage, gridVars, rollVars
<1>5. ASSUME NEW i \in Instance, RollUp(i) PROVE GridInv'
  BY <1>5, RollUpGrid
<1>6. ASSUME NEW i \in Instance, NEW d \in Day, Upsert(i, d) PROVE GridInv'
  <2>0. UNCHANGED <<now, checks, recorded, due, running, wellSince>> /\ roll[i].stage = "upserting"
    BY <1>6 DEF Upsert, tableVars
  <2>1. CASE roll[i].left = {d}
    BY <1>6, <2>0, <2>1, UpsertGrid DEF Upsert
  <2>2. CASE roll[i].left # {d}
    <3> DEFINE x == [roll[i] EXCEPT !.left = @ \ {d}]
    <3>1. roll' = [roll EXCEPT ![i] = x] /\ cells' = cells
      BY <1>6, <2>2 DEF Upsert, GridInv, LoopsOK
    <3>2. IsRoll(x) /\ x.stage = roll[i].stage /\ x.rows = roll[i].rows
      BY RollWithout DEF GridInv, LoopsOK
    <3> HIDE DEF x
    <3>3. roll'[i] = x /\ \A j \in Instance \ {i} : roll'[j] = roll[j]
      BY <3>1 DEF GridInv, LoopsOK
    <3>4. LoopsOK'
      BY <2>0, <3>1, <3>2 DEF GridInv, LoopsOK
    <3>5. \A e \in Day : Derive(e)' = Derive(e)
      <4>1. \A e \in Day : RowsOf(e)' = RowsOf(e)
        BY <2>0 DEF RowsOf
      <4>2. QED
        BY <4>1 DEF Derive
    <3>6. RollOK(i)'
      BY <2>0, <3>2, <3>3, <3>5 DEF GridInv, RollOK
    <3>7. ASSUME NEW e \in Day PROVE Owed(e, i)'
      <4>1. NextRead(i)' = NextRead(i) /\ (Fresh(e)' <=> Fresh(e))
        BY <2>0, <3>1, <3>2, <3>3, <3>5 DEF NextRead, Fresh
      <4>2. QED
        BY <2>0, <4>1 DEF GridInv, Owed
    <3>8. QED
      BY <2>0, <3>1, <3>3, <3>4, <3>6, <3>7, LoopGrid DEF GridInv, LoopsOK
  <2>3. QED
    BY <2>1, <2>2
<1>7. ASSUME NEW i \in Instance, RollUpFails(i) PROVE GridInv'
  <2>1. /\ UNCHANGED <<now, checks, recorded, cells, running, due>>
        /\ roll' = [roll EXCEPT ![i] = Idle] /\ wellSince' = [wellSince EXCEPT ![i] = now]
        /\ roll[i].stage = "upserting"
    BY <1>7 DEF RollUpFails, tableVars
  <2>2. running[i] /\ running \in [Instance -> BOOLEAN]
    BY <2>1 DEF GridInv, LoopsOK
  <2>3. QED
    BY <2>1, <2>2, RestartGrid
<1>8. ASSUME NEW i \in Instance, Stop(i) PROVE GridInv'
  BY <1>8, RestartGrid DEF Stop, tableVars, GridInv, LoopsOK
<1>9. ASSUME NEW i \in Instance, Start(i) PROVE GridInv'
  <2>1. /\ UNCHANGED <<now, checks, recorded, cells, roll>>
        /\ due' = [due EXCEPT ![i] = 0] /\ wellSince' = [wellSince EXCEPT ![i] = now]
        /\ running' = [running EXCEPT ![i] = TRUE] /\ ~running[i]
    BY <1>9 DEF Start, tableVars, gridVars
  <2>2. roll[i].stage = "idle"
    BY <2>1 DEF GridInv, LoopsOK
  <2>3. LoopsOK'
    BY <2>1 DEF GridInv, LoopsOK, IsRoll
  <2>4. RollOK(i)'
    BY <2>1, <2>2 DEF RollOK
  <2>5. ASSUME NEW d \in Day PROVE Owed(d, i)'
    BY <2>1, <2>2 DEF Owed, NextRead, GridInv, LoopsOK
  <2>6. QED
    BY <2>1, <2>3, <2>4, <2>5, LoopGrid DEF GridInv, LoopsOK
<1>10. CASE Tick
  BY <1>10, TickGrid
<1>11. QED
  BY <1>2, <1>3, <1>4, <1>5, <1>6, <1>7, <1>8, <1>9, <1>10 DEF Next

\* Whoever reports, replays, recomputes, fails or overwrites, and in whatever order, a
\* day is what its checks say once one instance has worked for a tick since the last
\* of them came (ops.sql:38-47, ops.go:130-131).
THEOREM GridCatchesUpHolds == Spec => []GridCatchesUp
<1>1. GridInv => GridCatchesUp
  <2> SUFFICES ASSUME GridInv, NEW d \in Day, NEW i \in Instance,
                      recorded[d] # Never, now - recorded[d] > AggregateEvery,
                      wellSince[i] # Never, now - wellSince[i] > AggregateEvery,
                      wellSince[i] + AggregateEvery <= recorded[d] + Lookback
               PROVE  cells[d] = Derive(d)
    BY DEF GridCatchesUp
  <2>1. NextRead(i) >= now /\ NextRead(i) \in Int
    BY DEF GridInv, LoopsOK, NextRead
  <2>2. now \in Nat /\ recorded[d] \in Int /\ wellSince[i] \in Int
    BY DEF GridInv, LoopsOK, CellsOK
  <2>3. Owed(d, i)
    BY DEF GridInv
  <2>4. QED
    BY <2>1, <2>2, <2>3 DEF Owed, Fresh
<1>2. QED
  BY <1>1, InitGridInv, NextGridInv, PTL DEF Spec
=============================================================================
