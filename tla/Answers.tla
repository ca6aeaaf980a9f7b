------------------------------ MODULE Answers ------------------------------
(***************************************************************************)
(* What the web front end reads off the api's answers: lib/api/systems.ts, *)
(* training.ts, contributions.ts, health.ts and values.ts, lib/work,       *)
(* lib/state, and the components that draw the result.                     *)
(*                                                                         *)
(* An answer is a record.  A field may be Absent, or Junk: of another type, *)
(* empty, or not finite.  Both happen while two builds of the api overlap  *)
(* (ADR 0035), and no reader trusts the generated type.  Names, sentences  *)
(* and number formats are left out; what is kept of a sentence is which    *)
(* one it is, and of a number whether there is one and what it counts.     *)
(***************************************************************************)
EXTENDS Integers, Sequences, FiniteSets, SequencesExt

CONSTANTS Absent, Junk, NoData

Unusable == {Absent, Junk}

\* nonEmpty, finiteNumber, and the guards of lists: NoData is null.
Read(x) == IF x \in Unusable THEN NoData ELSE x
FiniteOrFalsy(x) == IF x \in Unusable \/ x = 0 THEN NoData ELSE x
Finite(x) == IF x \in Unusable THEN NoData ELSE x
OneOf(x, S) == IF x \in S THEN x ELSE NoData
Rows(x) == IF x \in Unusable THEN <<>> ELSE x
Or(x, y) == IF x = NoData THEN y ELSE x
IsList(x) == x \in Unusable \/ (Len(x) \in Nat /\ DOMAIN x = 1..Len(x))

\* A set in an order: the n-th has n - 1 before it.
InOrder(S, Before(_, _)) ==
    [n \in 1..Cardinality(S) |-> CHOOSE x \in S : Cardinality({y \in S : Before(y, x)}) = n - 1]
\* filter, and one list after the other: the library's are recursive, and the proofs
\* look inside.
Ascending(places) == InOrder(places, LAMBDA i, j : i < j)
Kept(rows, places) == [n \in 1..Cardinality(places) |-> rows[Ascending(places)[n]]]
Filtered(rows, Test(_)) == Kept(rows, {i \in DOMAIN rows : Test(rows[i])})
Earlier(p, q) == p[1] < q[1] \/ (p[1] = q[1] /\ p[2] < q[2])
Flattened(lists) ==
    LET places == InOrder(UNION {{i} \X DOMAIN lists[i] : i \in DOMAIN lists}, Earlier)
    IN [n \in DOMAIN places |-> lists[places[n][1]][places[n][2]]]
CountOf(rows, Test(_)) == Cardinality({i \in DOMAIN rows : Test(rows[i])})
-----------------------------------------------------------------------------
(***************************************************************************)
(* lib/state: the words                                                    *)
(***************************************************************************)
SystemStates == {"live", "in_build", "queued"}
DayStates == {"ok", "degraded", "outage", "nodata"}
TrackStates == {"core", "applied", "learning", "queued"}
Levels == {"l0", "l1", "l2", "l3", "l4"}

ASSUME AnswersAssumption ==
    /\ {Absent, Junk, NoData} \cap (SystemStates \cup DayStates \cup {"online", "public"}) = {}
    /\ NoData \notin Unusable /\ NoData \notin Int
    /\ NoData \notin [all : Nat, live : Nat, in_build : Nat, queued : Nat]

SystemStateWord(state) == OneOf(state, SystemStates)
DayState(state) == Or(OneOf(state, DayStates), "nodata")
HealthStatus(status) == OneOf(status, {"ok", "degraded"})
SiteWord(status) ==
    CASE HealthStatus(status) = NoData -> NoData
      [] HealthStatus(status) = "ok"   -> "online"
      [] OTHER                         -> "degraded"
SystemWord(status) ==
    CASE HealthStatus(status) = NoData -> NoData
      [] HealthStatus(status) = "ok"   -> "live"
      [] OTHER                         -> "degraded"

\* MARKS: the dot beside a word, and DOT_ANSWER: what that dot claims.
Dot == [live |-> "solid", in_build |-> "dash", online |-> "solid", degraded |-> "ring",
        offline |-> "barred", queued |-> "dash", nodata |-> "dash"]
DotAnswer == [solid |-> "measured-good", ring |-> "measured-bad", barred |-> "measured-bad",
              dash |-> "unmeasured"]
Claim(word) == DotAnswer[Dot[Or(word, "nodata")]]

Steps == [core |-> 4, applied |-> 3, learning |-> 2, queued |-> 0]
-----------------------------------------------------------------------------
(***************************************************************************)
(* lib/api/systems.ts: one system                                          *)
(***************************************************************************)

\* How many days carry a measurement, of how many.
Coverage(b) ==
    [measured |-> CountOf(Rows(b.days), LAMBDA d : d.state # "nodata"),
     window   |-> Or(Finite(b.window), Len(Rows(b.days)))]

\* A share in millionths, drawn in hundredths of a percent; Tiny is "< 0.01".
Tiny == -1
ErrorRateValue(rate) ==
    CASE rate = NoData -> NoData
      [] rate # NoData /\ rate > 0 /\ rate < 100 -> Tiny
      [] OTHER -> (rate + 50) \div 100

\* The lower median of the deploys that say how long they took.
DeployMedianValue(deploys) ==
    LET took == SortSeq(Filtered([i \in DOMAIN Rows(deploys) |-> Finite(deploys[i])],
                                  LAMBDA s : s # NoData), <)
    IN IF took = <<>> THEN NoData ELSE took[(Len(took) + 1) \div 2]

\* An entry is listed when it says which, why, what was done and where that is written.
Whole(incident) == /\ Read(incident.id) # NoData
                   /\ Read(incident.why) # NoData
                   /\ Read(incident.postSlug) # NoData
IncidentList(b) == IF b.incidents \in Unusable THEN NoData ELSE Filtered(b.incidents, Whole)
IncidentCountValue(b) == IF b.incidents \in Unusable THEN NoData ELSE Len(b.incidents)

MetricTiles(b) ==
    [uptime    |-> Finite(b.uptime),
     coverage  |-> IF Coverage(b).window = 0 THEN NoData ELSE Coverage(b),
     p95       |-> Finite(b.p95),
     errorRate |-> ErrorRateValue(Finite(b.errorRate)),
     pipeline  |-> DeployMedianValue(b.deploys),
     incidents |-> IncidentCountValue(b)]
Tiles == {"uptime", "p95", "errorRate", "pipeline", "incidents"}

\* A cell is notched only with an incident the log lists.
NotchAny(b, id) == Read(id)
NotchOf(b, id) == IF \E i \in DOMAIN Rows(Or(IncidentList(b), <<>>)) : IncidentList(b)[i].id = Read(id)
                  THEN id ELSE NoData
OpsGrid(b) ==
    [i \in DOMAIN Rows(b.days) |-> [state |-> DayState(b.days[i].state),
                                    downSec |-> Finite(b.days[i].downSec),
                                    incidentId |-> NotchOf(b, b.days[i].incidentId)]]
DaysPerWeek == 7
Weeks(cells) == (Len(cells) + DaysPerWeek - 1) \div DaysPerWeek

DowntimeLabel(sec) == IF Finite(sec) = NoData \/ sec < 0 THEN NoData
                      ELSE IF sec < 60 THEN <<sec, "s">> ELSE <<(sec + 30) \div 60, "min">>

NonEmpty(list) == IF list = <<>> THEN NoData ELSE list
StackLine(b) ==
    NonEmpty(Filtered([i \in DOMAIN Rows(b.stack) |-> Read(b.stack[i])], LAMBDA n : n # NoData))
SourceView(b) ==
    CASE b.access = "public" /\ Read(b.url) # NoData         -> "public"
      [] b.access = "private" /\ b.reason \in {"nda", "internal"} -> "private"
      [] OTHER -> NoData
-----------------------------------------------------------------------------
(***************************************************************************)
(* lib/api/systems.ts, lib/home/systems.ts, lib/work: every system         *)
(***************************************************************************)

SystemRow(s) ==
    [slug  |-> s.slug, no |-> Or(Read(s.systemNo), "--"), name |-> Or(Read(s.name), s.slug),
     state |-> SystemStateWord(s.state), stack |-> StackLine(s), source |-> SourceView(s)]
\* Only a row with an address is one.
SystemRows(b) ==
    LET rows == Filtered(Rows(b.systems), LAMBDA s : Read(s.slug) # NoData)
    IN [i \in DOMAIN rows |-> SystemRow(rows[i])]

\* Three cases: no readable list is not a list of none.
SystemsMeta(b) == IF b.systems \in Unusable THEN NoData ELSE Len(SystemRows(b))
IsListed(b) == b.systems \notin Unusable
WorkMeta(b) == IF IsListed(b) THEN Len(SystemRows(b)) ELSE NoData

\* A chip is a technology: its key has no version and one spelling.
StackKey(entry) == IF Read(entry) = NoData \/ entry.key = "" THEN NoData ELSE entry.key
TagsOf(stack) == {StackKey(stack[i]) : i \in DOMAIN Rows(stack)} \ {NoData}
StackTags(b) == UNION {TagsOf(b.systems[i].stack) : i \in DOMAIN Rows(b.systems)}

UptimeWindowDays == 91
WorkFigure(state, uptime) ==
    IF state # "live" THEN NoData ELSE [window |-> UptimeWindowDays, value |-> Finite(uptime)]
LogEntriesFor(posts, slug) == CountOf(posts, LAMBDA p : p.systemId = slug)
LogLine(n) == IF n <= 0 THEN NoData ELSE n

\* The row, with the fields the list view of the system it came from adds.
FirstWith(b, slug) == CHOOSE i \in DOMAIN b.systems :
                        /\ b.systems[i].slug = slug
                        /\ \A j \in 1..(i - 1) : b.systems[j].slug # slug
WorkEntry(row, system, posts) ==
    [slug |-> row.slug, state |-> row.state, figure |-> WorkFigure(row.state, system.uptime),
     logLine |-> LogLine(LogEntriesFor(posts, row.slug)), tags |-> TagsOf(system.stack)]
WorkEntries(b, posts) ==
    LET rows == SystemRows(b)
    IN [i \in DOMAIN rows |-> WorkEntry(rows[i], b.systems[FirstWith(b, rows[i].slug)], posts)]

StatusCounts(entries) ==
    LET of(state) == CountOf(entries, LAMBDA e : e.state = state)
    IN [all |-> Len(entries), live |-> of("live"), in_build |-> of("in_build"),
        queued |-> of("queued")]
-----------------------------------------------------------------------------
(***************************************************************************)
(* lib/api/training.ts, contributions.ts, health.ts                        *)
(***************************************************************************)

\* A system backs a track when the row says which; a bare note does not.
EvidenceLine(track) ==
    LET backed == CountOf(Rows(track.evidence), LAMBDA e : Read(e) # NoData)
        state == OneOf(track.state, TrackStates)
    IN IF backed = 0 THEN [prefix |-> "none", text |-> Read(track.note)]
       ELSE [prefix |-> Or(state, "evidence"), text |-> backed]
TrackView(track) ==
    LET state == OneOf(track.state, TrackStates)
    IN [state |-> state, steps |-> IF state = NoData THEN 0 ELSE Steps[state],
        evidence |-> EvidenceLine(track)]
Modules(b) ==
    LET cards == Filtered(Rows(b.modules), LAMBDA m : Read(m.no) # NoData /\ Read(m.title) # NoData)
        tracks(m) == Filtered(Rows(m.tracks), LAMBDA t : Read(t.name) # NoData)
    IN [i \in DOMAIN cards |->
          [j \in DOMAIN tracks(cards[i]) |-> TrackView(tracks(cards[i])[j])]]
TrainingMeta(b) == [tracks |-> Finite(b.trackCount), systems |-> Finite(b.evidenceSystems)]

\* A day without a readable date has no row to stand in; a week without a day no column.
GraphCells(week) ==
    LET days == Filtered(Rows(week), LAMBDA d : Read(d.date) # NoData)
    IN [i \in DOMAIN days |-> [date |-> days[i].date, level |-> OneOf(days[i].level, Levels),
                               startsWeek |-> i = 1]]
GraphView(b) ==
    LET weeks == [w \in DOMAIN Rows(b.weeks) |-> GraphCells(b.weeks[w])]
    IN [columns |-> CountOf(weeks, LAMBDA w : w # <<>>), cells |-> Flattened(weeks),
        total |-> Finite(b.totalContributions), ageSec |-> Finite(b.cacheAgeSec)]

NoHealth == [build |-> NoData, uptime |-> NoData, status |-> NoData]
FooterHealth(b) == [build |-> Read(b.sha), uptime |-> Finite(b.uptime), status |-> SiteWord(b.status)]
=============================================================================
