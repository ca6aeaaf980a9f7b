------------------------------ MODULE Regions ------------------------------
(***************************************************************************)
(* The streamed regions of the web front end and what they draw: the       *)
(* components of components/home, components/case and components/work, and *)
(* the footer's cells, over what their readers return.  One component      *)
(* draws the wait, the failure and the answer (lib/state/read.ts).         *)
(***************************************************************************)
EXTENDS Readers, Journal

CONSTANTS
    View,       \* [Region -> the component that draws it]
    Content     \* [Body -> what the answer says]

Views == {"metrics", "ops", "crumb", "eyebrow", "rail", "strip", "systems", "work", "training",
          "graph", "footer", "terminal"}

ASSUME RegionsAssumption == View \in [Region -> Views]

Fields == {"slug", "systemNo", "name", "state", "stack", "access", "url", "reason", "uptime", "p95",
           "errorRate", "window", "days", "incidents", "deploys", "systems", "modules",
           "trackCount", "evidenceSystems", "weeks", "totalContributions", "cacheAgeSec",
           "sha", "status"}

\* What a region knows of its answer: lib/state/read.ts.
KindOf(r) == CASE region[r].at \in {"waiting", "asking"} -> "waiting"
               [] region[r].at = "down" -> "down"
               [] OTHER -> "ok"
\* readData(read), and `(body ?? {})`.
Nothing == [f \in Fields |-> Absent]
Says(b) == [f \in Fields |-> IF f \in DOMAIN Content[b] THEN Content[b][f] ELSE Absent]
\* What stands in a field, if anything does.
Incidents == Seq([id : STRING \cup Unusable, why : STRING \cup Unusable, postSlug : STRING \cup Unusable])
ASSUME ContentAssumption ==
    /\ NoData \notin Incidents
    /\ \A b \in Body :
          /\ \A f \in Fields : Says(b)[f] # NoData
          /\ \A f \in {"days", "systems", "weeks"} : IsList(Says(b)[f])
          /\ \A w \in DOMAIN Rows(Says(b).weeks) : IsList(Says(b).weeks[w])
          /\ Says(b).errorRate \in Unusable \cup Int /\ Says(b).incidents \in Unusable \cup Incidents
Data(r) == IF KindOf(r) = "ok" THEN Says(region[r].body) ELSE Nothing
\* What this image holds of the log.
Log == PostsOrNull(scene.dir)
-----------------------------------------------------------------------------
(***************************************************************************)
(* The components                                                          *)
(***************************************************************************)

\* Which panel stands under the tiles; more than one measured tile needs no note.
MetricRow(kind, b) ==
    LET tiles == MetricTiles(b)
        measured == Cardinality({t \in Tiles : tiles[t] # NoData})
    IN [tiles |-> tiles,
        panel |-> CASE kind = "waiting" -> "loading"
                    [] kind = "down"    -> "down"
                    [] OTHER            -> IF measured > 1 THEN "tiles" ELSE "empty on purpose"]

\* The grid and the log wait together; without a log the list is empty.
OpsPanelByBody(kind, b) ==
    IF IncidentList(b) = NoData THEN "down" ELSE IF IncidentList(b) = <<>> THEN "no incidents" ELSE "log"
OpsPanel(kind, b) ==
    CASE kind = "waiting" -> "loading"
      [] kind = "down"    -> "down"
      [] OTHER            -> IF Or(IncidentList(b), <<>>) = <<>> THEN "no incidents" ELSE "log"
IncidentLog(incidents) == {incidents[i].id : i \in DOMAIN incidents}
OpsSection(kind, b) ==
    LET panel == OpsPanel(kind, b)
    IN [cells |-> OpsGrid(b), weeks |-> Weeks(OpsGrid(b)), panel |-> panel,
        log |-> IF panel = "log" THEN IncidentLog(IncidentList(b)) ELSE {},
        posts |-> IF panel = "log" THEN PostMortemHrefs(Log, IncidentList(b)) ELSE {}]

\* The homepage's regions draw their picture when the answer holds one.
PanelOf(kind, picture) == IF picture # <<>> THEN "picture"
                          ELSE IF kind = "waiting" THEN "loading" ELSE "down"
OpsStrip(kind, b) == [cells |-> OpsGrid(b), panel |-> PanelOf(kind, OpsGrid(b))]
Systems(kind, b) == [meta |-> SystemsMeta(b), rows |-> SystemRows(b),
                     panel |-> PanelOf(kind, SystemRows(b))]
TrainingLog(kind, b) == [meta |-> TrainingMeta(b), cards |-> Modules(b),
                         panel |-> PanelOf(kind, Modules(b))]
ContributionGraph(kind, b) == [view |-> GraphView(b), panel |-> PanelOf(kind, GraphView(b).cells)]

\* Four tiles over the rows, or one that says nothing was counted.
WorkHeader(counts) == IF counts = NoData THEN <<NoData>>
                      ELSE <<counts.all, counts.live, counts.in_build, counts.queued>>
WorkPage(kind, b, entries, counts) ==
    [tiles |-> WorkHeader(counts), counts |-> counts, entries |-> entries, chips |-> StackTags(b),
     counter |-> WorkMeta(b),
     panel |-> IF counts = NoData THEN IF kind = "waiting" THEN "loading" ELSE "down"
               ELSE IF entries = <<>> THEN "none listed" ELSE "rows"]
WorkList(kind, b) ==
    LET entries == WorkEntries(b, PostsIn(Log))
    IN WorkPage(kind, b, entries, IF IsListed(b) THEN StatusCounts(entries) ELSE NoData)

FooterCells(kind, b) == IF kind = "ok" THEN FooterHealth(b) ELSE NoHealth
TerminalPanel(kind, b) == IF kind = "ok" THEN SystemWord(b.status) ELSE NoData

\* The crumb, the eyebrow and the rail of a case study: three regions, each with a read
\* of its own.  Without an answer the first two name the address; after one the eyebrow
\* falls back only from what is not there (`??`), and the crumb not at all.
Slug == "slug"
CaseCrumb(kind, b) == IF kind = "ok" THEN <<b.systemNo, b.name>> ELSE <<Slug>>
CaseEyebrow(b) == [no    |-> IF b.systemNo = Absent THEN NoData ELSE b.systemNo,
                   name  |-> IF b.name = Absent THEN Slug ELSE b.name,
                   state |-> SystemStateWord(b.state)]
SpecRail(b) == [state |-> SystemStateWord(b.state), stack |-> StackLine(b), source |-> SourceView(b)]
-----------------------------------------------------------------------------
(***************************************************************************)
(* Properties                                                              *)
(***************************************************************************)
Drawing(view) == {r \in Region : View[r] = view /\ region[r].at # "closed"}

\* A region says it is fetching while it waits and only then, "that endpoint did not
\* answer" after a failure, and speaks of the window or of the list only with an answer
\* in hand (lib/state/read.ts:3-15, MetricRow.tsx, work/WorkList.tsx, home/Systems.tsx;
\* the homepage says it of an empty list too, Systems.tsx:41-45).  What that answer says
\* of the window is another matter: the log's panel says NO INCIDENTS of every answer in
\* which no incident is whole, of one without a list as well (IncidentLog.tsx:50), and
\* the tile of the same answer alone tells these apart: it has no number where there is
\* no list, and counts the incidents the log leaves out where there is one.
Unlisted(b) == CountOf(Rows(b.incidents), LAMBDA incident : ~Whole(incident))
SentenceFits(kind, panel, downToo, claims) ==
    /\ panel = "loading" <=> kind = "waiting"
    /\ panel = "down" => kind = "down" \/ downToo
    /\ panel \in claims => kind = "ok"
PanelTellsTheTruth ==
    /\ \A r \in Drawing("metrics") :
          SentenceFits(KindOf(r), MetricRow(KindOf(r), Data(r)).panel, FALSE, {"empty on purpose"})
    /\ \A r \in Drawing("ops") :
          LET b == Data(r)  panel == OpsSection(KindOf(r), b).panel IN
          /\ SentenceFits(KindOf(r), panel, FALSE, {"no incidents", "log"})
          /\ panel = "log" => \E i \in DOMAIN Rows(b.incidents) : Whole(b.incidents[i])
          /\ panel = "no incidents" =>
                MetricTiles(b).incidents = IF b.incidents \in Unusable THEN NoData ELSE Unlisted(b)
    /\ \A r \in Drawing("work") :
          LET b == Data(r) IN
          /\ SentenceFits(KindOf(r), WorkList(KindOf(r), b).panel, b.systems \in Unusable,
                          {"none listed", "rows"})
          /\ WorkList(KindOf(r), b).panel = "none listed" => b.systems \notin Unusable
    /\ \A r \in Drawing("systems") :
          SentenceFits(KindOf(r), Systems(KindOf(r), Data(r)).panel, SystemRows(Data(r)) = <<>>, {"picture"})

SameAnswer(r, s) == KindOf(r) = "ok" /\ KindOf(s) = "ok" /\ region[r].body = region[s].body

\* Every row of the list has an address, and no two the same.
Addressed(systems) ==
    \A i, j \in DOMAIN systems : Read(systems[i].slug) # NoData /\ (systems[i].slug = systems[j].slug => i = j)

\* The counts a page prints, the rows it draws and the marks that link them agree
\* where they come from one answer: a notch is an incident the log lists, the tiles of
\* SYS.02 and the counter count the rows under them, a chip leaves a row, a week drawn
\* is a column counted.  Two regions of a case study agree once they hold the same
\* answer: the incident tile counts what the log lists and what it leaves out, and the
\* crumb and the eyebrow name one system, where the answer names it at all.
PictureAgrees ==
    /\ \A r \in Drawing("ops") :
          LET ops == OpsSection(KindOf(r), Data(r)) IN
          \A i \in DOMAIN ops.cells : ops.cells[i].incidentId \in ops.log \cup {NoData}
    /\ \A m \in Drawing("metrics"), o \in Drawing("ops") : SameAnswer(m, o) =>
          LET tile == MetricRow("ok", Data(m)).tiles.incidents IN
          tile # NoData => tile = Len(IncidentList(Data(o))) + Unlisted(Data(o))
    /\ \A c \in Drawing("crumb"), e \in Drawing("eyebrow") : SameAnswer(c, e) =>
          LET eyebrow == CaseEyebrow(Data(e)) IN
          eyebrow.no # NoData /\ Data(e).name # Absent => CaseCrumb("ok", Data(c)) = <<eyebrow.no, eyebrow.name>>
    /\ \A r \in Drawing("work") :
          LET work == WorkList(KindOf(r), Data(r))
              shown(Test(_)) == CountOf(work.entries, Test)
          IN work.counts # NoData =>
                /\ work.counter = work.counts.all /\ work.counts.all = Len(work.entries)
                /\ work.counts.live + work.counts.in_build + work.counts.queued
                     + shown(LAMBDA e : e.state = NoData) = work.counts.all
                /\ work.tiles[1] = Len(work.entries)
                /\ work.tiles[1] >= work.tiles[2] + work.tiles[3] + work.tiles[4]
                /\ \A chip \in work.chips :
                      \/ shown(LAMBDA e : chip \in e.tags) > 0
                      \/ ~Addressed(Data(r).systems)
    /\ \A r \in Drawing("graph") :
          LET view == ContributionGraph(KindOf(r), Data(r)).view IN
          view.columns = CountOf(view.cells, LAMBDA c : c.startsWeek)

\* A figure or a claim stands in a region only if the answer that region holds carries
\* it, and every one it carries stands there: zero is a measurement, an absent field is
\* none, and a good dot claims a good measurement (values.ts, systems.ts:6-15,
\* health.ts:92-138, words.ts:170-294, case/Live.tsx:82-120).  The crumb is not among
\* them: it prints what the answer leaves out (Live.tsx:77).
DrawnIsMeasured ==
    /\ \A r \in Drawing("metrics") :
          LET tiles == MetricRow(KindOf(r), Data(r)).tiles  b == Data(r) IN
          /\ \A f \in {"uptime", "p95", "errorRate", "incidents"} :
                tiles[f] = NoData <=> b[f] \in Unusable
          /\ tiles.coverage # NoData => tiles.coverage.measured <= Len(Rows(b.days))
    /\ \A r \in Drawing("footer") :
          LET cells == FooterCells(KindOf(r), Data(r)) IN
          /\ cells.uptime = NoData <=> Data(r).uptime \in Unusable
          /\ Claim(cells.status) = "measured-good" <=> Data(r).status = "ok"
    /\ \A r \in Drawing("terminal") :
          Claim(TerminalPanel(KindOf(r), Data(r))) = "measured-good" <=> Data(r).status = "ok"
    /\ \A r \in Drawing("rail") :
          LET rail == SpecRail(Data(r)) IN
          /\ Claim(rail.state) = "measured-good" <=> Data(r).state = "live"
          /\ rail.source = "public" => Data(r).url \notin Unusable
    /\ \A r \in Drawing("eyebrow") :
          LET eyebrow == CaseEyebrow(Data(r)) IN
          /\ Claim(eyebrow.state) = "measured-good" <=> Data(r).state = "live"
          /\ eyebrow.no = NoData <=> Data(r).systemNo = Absent
    /\ \A r \in Drawing("training") :
          \A i \in DOMAIN Modules(Data(r)) : \A j \in DOMAIN Modules(Data(r))[i] :
             LET track == Modules(Data(r))[i][j] IN track.state = NoData => track.steps = 0
=============================================================================
