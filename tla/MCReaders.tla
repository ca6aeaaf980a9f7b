----------------------------- MODULE MCReaders -----------------------------
(* Instances of Header: the regions open at once, the answers the api gives, and   *)
(* what the visitor of each behaviour touches.                                     *)
EXTENDS Header

CONSTANT t1     \* a tab

MCKeys == {"system91", "system30", "systemList", "trainingLog", "calendar", "health"}
MCView == [terminal |-> "terminal", terminal2 |-> "terminal", footer |-> "footer",
           metrics |-> "metrics", ops |-> "ops", crumb |-> "crumb", eyebrow |-> "eyebrow",
           rail |-> "rail", strip |-> "strip",
           systems |-> "systems", work |-> "work", training |-> "training", graph |-> "graph"]
MCRegion == DOMAIN MCView
MCKeyOf == [terminal |-> "health", terminal2 |-> "health", footer |-> "health",
            metrics |-> "system91", ops |-> "system91", crumb |-> "system91",
            eyebrow |-> "system91", rail |-> "system91", strip |-> "system30",
            systems |-> "systemList", work |-> "systemList", training |-> "trainingLog",
            graph |-> "calendar"]
(* two entries of one day, an older one with a higher number, one nobody finished *)
W(w) == [word |-> w, caps |-> FALSE]
File(no, slug, title, published, tags, system) ==
    [named |-> TRUE, no |-> no, slug |-> slug, title |-> title, deck |-> {W("deck")}, summary |-> {W("s")},
     published |-> published, updated |-> Absent, tags |-> tags, systemId |-> system]
MCDir == {File(1, "post", {[word |-> "First", caps |-> TRUE]}, 202502, <<"go">>, "site"),
          File(2, "twin", {W("second")}, 202609, <<"ops", "go">>, "talos"),
          File(3, "pair", {W("third"), W("second")}, 202609, <<"ops">>, "site"),
          File(4, "late", {W("fourth")}, 202431, <<"web">>, Absent),
          File(5, "torn", {W("fifth")}, Junk, <<"go">>, Absent),
          [File(6, "note", {W("sixth")}, 202401, <<"go">>, Absent) EXCEPT !.named = FALSE]}
Queries == {{[word |-> w, caps |-> c]} \cup pad : w \in {"First", "second", "nowhere"}, c \in BOOLEAN,
                                              pad \in {{}, {W("")}}} \cup {{}, {W("")}}

Quiet == [open |-> {}, replies |-> {}, dir |-> MCDir, controls |-> {}, typed |-> {}, pages |-> {}, queries |-> {},
          tabs |-> {t1}, stored |-> {Noir}, blocked |-> {FALSE}]
Scene(regions, replies) == [Quiet EXCEPT !.open = regions, !.replies = replies]
(* a visitor who follows links, from any language and from addresses nobody links *)
Walks(dir) == [Quiet EXCEPT !.dir = dir, !.controls = {"links"},
                 !.typed = {<<>>, <<"de">>, <<"en", "about">>, <<"en", "en">>, <<"fr", "nope">>, <<"blog", "draft">>}]
Themed == [Quiet EXCEPT !.controls = {"theme"}, !.tabs = Tab, !.typed = {<<>>, <<"de">>}, !.stored = {Noir, "mocha", "neon"},
             !.blocked = BOOLEAN]
Searches == [Quiet EXCEPT !.controls = {"log"}, !.queries = Queries]
Opens(menu, pages) == [Quiet EXCEPT !.dir = {}, !.controls = {menu}, !.pages = pages, !.typed = {<<"de">>}]
Filters == [Scene({"work"}, {"two", "torn"}) EXCEPT !.dir = {f \in MCDir : f.no = 1}, !.controls = {"work"},
              !.typed = {<<"work">>, <<"de", "work">>}]
Studies == [Scene({"ops"}, {"busy", "new"}) EXCEPT !.typed = {<<"work", "site">>, <<"fr", "work", "site">>}]
MCScenes ==
   {Scene({"terminal", "terminal2"}, {"well", "ill"}), Scene({"footer"}, {"well", "ill", "older"}),
    Scene({"terminal"}, {"well", "older"}),
    Scene({"metrics", "ops"}, {"busy", "new"}), Scene({"metrics"}, {"busy", "planned"}),
    Scene({"ops"}, {"unwritten", "planned"}), Scene({"rail", "strip"}, {"busy", "month"}),
    Scene({"crumb", "eyebrow"}, {"busy", "new"}), Scene({"crumb", "eyebrow", "rail"}, {"busy"}),
    Scene({"rail"}, {"new", "planned"}), Scene({"work"}, {"two", "none", "torn"}),
    Scene({"systems"}, {"two", "none", "torn"}), Scene({"training"}, {"log", "blank"}), Scene({"graph"}, {"year", "holes"}),
    Walks(MCDir), Walks({}), Walks(NoData), Themed, Searches, Filters, Studies, Opens("menu", {<<>>, <<"about">>}), Opens("list", {<<>>})}
MCReplies == [system91 |-> {"busy", "new", "unwritten", "planned"}, system30 |-> {"month", "idle"},
              systemList |-> {"two", "none", "torn"}, trainingLog |-> {"log", "blank"},
              calendar |-> {"year", "holes"}, health |-> {"well", "ill", "older"}]
MCRevalidate == [k \in MCKeys |-> 2]
MCExpire == [k \in MCKeys |-> 3]

Day(state, id) == [state |-> state, downSec |-> 0, incidentId |-> id]
Written(id) == [id |-> id, why |-> "cause and fix", postSlug |-> "post"]
Row(slug, state, stack) ==
    [slug |-> slug, systemNo |-> "01", name |-> "name", state |-> state, stack |-> stack,
     access |-> "public", url |-> "url", reason |-> Absent, uptime |-> 0]
Golang == [key |-> "go"]
Version == [key |-> ""]

MCContent ==
   [(* a live system with a day of every kind, an incident nobody wrote up, and zeros *)
    busy |-> [state |-> "live", systemNo |-> "02", name |-> "site", stack |-> <<Golang, Junk>>,
              access |-> "private", reason |-> "nda", window |-> 91, uptime |-> 0, p95 |-> 0,
              errorRate |-> 99, deploys |-> <<60, Absent, 40, 90>>,
              incidents |-> <<Written("INC-1"), [id |-> "INC-2", why |-> Absent, postSlug |-> "p"],
                              [Written("INC-3") EXCEPT !.postSlug = "gone"]>>,
              days |-> <<Day("outage", "INC-1"), Day("degraded", "INC-2"), Day("nodata", Absent),
                         Day("ok", "INC-9"), Day("ok", Junk), Day("ok", Absent), Day("ok", Absent),
                         Day("ok", Absent)>>],
    (* live since yesterday: nothing measured, nothing happened *)
    new |-> [state |-> "live", window |-> 91, days |-> <<Day("nodata", Absent)>>, incidents |-> <<>>,
             deploys |-> <<>>, uptime |-> Absent, p95 |-> Junk, errorRate |-> Absent],
    (* live, with one incident and no word on it *)
    unwritten |-> [state |-> "live", window |-> 91, days |-> <<Day("outage", "INC-4")>>, deploys |-> <<>>,
                   incidents |-> <<[id |-> "INC-4", why |-> Junk, postSlug |-> "post"]>>],
    (* not live: the contract sends no arrays *)
    planned |-> [state |-> "queued", window |-> 91, systemNo |-> "03", name |-> "plan"],
    month |-> [state |-> "live", window |-> 30, days |-> <<Day("ok", Absent)>>, incidents |-> <<>>],
    idle |-> [state |-> "in_build", window |-> 30],
    two |-> [systems |-> <<Row("site", "live", <<Golang, Version>>), Row("tool", "in_build", <<>>)>>],
    none |-> [systems |-> <<>>],
    (* rows of a build this page does not know *)
    torn |-> [systems |-> <<Row(Absent, "live", <<[key |-> "rust"]>>), Row("site", "paused", Junk),
                            Row("tool", "queued", <<Golang>>)>>],
    log |-> [trackCount |-> 2, evidenceSystems |-> 0,
             modules |-> <<[no |-> "1", title |-> "t", tracks |->
                              <<[name |-> "go", state |-> "core", evidence |-> <<"site">>, note |-> Absent],
                                [name |-> "k8s", state |-> "someday", evidence |-> Absent, note |-> "n"]>>],
                           [no |-> Absent, title |-> "t", tracks |-> Absent]>>],
    blank |-> [trackCount |-> Junk, modules |-> Absent],
    year |-> [totalContributions |-> 0, cacheAgeSec |-> 60,
              weeks |-> <<<<[date |-> "mon", level |-> "l0"], [date |-> "tue", level |-> "l4"]>>,
                          <<[date |-> "wed", level |-> "l9"]>>>>],
    holes |-> [weeks |-> <<Absent, <<[date |-> Junk, level |-> "l1"], [date |-> "fri", level |-> "l1"]>>>>],
    well |-> [status |-> "ok", sha |-> "sha", uptime |-> 0],
    ill |-> [status |-> "degraded", sha |-> "sha", uptime |-> Absent],
    older |-> [status |-> "fine", sha |-> Junk, uptime |-> Junk]]
=============================================================================
