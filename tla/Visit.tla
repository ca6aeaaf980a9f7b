------------------------------- MODULE Visit -------------------------------
(***************************************************************************)
(* A visit of the web front end: the addresses its tabs go through, the    *)
(* links each page draws (app/, components/), the two filter islands       *)
(* (components/blog/BlogFilters.tsx, components/work/WorkFilters.tsx), and  *)
(* the theme (lib/theme.ts).  The regions of Regions stream meanwhile: the *)
(* work island filters the rows of the region that /work streams.  What    *)
(* moves a tab is put together with the header's two menus in Header.      *)
(*                                                                         *)
(* A scene says which of the controls its visitor uses and which addresses *)
(* are typed.  Regions and islands are not tied to the address a tab       *)
(* stands at: an address only hides them.  A query is one word.            *)
(***************************************************************************)
EXTENDS Regions, Addresses

CONSTANTS
    Tab,
    CaseStudies,    \* CASE_STUDIES, by slug
    SiteSystem,     \* the system this site is, which its own pages point at
    ThemeIds,       \* THEME_IDS
    Noir            \* no theme attribute, no stored key

ASSUME VisitAssumption ==
    /\ SiteSystem \in CaseStudies /\ CaseStudies \subseteq STRING
    /\ Noir \notin ThemeIds
    /\ \A s \in Scenes : IsDirectory(s.dir) /\ s.typed \subseteq Address

VARIABLES
    at,         \* a tab's address, Elsewhere before the first
    theme,      \* the html element's data-theme
    stored,     \* localStorage's ts.theme, which may hold a name nobody knows
    blocked,    \* storage throws
    picked,     \* the last theme a visitor picked, or the one stored before
    caughtUp,   \* tabs loaded or picked in since that pick
    blog, work  \* the islands' state

visitVars == <<at, theme, stored, blocked, picked, caughtUp, blog, work>>
allVars == <<vars, visitVars>>
-----------------------------------------------------------------------------
(***************************************************************************)
(* The pages and their links                                               *)
(***************************************************************************)
Page(name) == <<name>>
CaseStudyPath(slug) == <<"work", slug>>
PostPath(slug) == <<"blog", slug>>
Slugs(posts) == {p.slug : p \in Range(posts)}

FixedPages == {<<>>} \cup {Page(n) : n \in {"work", "blog", "about", "contact", "imprint", "privacy"}}
ASSUME PagesAssumption == FixedPages \subseteq Address
Paths == FixedPages \cup {CaseStudyPath(s) : s \in CaseStudies} \cup {PostPath(s) : s \in Slugs(PostsIn(Log))}

IndexablePaths == {p \in Paths : p = Page("blog") => HasLog(Log)}

\* What the router finds behind an address nothing redirects.
Found(address) == Served(address) # <<>> /\ Head(Served(address)) \in Locale /\ Tail(Served(address)) \in Paths
FileNames == {"sitemap.xml", "feed.xml", "og.png", "robots.txt"}
Answers200(address) ==
    CanonicalRedirect(address) = Elsewhere /\ (Found(address) \/ address \in {Page(n) : n \in FileNames})

\* caseStudyFor, then caseStudyPath.
CaseStudyHref(slug) == {CaseStudyPath(s) : s \in {slug} \cap CaseStudies}
\* systemEntries: where a row leads.
RowHref(row) == CaseStudyHref(row.slug)
RowHrefs(view) == UNION {RowHref(e) : e \in
                    UNION {Range(SystemRows(Data(r))) : r \in Drawing(view)}}

NavPaths == {e.href : e \in NavEntries(HasLog(Log))}
ChromePaths == {<<>>, Page("privacy"), Page("imprint")} \cup NavPaths
LogEntryPaths == {PostPath(s) : s \in Slugs(LogEntries(Log))}
HomePaths == {Page("work"), Page("about")}
             \cup IF HasLog(Log) THEN {Page("blog")} \cup CaseStudyHref(SiteSystem) \cup LogEntryPaths ELSE {}
BlogPaths == CaseStudyHref(SiteSystem)
             \cup IF PostsIn(Log) = <<>> THEN {Page("work")} ELSE {PostPath(s) : s \in Slugs(PostsIn(Log))}
PostPaths(slug) == {Page("blog")} \cup {PostPath(s) : s \in Neighbours(PostsIn(Log), slug)}
                   \cup CaseStudyHref(PostFor(Log, slug).systemId)
\* The incidents' post-mortems stand where the region stands.
IncidentPaths == {PostPath(s) : s \in UNION {OpsSection(KindOf(r), Data(r)).posts : r \in Drawing("ops")}}
MountedRoutes == {<<>>} \cup {Page(n) : n \in {"work", "blog", "about", "contact"}}

\* The paths a page links in its own language.
BodyPaths(path) ==
    CASE path = <<>>                    -> HomePaths
      [] path = Page("work")            -> {<<>>, Page("contact")}
      [] path = Page("blog")            -> BlogPaths
      [] path = Page("about")           -> CaseStudyHref(SiteSystem)
      [] path = Page("contact")         -> {}
      [] path = Page("imprint")         -> {Page("privacy")}
      [] path = Page("privacy")         -> {Page("imprint")}
      [] path \in {CaseStudyPath(s) : s \in CaseStudies} -> {Page("work")} \cup IncidentPaths
      [] OTHER                          -> PostPaths(path[2])
PageLinks(address) ==
    {LocaleHref(LocaleOf(address), p) : p \in ChromePaths \cup BodyPaths(StripLocale(address))}

\* The rows' exits, as written.
RowLinks(address) ==
    CASE StripLocale(address) = <<>>         -> RowHrefs("systems")
      [] StripLocale(address) = Page("work") -> RowHrefs("work")
      [] OTHER                               -> {}

\* The menu keeps the page, the footer leads home; both leave the language.
LanguageLinks(address) == {SwitchLocale(address, m) : m \in Locale} \cup {LocaleHref(m, <<>>) : m \in Locale}

\* The page for an address without one is English.
NotFoundLinks == {LocaleHref(DefaultLocale, p) : p \in MountedRoutes \cup {Page("privacy"), Page("imprint")}}

Links(address) == IF Found(address) THEN PageLinks(address) \cup RowLinks(address) \cup LanguageLinks(address)
                  ELSE NotFoundLinks

\* What its head says (alternatesFor, seoFor): its own address, the address of every
\* language, the feed and the card.
Canonical(address) == LocaleHref(LocaleOf(address), StripLocale(address))
Hreflang(address) == [m \in Locale |-> LocaleHref(m, StripLocale(address))]
XDefault(address) == LocaleHref(DefaultLocale, StripLocale(address))
Indexable(address) == StripLocale(address) \in IndexablePaths
\* The pages its JSON-LD names: a profile and a contact page name themselves, a list
\* itself and its entries, but only a list that has some.
DescribedUrls(address) ==
    LET path == StripLocale(address)
        Listed(entries) == {LocaleHref(LocaleOf(address), p) : p \in entries \cup {path}} IN
    CASE path \in {Page("about"), Page("contact")}                -> Listed({})
      [] path = Page("blog") /\ PostsIn(Log) # <<>>               -> Listed({PostPath(s) : s \in Slugs(PostsIn(Log))})
      [] path = Page("work") /\ \E r \in Drawing("work") : SystemRows(Data(r)) # <<>> -> Listed(RowHrefs("work"))
      [] OTHER                                                    -> {}
HeadUrls(address) ==
    {Canonical(address), XDefault(address)} \cup Range(Hreflang(address))
        \cup {Page("feed.xml"), Page("og.png")} \cup DescribedUrls(address)

SitemapUrls == {LocaleHref(m, p) : m \in Locale, p \in IndexablePaths}
FeedLinks == {PostPath(s) : s \in Slugs(PostsIn(Log))} \cup {Page("blog"), Page("feed.xml")}
-----------------------------------------------------------------------------
(***************************************************************************)
(* The theme                                                               *)
(***************************************************************************)

\* THEME_SNIPPET: a stored name counts only if it is one of the list.
Snippet == IF ~blocked /\ stored \in ThemeIds THEN stored ELSE Noir
\* storeTheme: Noir has no name, so its key is removed.
StoreThemeUnlessNoir(id) == IF blocked \/ id = Noir THEN stored ELSE id
StoreTheme(id) == IF blocked THEN stored ELSE id

VisitInit ==
    /\ Init
    /\ at = [t \in Tab |-> Elsewhere]
    /\ theme = [t \in Tab |-> Noir]
    /\ stored \in scene.stored /\ blocked \in scene.blocked
    /\ picked = Snippet
    /\ caughtUp = {}
    /\ blog = BlogNoFilter /\ work = WorkNoFilter

\* A document arrives: everything React held is gone, the snippet runs first.
Arrives(t, address) ==
    /\ at' = [at EXCEPT ![t] = address]
    /\ theme' = [theme EXCEPT ![t] = Snippet]
    /\ caughtUp' = caughtUp \cup {t}
    /\ UNCHANGED <<vars, stored, blocked, picked>>

\* An address is typed, or the page reloaded.
Load(t) ==
    /\ t \in scene.tabs
    /\ \E address \in scene.typed \cup ({at[t]} \ {Elsewhere}) : Arrives(t, address)
    /\ blog' = BlogNoFilter /\ work' = WorkNoFilter

\* proxy: the 308 of an address that names the default language.
Redirect(t) ==
    /\ at[t] # Elsewhere /\ CanonicalRedirect(at[t]) # Elsewhere
    /\ Arrives(t, CanonicalRedirect(at[t]))
    /\ UNCHANGED <<blog, work>>

\* A soft navigation (next/link, router.push): the document stays.  A route left is
\* kept hidden or dropped (cacheComponents), and so is what its island held; the
\* layout of another language is another one, and so may its html element be.
Go(t, address) ==
    /\ at' = [at EXCEPT ![t] = address]
    /\ IF LocaleOf(address) = LocaleOf(at[t])
       THEN UNCHANGED <<theme, caughtUp>>
       ELSE /\ theme' \in {theme, [theme EXCEPT ![t] = Noir]}
            /\ caughtUp' = caughtUp \ {t}
    /\ blog' \in {blog, BlogNoFilter} /\ work' \in {work, WorkNoFilter}
    /\ UNCHANGED <<vars, stored, blocked, picked>>

\* pick: applyTheme, then storeTheme.
Pick(t) ==
    /\ "theme" \in scene.controls /\ at[t] # Elsewhere /\ CanonicalRedirect(at[t]) = Elsewhere
    /\ \E id \in ThemeIds \cup {Noir} :
          /\ theme' = [theme EXCEPT ![t] = id]
          /\ stored' = StoreTheme(id)
          /\ picked' = id
    /\ caughtUp' = {t}
    /\ UNCHANGED <<vars, at, blocked, blog, work>>
-----------------------------------------------------------------------------
(***************************************************************************)
(* The islands                                                             *)
(***************************************************************************)
UnchangedButIslands == UNCHANGED <<vars, at, theme, stored, blocked, picked, caughtUp>>

LogRowsShown == BlogFilter(PostsIn(Log), BlogAxis(blog))
OnBlog == "log" \in scene.controls /\ PostsIn(Log) # <<>>
PressTag ==
    /\ OnBlog
    /\ \E chip \in TagChips(PostsIn(Log)) \cup {[key |-> AllTags]} : blog' = [blog EXCEPT !.tag = chip.key]
    /\ UNCHANGED work /\ UnchangedButIslands
Type ==
    /\ OnBlog
    /\ \E typed \in scene.queries : blog' = [blog EXCEPT !.query = typed]
    /\ UNCHANGED work /\ UnchangedButIslands
ResetBlog ==
    /\ OnBlog /\ LogRowsShown = <<>>
    /\ blog' = BlogNoFilter
    /\ UNCHANGED work /\ UnchangedButIslands

\* The work island is mounted while its region has rows to filter.
WorkIsland(r) == WorkList(KindOf(r), Data(r))
OnWork(r) == "work" \in scene.controls /\ r \in Drawing("work") /\ WorkIsland(r).panel = "rows"
WorkRowsShown(r) == WorkFilter(WorkIsland(r).entries, work)
PressStatus ==
    /\ \E r \in Region : OnWork(r)
    /\ \E status \in SystemStates \cup {"all"} : work' = [work EXCEPT !.status = status]
    /\ UNCHANGED blog /\ UnchangedButIslands
PressStack ==
    /\ \E r \in Region : OnWork(r) /\ WorkIsland(r).chips # {}
                         /\ \E stack \in WorkIsland(r).chips \cup {AnyStack} : work' = [work EXCEPT !.stack = stack]
    /\ UNCHANGED blog /\ UnchangedButIslands
ResetWork ==
    /\ \E r \in Region : OnWork(r) /\ WorkRowsShown(r) = <<>> /\ WorkIsFiltered(work)
    /\ work' = WorkNoFilter
    /\ UNCHANGED blog /\ UnchangedButIslands
-----------------------------------------------------------------------------
\* Everything but the moves of a tab.
VisitNext ==
    \/ Next /\ UNCHANGED visitVars
    \/ \E t \in Tab : Pick(t)
    \/ PressTag \/ Type \/ ResetBlog
    \/ PressStatus \/ PressStack \/ ResetWork
-----------------------------------------------------------------------------
(***************************************************************************)
(* Properties                                                              *)
(***************************************************************************)
Here == {at[t] : t \in Tab} \ {Elsewhere}
Stands(address) == CanonicalRedirect(address) = Elsewhere

\* Every link a page draws is answered, without a redirect on the way, and the
\* language controls hold the page.  The sitemap and the feed list addresses that
\* answer.  A log that was read and is empty is
\* linked from no navigation, homepage or sitemap, though its page answers.  What a
\* head names answers too; a page is its own canonical, the pages of its languages
\* name each other, and the sitemap lists them together or leaves them out together,
\* as they say themselves (lib/chrome.ts:50-58, lib/home/sections.ts,
\* lib/seo/pages.ts:28-52, 196-236, lib/i18n/alternates.ts:31-37).
EveryLinkAnswers ==
    /\ \A address \in {a \in Here : Stands(a)} :
          /\ \A link \in Links(address) : Answers200(link)
          /\ Found(address) =>
                /\ \A m \in Locale :
                      StripLocale(SwitchLocale(address, m)) = StripLocale(address)
                      /\ LocaleOf(SwitchLocale(address, m)) = m
                /\ \A url \in HeadUrls(address) : Answers200(url)
                /\ Canonical(address) = address
                /\ \A m \in Locale :
                      /\ Hreflang(Hreflang(address)[m]) = Hreflang(address)
                      /\ Hreflang(address)[m] \in SitemapUrls <=> Indexable(address)
          /\ ~HasLog(Log) /\ Found(address) /\ StripLocale(address) = <<>> =>
                \A link \in PageLinks(address) : StripLocale(link) # Page("blog")
    /\ Here # {} => \A url \in SitemapUrls \cup FeedLinks : Answers200(url)
    /\ Here # {} /\ ~HasLog(Log) => \A url \in SitemapUrls : StripLocale(url) # Page("blog")

\* The islands: a panel that says nothing matched stands only over a narrowed list
\* and names what narrows it; a chip's number is the number of rows it leaves; a
\* year is one group and every entry is under one; whoever types a word of an entry,
\* in capitals or with spaces around, is shown it (BlogFilters.tsx:205-213,
\* WorkFilters.tsx:213-221, lib/blog/filter.ts:56-66, lib/blog/entries.ts:38-65).
IslandsAgree ==
    /\ OnBlog =>
          LET posts == PostsIn(Log)  years == ByYear(posts) IN
          /\ LogRowsShown = <<>> => BlogIsFiltered(BlogAxis(blog)) /\ BlogActiveLabels(BlogAxis(blog)) # {}
          /\ ~BlogIsFiltered(BlogAxis(blog)) => LogRowsShown = Flattened([i \in DOMAIN years |-> years[i].posts])
          /\ \A i, j \in DOMAIN years : i < j => years[i].year > years[j].year
          /\ \A chip \in TagChips(posts) :
                /\ chip.count > 0
                /\ blog.tag = chip.key /\ NormaliseQuery(blog.query) = NoText => Len(LogRowsShown) = chip.count
          /\ \A p \in Range(posts) : \A w \in p.title \cup p.deck :
                blog.tag = AllTags /\ {v.word : v \in blog.query} \ {""} = {w.word} => p \in Range(LogRowsShown)
    /\ \A r \in Region : OnWork(r) =>
          /\ WorkRowsShown(r) = <<>> => WorkIsFiltered(work) /\ WorkActiveLabels(work) # {}
          /\ work.stack = AnyStack /\ work.status # "all" => Len(WorkRowsShown(r)) = WorkIsland(r).counts[work.status]

\* A tab loaded, or picked in, since the last pick of any tab shows that pick, Noir
\* included, unless storage is blocked (lib/theme.ts:97-115, ThemeSwitch.tsx:72-75).
ThemeIsRemembered ==
    ~blocked => \A t \in caughtUp : theme[t] = picked

\* A row of the systems leads to its page in the language of the page it is drawn
\* on (Wordmark.tsx:22-24, docs/adr/0083: the address is the language).
RowsKeepTheLanguage ==
    \A address \in {a \in Here : Stands(a)} : Found(address) =>
        \A link \in RowLinks(address) : LocaleOf(link) = LocaleOf(address)
=============================================================================
