------------------------------ MODULE Journal ------------------------------
(***************************************************************************)
(* The log of the web front end: the files of content/posts, read by        *)
(* lib/content/posts.ts, and everything derived from them: the index by    *)
(* year with its chips and its search (lib/blog), the neighbours of an     *)
(* entry (lib/content/neighbours.ts), the homepage's latest three          *)
(* (lib/home/posts.ts), and the links of the incident log                  *)
(* (lib/case/postmortem.ts).                                               *)
(*                                                                         *)
(* A file is a record of its frontmatter.  Its slug is its name, and `no'   *)
(* the number by which names sort; a date is a number, Junk when it names  *)
(* no day; text is a set of words, each with its spelling, and one word is *)
(* all a visitor searches for at a time.                                   *)
(***************************************************************************)
EXTENDS Answers

DaysPerYear == 100      \* dates are year * 100 + day

\* "title: X", "deck: X": a text is usable when something is left of it.
NoText == {}
IsDate(d) == d \notin Unusable
\* A list that is missing, empty, malformed or repeats a tag is none.
TagList(tags) == IF tags \in Unusable \/ tags = <<>> \/ ~IsInjective(tags) THEN NoData ELSE tags

\* postMeta: every field that is drawn has to be there, and `updated' may be absent
\* but not broken.
PostMeta(f) ==
    IF /\ f.title # NoText /\ f.deck # NoText /\ IsDate(f.published)
       /\ TagList(f.tags) # NoData /\ f.summary # NoText
       /\ f.updated # Junk
    THEN [slug |-> f.slug, no |-> f.no, title |-> f.title, deck |-> f.deck, published |-> f.published,
          tags |-> f.tags, systemId |-> Read(f.systemId)]
    ELSE NoData

\* What content/posts may be: a file is known by its name, and so by its number, and
\* a list with a tag that is none (TAG) is Junk.  The chip of every tag is no tag.
AllTags == "*"
IsDirectory(dir) ==
    \/ dir = NoData
    \/ /\ IsFiniteSet(dir)
       /\ \A f \in dir : f.named =>
             /\ f.slug \in STRING /\ f.no \in Nat /\ f.published \in Unusable \cup Int
             /\ f.tags \in Unusable \cup Seq(STRING \ {AllTags})
             /\ \A g \in dir : g.named /\ g.no = f.no => g = f

\* Newest first; of one day, the higher number first.
ByNewest(a, b) == a.published > b.published \/ (a.published = b.published /\ a.no > b.no)

\* A directory that cannot be listed is NoData; a file that is no entry is no candidate.
ReadPosts(dir) ==
    LET candidates == {f \in dir : f.named}
        usable == {PostMeta(f) : f \in candidates} \ {NoData}
    IN [posts |-> InOrder(usable, ByNewest),
        skipped |-> {f.slug : f \in {g \in candidates : PostMeta(g) = NoData}}]
PostsOrNull(dir) == IF dir = NoData THEN NoData ELSE ReadPosts(dir)
PostsIn(read) == IF read = NoData THEN <<>> ELSE read.posts
HasLog(read) == read = NoData \/ read.posts # <<>>

\* postFor: one entry, by the name an incident gives it.
PostFor(read, slug) ==
    IF \E p \in Range(PostsIn(read)) : p.slug = slug
    THEN CHOOSE p \in Range(PostsIn(read)) : p.slug = slug ELSE NoData

\* The entries before and after, in the order of the index.
Neighbours(posts, slug) ==
    LET at == SelectInSeq(posts, LAMBDA p : p.slug = slug)
        beside == IF at = 0 THEN {} ELSE {at - 1, at + 1} \cap DOMAIN posts
    IN {posts[i].slug : i \in beside}

LogRows == 3
LogEntries(read) == SubSeq(PostsIn(read), 1, IF Len(PostsIn(read)) < LogRows
                                             THEN Len(PostsIn(read)) ELSE LogRows)

\* A run of entries of one year is a group: it starts where the year is another than
\* the one above it, and ends where the next one starts.
YearOf(post) == post.published \div DaysPerYear
YearStarts(posts) == {i \in DOMAIN posts : i = 1 \/ YearOf(posts[i]) # YearOf(posts[i - 1])}
ByYear(posts) ==
    LET starts == Ascending(YearStarts(posts))
        RunEnd(n) == IF n = Len(starts) THEN Len(posts) ELSE starts[n + 1] - 1
    IN [n \in DOMAIN starts |-> [year  |-> YearOf(posts[starts[n]]),
                                 posts |-> SubSeq(posts, starts[n], RunEnd(n))]]

\* Every tag of the corpus with the number of entries under it.
TagChips(posts) ==
    LET tags == UNION {Range(posts[i].tags) : i \in DOMAIN posts}
    IN {[key |-> tag, count |-> CountOf(posts, LAMBDA p : tag \in Range(p.tags))] : tag \in tags}

\* postMortemHrefs: an incident's entry is linked only when there is one to read.
PostMortemHrefsByName(read, incidents) == {i.postSlug : i \in Range(Or(incidents, <<>>))}
PostMortemHrefs(read, incidents) ==
    {slug \in PostMortemHrefsByName(read, incidents) : PostFor(read, slug) # NoData}
-----------------------------------------------------------------------------
(***************************************************************************)
(* lib/blog/filter.ts, lib/work/filter.ts: what the islands narrow by      *)
(***************************************************************************)
AnyStack == "any"
BlogNoFilter == [tag |-> AllTags, query |-> NoText]
WorkNoFilter == [status |-> "all", stack |-> AnyStack]

\* What is typed is trimmed and lowered; the text it is looked for in, only lowered.
Lower(text) == {[word |-> w.word, caps |-> FALSE] : w \in text}
NormaliseQueryTrimOnly(raw) == {w \in raw : w.word # ""}
NormaliseQuery(raw) == Lower({w \in raw : w.word # ""})
Haystack(post) == Lower(post.title \cup post.deck \cup {[word |-> t, caps |-> FALSE] : t \in Range(post.tags)})

BlogAxis(field) == [tag |-> field.tag, q |-> NormaliseQuery(field.query)]
BlogIsFiltered(axis) == axis.tag # AllTags \/ axis.q # NoText
BlogMatches(post, axis) ==
    /\ axis.tag = AllTags \/ axis.tag \in Range(post.tags)
    /\ axis.q \subseteq Haystack(post)
BlogFilter(posts, axis) == Filtered(posts, LAMBDA p : BlogMatches(p, axis))
BlogActiveLabels(axis) == (IF axis.tag # AllTags THEN {<<"tag", axis.tag>>} ELSE {})
                          \cup (IF axis.q # NoText THEN {<<"search", axis.q>>} ELSE {})

WorkIsFiltered(axis) == axis # WorkNoFilter
WorkMatches(entry, axis) ==
    /\ axis.status = "all" \/ entry.state = axis.status
    /\ axis.stack = AnyStack \/ axis.stack \in entry.tags
WorkFilter(entries, axis) == Filtered(entries, LAMBDA e : WorkMatches(e, axis))
WorkActiveLabels(axis) == (IF axis.status # "all" THEN {<<"status", axis.status>>} ELSE {})
                          \cup (IF axis.stack # AnyStack THEN {<<"stack", axis.stack>>} ELSE {})
=============================================================================
