------------------------------- MODULE Header ------------------------------
(***************************************************************************)
(* The moves of a visitor's tabs and the two menus of the header that      *)
(* stands on every page: the full-screen menu, a modal <dialog>            *)
(* (components/MobileMenu.tsx), and the language list, a disclosure with   *)
(* keys (components/LangMenu.tsx).                                         *)
(*                                                                         *)
(* Each language has a header of its own, for the layout belongs to the    *)
(* language; the one a tab leaves is kept hidden or dropped, as React      *)
(* likes.  CSS hides one of the two menus by the width, so a scene has one. *)
(* History is one page deep.                                               *)
(***************************************************************************)
EXTENDS Visit

VARIABLES
    header,     \* by tab and language
    past        \* the page a tab left last without loading another document

headerVars == <<header, past>>
siteVars == <<allVars, headerVars>>

Own(locale) == CHOOSE i \in DOMAIN Locales : Locales[i] = locale
\* A header nobody has touched.  "byPointer": the list was last left by the button or
\* a press outside; "leftShown": the page changed by the history under the dialog.
NewHeader(locale) ==
    [open |-> FALSE, marked |-> Own(locale), byPointer |-> FALSE,
     shown |-> FALSE, expanded |-> FALSE, closing |-> FALSE, leftShown |-> FALSE]
Untouched == [m \in Locale |-> NewHeader(m)]

Language(t) == LocaleOf(at[t])
Standing(t) == header[t][Language(t)]
UsesMenus == {"menu", "list"} \cap scene.controls # {}
OnPage(t) == at[t] # Elsewhere /\ Stands(at[t])
\* The page for an unknown address has no header.
OnHeader(t) == UsesMenus /\ OnPage(t) /\ Found(at[t])

SiteInit ==
    /\ VisitInit
    /\ header = [t \in Tab |-> Untouched]
    /\ past = [t \in Tab |-> Elsewhere]

Stays(t, h) ==
    /\ header' = [header EXCEPT ![t][Language(t)] = h]
    /\ UNCHANGED <<allVars, past>>

\* The page at another address, this language's header left as h.
Leaves(t, h, address) ==
    /\ Go(t, address)
    /\ LET m == LocaleOf(address) IN
       \E other \in {NewHeader(m), header[t][m]} :
          header' = [header EXCEPT ![t] =
                       [@ EXCEPT ![m] = other, ![Language(t)] = h]]

\* A new document.
Loads(t) ==
    /\ Load(t) \/ Redirect(t)
    /\ header' = [header EXCEPT ![t] = Untouched]
    /\ past' = [past EXCEPT ![t] = Elsewhere]

\* The links of these a visitor takes: all, or to the pages of the scene.
Taken(links) == {a \in links : "links" \in scene.controls \/ StripLocale(a) \in scene.pages}
Remembers(t) == past' = IF UsesMenus THEN [past EXCEPT ![t] = at[t]] ELSE past

\* A link of the page; a key reaches it with the language list still open, the dialog
\* puts it out of reach.
Follow(t) ==
    /\ "links" \in scene.controls \/ UsesMenus
    /\ OnPage(t) /\ ~Standing(t).shown
    /\ \E address \in Taken(Links(at[t])) : Leaves(t, Standing(t), address)
    /\ Remembers(t)

\* The browser's way back, whatever is open.
Back(t) ==
    /\ OnHeader(t) /\ past[t] # Elsewhere
    /\ Leaves(t, [Standing(t) EXCEPT !.leftShown = Standing(t).shown], past[t])
    /\ past' = [past EXCEPT ![t] = Elsewhere]
-----------------------------------------------------------------------------
(***************************************************************************)
(* The full-screen menu                                                    *)
(***************************************************************************)

\* close() takes the attribute away at once and sends its event later.
Hidden(h) == [h EXCEPT !.shown = FALSE, !.expanded = FALSE, !.closing = TRUE, !.leftShown = FALSE]

\* A press comes after the event of the last close: they share a task source.
Show(t) ==
    /\ "menu" \in scene.controls /\ OnHeader(t)
    /\ ~Standing(t).shown /\ ~Standing(t).closing
    /\ Stays(t, [Standing(t) EXCEPT !.shown = TRUE, !.expanded = TRUE])

\* The cross, or Escape inside: its keydown reaches the handler, the browser closes.
Hide(t) == OnHeader(t) /\ Standing(t).shown /\ Stays(t, Hidden(Standing(t)))

\* The platform closes it and no handler hears of it: a back gesture, or Escape while
\* the focus is nowhere.
Dismiss(t) ==
    /\ OnHeader(t) /\ Standing(t).shown
    /\ Stays(t, [Hidden(Standing(t)) EXCEPT !.expanded = Standing(t).expanded])

OnClose(t) ==
    \E m \in Locale :
       /\ header[t][m].closing
       /\ header' = [header EXCEPT ![t][m].expanded = FALSE, ![t][m].closing = FALSE]
       /\ UNCHANGED <<allVars, past>>

MenuLinks(address) == {LocaleHref(LocaleOf(address), p) : p \in NavPaths} \cup {SwitchLocale(address, m) : m \in Locale}
FollowFromMenu(t) ==
    /\ OnHeader(t) /\ Standing(t).shown
    /\ \E address \in Taken(MenuLinks(at[t])) : Leaves(t, Hidden(Standing(t)), address)
    /\ Remembers(t)
-----------------------------------------------------------------------------
(***************************************************************************)
(* The language list                                                       *)
(***************************************************************************)
OnList(t) == "list" \in scene.controls /\ OnHeader(t) /\ ~Standing(t).shown

\* Mutant: close forgets the mark.
ClosedOnly(h, locale) == [h EXCEPT !.open = FALSE, !.byPointer = FALSE]
\* close
Closed(h, locale) == [ClosedOnly(h, locale) EXCEPT !.marked = Own(locale)]

\* A press of the button, or an arrow.
Open(t) == OnList(t) /\ ~Standing(t).open /\ Stays(t, [Standing(t) EXCEPT !.open = TRUE])

\* The arrows go round, Home and End jump, the pointer marks what it enters.
Mark(t) ==
    /\ OnList(t) /\ Standing(t).open
    /\ \E i \in DOMAIN Locales : Stays(t, [Standing(t) EXCEPT !.marked = i])

\* The button again, or a press outside: the mark stays where it was.
Shut(t) ==
    /\ OnList(t) /\ Standing(t).open
    /\ Stays(t, [Standing(t) EXCEPT !.open = FALSE, !.byPointer = TRUE])

Escape(t) == OnList(t) /\ Standing(t).open /\ Stays(t, Closed(Standing(t), Language(t)))

\* commit: Enter takes the marked row, a click its own.
Commit(t) ==
    /\ OnList(t) /\ Standing(t).open
    /\ \E i \in DOMAIN Locales :
          LET h == Closed(Standing(t), Language(t)) IN
          IF Locales[i] = Language(t) THEN Stays(t, h)
          ELSE Leaves(t, h, SwitchLocale(at[t], Locales[i])) /\ Remembers(t)
-----------------------------------------------------------------------------
SiteNext ==
    \/ VisitNext /\ UNCHANGED headerVars
    \/ \E t \in Tab : Loads(t) \/ Follow(t) \/ Back(t)
    \/ \E t \in Tab : Show(t) \/ Hide(t) \/ Dismiss(t) \/ OnClose(t) \/ FollowFromMenu(t)
    \/ \E t \in Tab : Open(t) \/ Mark(t) \/ Shut(t) \/ Escape(t) \/ Commit(t)

SiteSpec == SiteInit /\ [][SiteNext]_siteVars

\* The menu's button says whether the dialog stands, but for the moment until its close
\* event; no dialog stays open in a header the visitor has left, where it would lock
\* the scrolling of every page after it (chrome.css:359), unless it was the history
\* that moved under it; and the list opens on the page's own language, so that Enter
\* is a close, unless the pointer left it marked (MobileMenu.tsx:46-60, 116-125,
\* LangMenu.tsx:92-106).
MenusAgree ==
    \A t \in Tab, m \in Locale :
       LET h == header[t][m] IN
       /\ h.expanded # h.shown => h.closing
       /\ h.shown => h.leftShown \/ m = Language(t)
       /\ h.open \/ h.byPointer \/ h.marked = Own(m)
=============================================================================
