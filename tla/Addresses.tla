----------------------------- MODULE Addresses -----------------------------
(***************************************************************************)
(* The addresses of the web front end: lib/i18n/routes.ts, what proxy.ts   *)
(* does with a request before it reaches a route, and the entries of the   *)
(* navigation (lib/chrome.ts).  An address is the sequence of its          *)
(* segments, so "/" is the empty one; a path is an address without its     *)
(* language.                                                               *)
(***************************************************************************)
EXTENDS Sequences

CONSTANT Elsewhere      \* no address: null, or no redirect


Locales == <<"en", "de", "fr">>
Locale == {Locales[i] : i \in DOMAIN Locales}
DefaultLocale == "en"

Address == Seq(STRING)

ASSUME AddressAssumption == Elsewhere \notin Address /\ Locale \subseteq STRING

\* Names that never carry a language.
Reserved == {"_next", "api", "healthz", "dev", "favicon.svg", "favicon.ico", "robots.txt",
             "sitemap.xml", "feed.xml", "og.png"}

HasLocale(address) == address # <<>> /\ Head(address) \in Locale
LocaleOf(address) == IF HasLocale(address) THEN Head(address) ELSE DefaultLocale
StripLocale(address) == IF HasLocale(address) THEN Tail(address) ELSE address
LocaleHref(locale, path) == IF locale = DefaultLocale THEN path ELSE <<locale>> \o path
SwitchLocale(address, target) == LocaleHref(target, StripLocale(address))

\* English has no prefix: /en/about moves to /about, /about is served from /en/about.
CanonicalRedirect(address) ==
    IF address # <<>> /\ Head(address) = DefaultLocale THEN Tail(address) ELSE Elsewhere
RewriteTarget(address) ==
    IF HasLocale(address) \/ (address # <<>> /\ Head(address) \in Reserved) THEN Elsewhere
    ELSE <<DefaultLocale>> \o address

\* What the router is asked for once nothing is left to redirect.
Served(address) == IF RewriteTarget(address) = Elsewhere THEN address ELSE RewriteTarget(address)

\* NAV, and its entries by whether the log has one.
Nav == <<[id |-> "work", href |-> <<"work">>], [id |-> "log", href |-> <<"blog">>],
         [id |-> "about", href |-> <<"about">>], [id |-> "contact", href |-> <<"contact">>]>>
NavEntries(hasLog) == {Nav[i] : i \in {j \in DOMAIN Nav : hasLog \/ Nav[j].id # "log"}}
=============================================================================
