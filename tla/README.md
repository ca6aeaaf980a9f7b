# Verification of timseil-dev

TLA+ models of the stateful parts of timseil.dev, TLC configurations that
model-check them on small instances, and TLAPS proofs of the properties that
matter most for every value of the constants. Paths are relative to the
repository's root.

## 1. Inventory

The site is one Go binary (`api/cmd/api`) with a Postgres behind it, a Next.js
front end (`web/`) that reads it on the server and posts to it from the browser,
a proxy in front of both, a prober outside the host, and shell tooling for deploys
(`tools/`). Ordinarily one pair of processes runs; during a rollout a twin of each
runs beside it, and both use one database and one mail account. The api is a
server plus six loops, each a goroutine with a ticker and a `Stop` that cancels.

| component | state | operations | interacts with | what makes it correct |
|---|---|---|---|---|
| contact handler, `api/internal/contact/contact.go` | rows of `contact_messages`; in flight: where the request stands | `SubmitContact`: validate, discard, floor, insert or find, budget, send, mark | table, budget, mail; the dispatcher reads its rows | nothing promised is lost; one key, one receipt; at most three messages per window; honest `Retry-After` |
| dispatcher, `api/internal/contact/dispatch.go` | current batch, breaker, ticker | `runOnce`, `deliver`, `send`, `markFailed`, `Stop` | table (unlocked reads), shared budget, mail | every queued message is settled; sent is final; duplicates only for known reasons |
| purge, `api/internal/contact/purge.go` | none | one `DELETE` an hour | table | never a row that is owed, never a key that can still be submitted |
| send budget, `api/internal/contact/budget.go` | tokens, `last` (under a mutex) | `take` | handlers and dispatcher | never overdrawn; a late clock reading refills nothing; refusal only after a spent hour |
| mail, `api/internal/mail` | none | `Send`, `classify` | the relay | three outcomes; a mail may be taken and not acknowledged |
| breaker and retry, `api/internal/resilience` | failures, openedAt | `Allow`, `Succeeded`, `Failed`, `Retry` | every loop that calls out | opens on consecutive failures, one probe per cooldown |
| calendar refresher, `api/internal/contributions` | one row, breaker | `runOnce` | GitHub, Postgres, its twin | the old calendar survives an outage; the new one arrives in bounded time |
| rate limiter, `api/internal/middleware/ratelimit.go` | map of buckets (under a mutex) | `take`, `evict` | every request to `/api/` | burst plus refill; refusal only if deserved; clients are forgotten in time |
| intake, `api/internal/intake` | none | append a probe or a deploy | prober and deploy scripts that retry | a duplicate is a 204 and no second row |
| uptime backfill, `api/internal/uptime` | etag, breaker | conditional fetch, replay of each outage | GitHub, `ops_checks` | an outage is filled in exactly once and never skipped |
| ops roll-up, `api/internal/ops` | `ops_days` derived from `ops_checks` | `RollUpOpsDays` | probes, backfill, its twin | a cell says what the checks of its day say |
| process lifecycle, `api/cmd/api/main.go`, `web/instrumentation.ts` | accepting, drain phase | `serve`, `register` | all loops, pool, proxy | no request cut off, every loop stopped before the pool closes |
| rollout, `tools/rollout.sh` | which containers run which build | four steps | proxy, all containers | always one instance of each service serving |
| contact form, `web/components/contact` | draft, phase, `freeAt`, dwell, log | type, submit, edit, resend | `POST /api/contact`, timers, the proxy | the screen speaks of one send and what it says of it is so |
| web readers and regions, `web/lib/api`, `components/{home,case,work}` | Next's cache, `healthLive`'s validator and memo, each region's phase | cached and conditional reads, streaming, deriving, drawing | the api's endpoints, other visitors | no failure is kept, no answer is older than promised, nothing drawn that was not measured |
| web log, `web/lib/content`, `lib/blog` | files of the image; the island's tag and query | list, sort, group, filter, link | the pages, incident rows | one entry is one address; a narrowed list says so |
| web addresses, menus, theme, `web/proxy.ts`, `lib/i18n`, `components/{MobileMenu,LangMenu,ThemeSwitch}` | address of each tab, dialog, list, `data-theme`, `localStorage` | follow, back, open, mark, commit, pick | every page | every link answers in its language; the menus agree with what stands open; a pick is remembered |
| snapshots, read handlers, config, seed, logging, generated code, static pages, gallery, tooling | none, or one insert with a unique key | | | |

Hard behaviour, in the order in which it is modelled: statements of handlers and
dispatchers interleaved on an unlocked table; a relay whose answer may be lost;
crashes between a mail and its bookkeeping; two instances at once; stale clock
readings in front of a mutex; a breaker that hears of some endings of a run and
not of others; reports that arrive twice or late, replays that stop half way and
upserts that lock rows; a shutdown under traffic and a deploy that fails at any
step; timers and answers of a press that come back after the next one; a memo that
every visitor shares; two builds whose answers differ; state that outlives the page
it was made on. Every hazard with its line is in `PROJECT.json`, and each has a
property.

## 2. Plan

Done, in this order:

1. `BreakerOps`, `Contact` with its proofs and the abstract `Delivery` it implements; `Budget` and `RateLimiter`, which look at
   two clocks-and-mutex components at a finer grain; `Refresher`.
2. `OpsGrid`: intake, backfill and roll-up on one table, two instances, with proofs.
3. `Rollout`: shutdown of both services, the four steps, and the proxy.
4. `ContactRules` and `ContactForm`: the other end of `Contact`.
5. `Readers` with its proofs; on top of it `Answers`, `Regions`, `Journal`, `Addresses`,
   `Visit`, `Header`.

Left:

- `Snapshots`, should it grow a rule beyond its unique key.

## 3. Modules

### BreakerOps
The breaker as operators on a value `[failures, since]`, used through
`INSTANCE ... WITH` by every loop that owns one. `since` is the age of `openedAt` in
steps of the owner's clock, from the stamp and not from the tick the run began at.
Both fields saturate because the code only compares them with `Threshold` and
`Cooldown`.

### Contact
Everything behind `POST /api/contact`. One step is one database statement, one
SMTP conversation or one decision without I/O; anything may happen between two
steps, because no query locks or claims a row.

- `rows[r]` is the row inserted by request `r` (`newID` is unique per request);
  the unique index on the idempotency key is `SameKey`. Columns that matter are
  kept: status, attempts, age of `received_at`, whether `delivered_at` is set.
- `pc[r]` follows `SubmitContact`: `Floor`, `Insert`, `FindExisting`, `TakeBudget`,
  `Send`, `RecordSent` or `RecordFailure`, with `FloorError`, `InsertError`,
  `FindError` for a statement that fails. `Refuse` and `Discard` are the early
  returns. `answer` and `receipt` are what the visitor sees.
- `run[i]` follows `runOnce` of instance `i`: `SkipRun`, `ListDeliverable`,
  `FindQueueEmpty`, `ListError`, then per row `Take`, `SendQueued`,
  `RecordSentQueued` or `RecordFailureQueued`, then `EndRun`, which reports to the
  breaker. The batch carries the attempts it read: the verdict uses those and the
  UPDATE increments the column, as in the code.
- A run stamps `openedAt` seconds after its tick, so ten ticks later the cooldown may be
  over or not, and eleven later it is: `MayStart` and `SkipRun` are both possible at the
  tenth.
- `Updated` is `UPDATE ... WHERE id` with the table's CHECK: a vanished row is no
  error, a row that violates `delivered_iff_sent` is refused.
- `Relayed` is the relay: an accepted mail was taken; a refused or broken
  conversation may have been taken all the same.
- `Crash(i)` is a kill or a `Stop` of one process, followed by its restart. `Fault`
  bounds crashes and failed statements by `MaxFaults`.
- `Tick` is one minute. No handler and no run spans two ticks (`late`): a run has
  45 s plus 5 s of bookkeeping, a request 15 s plus 5 s. The bookkeeping is detached
  from the run's deadline (`dispatch.go:268`), so an attempt cut off is still counted.
- `mails`, `unsure`, `contended` and `buried` observe; nothing reads them.

### Delivery
What the contact path promises of one message, without table, processes or clock. Its
`fate` goes from new to queued (`Accept`, once per key and never again), turns between
queued, sent and failed (`Deliver`, `GiveUp`, `Reopen`, with or without the visitor being
told in the same step) and ends as expired (`Expire`, of what is settled only); the relay
may take its mail at any time after its acceptance (`Carry`). `Contact` implements it
(`ImplementsDelivery`): the fate is what the row says and, where there is none, whether the
message was ever accepted (`Fate`); what was told is `receipt` and the answers that are 502.
`Reopen` is the one step the code would rather not have: the slower of two processes
records "try again" after the other gave up (`contact.sql:153-165`).

### Budget
`budget.go` with refill by elapsed time and the instants its callers read before
they take the lock, up to `MaxStale` earlier (a request carries the reading of
its arrival through the floor and the INSERT). Tokens are counted in units so that
the float refill is exact; float rounding is not modelled.

### RateLimiter
`take` and the janitor with concurrent goroutines. The clock is read before the
lock in both. A missing bucket counts as full, which is what forgetting a client
is worth to it. `EvictionAssumption` says that an evicted bucket has refilled by the
oldest reading that may still come to the lock. The broad limiter has room to spare
with the default configuration; the contact limiter fills in exactly the ten minutes of
`idleTTL` (600 s), so of it the assumption says that no goroutine waits for the lock
longer than a tick. One that did would find its client forgotten and refill it twice.

### Refresher
`runOnce` of the calendar loop on every instance, with the retry inside it, GitHub
and Postgres going away and coming back at any moment, restarts, and the one row
all instances share. Time passes in moments, `RefreshEvery` of them from one firing of an
instance's ticker (`timer`) to the next. A run takes as many as it likes but is over before
the ticker fires again, as `policy.go` demands of its thirty seconds in five minutes, its
statements included. So `openedAt` and `fetched_at` are stamped at the tick or after it,
and since the stale age and the cooldown are whole multiples of `refreshEvery`, the probe
and the refetch come at the tick that reaches the limit or at the one after.

### OpsGrid
The prober writes its log and reports each observation until it is answered
(`ProbeFindsPage`, `ReportProbe`, `ReportLost`, `ReportGivenUp`), so a report may be
stored and not acknowledged. `ops_checks` is a set of checks whose instants are
unique; `Insert` is `ON CONFLICT DO NOTHING`, so the first check of an instant stands.
A replay reads the log at one version (`Read`), writes one outage per
step (`WriteOutage`), may fail between two (`ReplayFails`) and only then keeps the
etag (`Replayed`). A roll-up reads the days touched inside the lookback (`RollUp`),
then locks and writes one row after another in the order of the statement
(`Upsert`, `NextRows`). Both loops run in every instance, instances start and stop,
and a tick is one probe interval. The conditional fetch's breaker and retry appear
as "nothing was read"; `Refresher` has them in full.

### Rollout
Each container is starting, ready, or somewhere between SIGTERM and its end: leaving
(readiness withdrawn, the pause), draining, stopping (loops and pool), gone. The
proxy adds a container on the health event that `--wait` waits for and drops it
within `CheckLag` of the check's first failure. `Steps` are the four of
`rollout.sh` with `Recreate`, `Create` and `Remove`; any of them may fail (`Fails`)
and another deploy may follow. One request is followed from its arrival; it stands
for the longest in flight, which is what a drain waits for.

### ContactRules and ContactForm
`ContactRules` is the validator twice, once as the page has it and once as the api
has it, over drafts that are the facts both ask for: runes, bytes, padding, control
characters (C1 apart from the others, because `net/mail` takes every rune from U+0080 on
for a letter), the shape of an address. `ContactForm` has every handler of the form:
`Type`, `ChangeTrap`, `Submit` and `SubmitInvalid`, the dwell loop (`Sleep`, woken early by a
fraction of a millisecond), `BuildBody` with its fresh timestamp, `Depart`, `Accept`,
`Fail`, `GiveUp` at the deadline of `apiPost`, and the second tick that redraws the
lock. What the panel draws is the body that was sent, but the log's honeypot line is read
from the hidden field as it is now (`HoneypotLine`); `touched` observes whether that
changed since the press. On the other side stand the network (`Lose`), the proxy (`ProxyAnswers`), the
bucket (`BucketRefuses`) and the handler as far as a form can tell (`Discard`,
`Reject`, `FloorRefuses`, `Store`, `Break`); a request the browser has given up on may
still arrive and be stored.

### Readers
`use cache` readers and `healthLive` (`web/lib/api/readers.ts`). `region[r]` is what a
visitor sees of one streamed region: its fallback until the reader answers, then the
failure or the answer. A cached reader serves its entry (`Hit`), refreshing it behind
the answer, or fills it (`Miss`, `Filled`, `Refreshed`); what throws is not stored.
`healthLive` reads its validator before the await and its memo after it (`AskLive`,
`LiveAnswers`), and both are module variables of all visitors. `truth` and `gone`
observe what the api would say and since when it would no longer say it. The cache
itself is Next's, modelled from the lifetimes `next.config.ts` gives it.

### Answers, Journal, Addresses
Operators without state. `Answers` is what `lib/api` and `lib/state` read off an answer,
field by field; a field may be absent or junk, because builds overlap and no reader
trusts the generated types. `Journal` is the log: frontmatter, order, years, chips,
search, neighbours. `Addresses` is languages, redirects and rewrites.

### Regions, Visit, Header
`Regions` extends `Readers` and `Journal`: what each component draws of an answer, as
counts, marks, links and the choice of sentence. Each region reads for itself: crumb,
eyebrow, rail, tiles and log of one case study may hold different answers, or one an
answer and another none (`Live.tsx:64-187`). `Visit` adds the tabs' addresses, the
links of every page and its head, sitemap and feed, the islands of the log and of the
work list, and the theme. `Header` adds what moves a tab (`Loads`, `Follow`, `Back`) and
the two menus: the modal dialog (`Show`, `Hide`, `Dismiss`, its later close event `OnClose`,
`FollowFromMenu`) and the language list (`Open`, `Mark`, `Shut`, `Escape`, `Commit`). A
header belongs to its language; the one a tab leaves may be kept hidden or dropped,
and the model allows both.

### MC modules and proof modules
`MCContact`, `MCContactForm`, `MCOpsGrid`, `MCRollout` and `MCReaders` give functions and
sets their values; `Budget`, `RateLimiter` and `Refresher` need none and are checked
directly. `ContactProofs`, `BudgetProofs`, `RateLimiterProofs`, `RefresherProofs`,
`OpsGridProofs`, `RolloutProofs`, `ContactFormProofs` and `ReadersProofs` hold the
theorems. `ReadersProofs` extends `Header`, so it proves of `Readers` alone and of the
whole site.

## 4. Runs

| run | instance | what it shows |
|---|---|---|
| delivery | 2 requests with one key, 2 processes, 1 fault, 2 attempts, retention one tick beyond the skew | what happens to a message is what `Delivery` allows; a duplicate is unsure or contended; nothing promised is lost; sent is final; the repeat finds its row and gets the same receipt for ever |
| floor | 4 requests of one client, 2 in flight, limit 2, window 3 | racing requests overfill the window by at most their number less one; `Retry-After` is never late, and exact unless the window is overfull |
| retry | 1 request, 1 process, five attempts, base 2, breaker 3/10, 1 fault, fairness | types; every queued message is settled; none is stranded |
| budget | 2 callers, 3 tokens, readings up to 1 tick late, 7 ticks | types; burst plus refill in any window; a refusal means a spent hour |
| limiter | 2 goroutines and the janitor, burst 2, 6 ticks | burst, refill and the known repeats in any window; refusals are deserved; forgetting is in time |
| refresher | 2 instances, 2 moments a tick, 2 attempts, threshold 2, cooldown 2 ticks, stale after 2 | recovery in bounded time, late stamps included; probes a cooldown apart |
| form | 3 drafts typed, 2 presses, the hidden field filled and cleared at any time, fairness; every draft around every bound compared | a receipt names a row; the panel shows one send, the honeypot line while the field is not touched; each sentence is true of the message; the lock ends with the floor; the page refuses what the api would, two exceptions named; every press ends |
| ops | 2 instances of which one replays, 5 ticks, 2 probes, 2 faults, empty log or two outages | a report answered 204 stands; an etag vouches for what was replayed; every day catches up; upserts do not deadlock |
| rollout | 2 builds, 2 deploys, 1 failure, the numbers of the defaults | every rule of the proxy has a backend that listens; no request of the api is cut |
| site | 13 regions, 23 scenes, 2 tabs | nine properties of what is drawn, linked, counted and remembered, below |
| one_mail | 1 process, no fault | violated: handler and dispatcher mail one message |
| rows | as site | violated: a system's exit leaves the page's language |

The properties of `site`: a region says "did not answer" only if a request failed that
it waited for (`DownMeansAFailure`); what it draws answers its question and is younger
than the entry's expiry, or two deadlines for the shared memo (`DrawnIsAnAnswer`); a
panel says fetching while its region waits, "did not answer" after a failure, and
something of the window or the list only with an answer in hand; what NO INCIDENTS
means, the tile of the same answer tells (`PanelTellsTheTruth`); counts, rows, marks and
links of one answer agree, those of two regions that hold it as well (`PictureAgrees`);
nothing is drawn in a region that its own answer does not hold and nothing measured is
dropped, zero included (`DrawnIsMeasured`); every link, canonical, alternate, sitemap and
feed entry answers without a redirect (`EveryLinkAnswers`; that the rows keep the language
is the run `rows`); chips, counts and panels of the islands agree with what is
shown (`IslandsAgree`); a tab loaded since the last pick shows it (`ThemeIsRemembered`);
the header's menus agree with what stands open (`MenusAgree`).

### Bounds

Ages and counters saturate one step beyond the last comparison the code makes, so
saturation loses nothing.

- *Contact.* `MaxFaults` is one where every property is about the consequences of a
  fault: two faults multiply states and not kinds of consequence, and the theorems
  hold for any number. Two requests and two instances suffice for every race here,
  each being a race of two writers on one row; the floor uses its limit, its
  concurrency and no more. In `floor` the budget holds one token and gets none back:
  what is left of the delivery is enough to reach every state of a row. Limits are
  scaled down except in `retry`, where schedule, cooldown and attempts interact.
- *Budget, limiter.* `Horizon` covers more than two fills of the bucket.
- *Refresher.* Two moments a tick are the least in which a stamp can be late by a whole
  number of moments and still belong to its tick; the bound of `RecoversInTime` is met
  exactly. Threshold two and two attempts give every ending of a run a next one.
- *Form.* Two presses are what a late answer needs to speak for the wrong one. The
  dwell is two milliseconds in halves, because a timer wakes early by less than one;
  eight measurements exceed what two milliseconds can use up. A second has four parts,
  because both sides round in their own way; the window is two seconds, its limit one.
- *Ops.* Five ticks are two days and a half of two instants each with a lookback of
  two, so a day can go stale and be looked at again; two probes and two attempts each
  are a duplicate and a lost answer; two closed outages are what a replay can stop
  between. The run allows deadlock because the watch ends at `Horizon`. With 5.4
  million states it is the largest.
- *Rollout.* The numbers are the defaults (pause 3 s, drain 20 s, stop grace 30 s and
  15 s, request 15 s plus 5 s of bookkeeping, a check of 2 s): they are what the
  property depends on. One failure at any step, and one more deploy after it.
- *Site.* A scene is what is open, which answers occur and what the visitor touches.
  Scenes are taken apart because regions meet in the cache and in the memo only: two
  that share an entry, or two visitors of the memo, are in one scene (tiles and log,
  crumb and eyebrow with two answers, crumb, eyebrow and rail with one), and so are the
  work list and its filters. Addresses are typed from every kind there is: a page, a
  language, the default language spelled out, one spelled twice, an unknown page, a
  draft. The log is full, empty, or unreadable, and one entry long beside the work
  filters, which count entries and read nothing else of it. Two tabs occur where they share
  something, the theme. Queries are one word in two spellings with and without spaces.
  Menus have scenes of their own, since CSS shows one of them at a width. History is
  one page deep. A revalidation is two ticks, an expiry three, the deadline one.

### Fairness

`retry`: a request that has begun and a run that is due continue, because they are
goroutines and every conversation and statement has a deadline; the purge and the
clock come round, because they are tickers. Nobody is assumed to press the button, no
mail is assumed to be accepted, and no crash to happen or not to happen beyond the
bound. `form`: timers fire, the deadline of `apiPost` comes, and so does the next
second; nothing is assumed of the network, the proxy or the api. The other runs
assume nothing.

### What the code does otherwise than it says

Where the table says violated, a document or comment of the repository says something
the code does not do; `PROJECT.json` quotes it under `findings`. More sentences are
stricter than the code, and the passing runs check what holds in their place.

In the api:

- the floor "survives" a second instance (`api/migrations/00009_contact_delivery.sql:16`):
  `OvershootIsBounded` is the bound that holds;
- "the hourly ceiling" (`api/internal/contact/policy.go:59`): `BurstPlusRefill` of `Budget`, a
  full bucket and its refill in one hour, twice the number;
- the address "is kept for ten minutes" (`api/internal/middleware/ratelimit.go:15`):
  `ForgottenInTime`, up to one sweep longer;
- a bucket's interval refills once (`ratelimit.go:74-75`): `seen` can move back between
  two goroutines, and `BurstRefillAndRepeats` counts those repeats; `Budget` has the guard
  the limiter lacks;
- "about 48 requests" in a day's outage (`api/internal/contributions/policy.go:53`):
  `ProbesAreSpaced` counts runs, and a run makes up to three requests;
- "the next tick refetches" what is an hour old (`contributions/policy.go:27`), and thirty
  minutes of cooldown are six ticks: `fetched_at` and `openedAt` are stamped after the
  run's own tick (`refresh.go:205`, `resilience.go:75`, `:95`), so both limits are missed by
  seconds at the tick that should meet them and met at the next. `RecoversInTime` allows
  for it (`Slack`); the dispatcher's ten minutes are eleven ticks as often as not;
- "consecutive failures" (`api/internal/resilience/resilience.go:28`, `refresh.go:238`): a fetch
  that is answered and not stored is neither, and earlier failures survive it;
- a repeat's row "has already been sent or queued" (`contact.go:306`): it may have been
  given up on, and `AcceptedIsKept` says so; and a repeat of the third message in a
  window is refused before its row is looked up (`contact.go:289`);
- 502 promises another try (`contact.go:561-562`, `policy.go:23`): a permanent refusal is
  not tried again, an expired password among them (`mail/smtp.go:221`);
- no row stays queued with its attempts spent (`contact.sql:174-176`): with two instances
  the verdict rests on attempts read earlier and one may; `QueuedHasAttemptsLeft` is
  checked for one process;
- "the next tick after the restart derives the same days again" (`ops/ops.go:137-138`): not a
  day whose last check is older than the lookback; `GridCatchesUp` exempts an instance
  that was away that long;
- the log is the prober's: where the push of a line failed, it claims an outage
  through instants the prober found up, and the replay writes failed checks there.
  Those that were reported stand (`ReportsStand`), the others cannot be known.

In a deploy:

- `rollout.sh:2-3` promises a serving instance throughout: not if step 3 failed and the
  next deploy's first step recreates the only twin that serves; `AlwaysServed` is about
  a rollout that begins with both services up (`sound`);
- `config.Load` (`api/internal/config/config.go:495`) accepts any request deadline below the
  drain, but the contact handler writes for five more seconds: the defaults fit
  exactly (15 + 5 = 20), 19 s and 20 s would be accepted and cut. `:509` leaves out the
  time of the stops. `RolloutAssumption` states what is needed;
- "nothing in flight to wait for" (`web/instrumentation.ts:26-33`): a render accepted up to
  two seconds after SIGTERM and longer than the rest of the pause is cut; `NothingIsCut`
  says so much of `web`.

In the web front end:

- `components/home/Systems.tsx:88-92`, `OpsStrip.tsx:56-63` and `TrainingLog.tsx:74-84` print "that
  endpoint did not answer this request" for an answer with no rows (`downToo` in
  `PanelTellsTheTruth`);
- "NO INCIDENTS IN THIS WINDOW" (`components/case/IncidentLog.tsx:50`) stands over an ok answer
  without a list of incidents and over one whose incidents were all dropped, though ADR
  0082 (`docs/adr/0082`, l. 46-51), `lib/api/systems.ts:291-296` and `:416-419` and
  `OpsSection.tsx:62-65` keep "never asked" apart from "none"; `Live.tsx:155-161` knows of it
  ("still allowed"). `PanelTellsTheTruth` says how the tile tells them apart;
- the crumb prints the number and the name unguarded (`components/case/Live.tsx:77`): an answer
  without them is "undefined undefined", where the eyebrow beside it falls back;
- "the honeypot travelled empty" (`lib/contact/log.ts:62`, `log.test.ts:54`) and "everything on the
  screen after a send ... describes that send" (`components/contact/ContactForm.tsx:189-192`): line
  255 passes the hidden field as it is now, so one filled after the press reads "honeypot
  filled" over a body sent with an empty `company`. `ScreenIsOneSend` says that line is the
  body's only until the field changes;
- "FIVE CALLS ARE ONE REQUEST" (`components/case/Live.tsx:36-40`) does not hold while fills fail;
- coverage (`lib/api/systems.ts:136-150`) counts a day of an unknown state as measured,
  while the cell is drawn as no data; the calendar's printed age is its age at the fill;
- a 400 that names none of the form's fields is "rejected" with nothing marked
  (`lib/contact/states.ts:152-171`); a 502 of the proxy prints "the message is stored"; a press
  after a lost answer is a second message, since its body has a fresh timestamp;
- the page's validator "leans loose ... only in one direction" (`lib/contact/validate.ts:11-17`),
  but refuses what the api takes in two places: U+0085 as padding, and inside an address
  C1 controls and white space beyond ASCII (U+00A0, U+3000), which `validate.go:171-198` does
  not look for and `net/mail` takes for letters. `MirrorLeansLoose` names both. Both sides
  refuse a top-level domain in punycode, though `validate.ts:64-66` says it passes;
- the lock after a 429 may end up to a second and a half early, not one
  (`lib/state/retry.ts:110-118`): `LockMatchesFloor`;
- a stack chip of a row without a slug leaves no row (`components/work/WorkFilters.tsx`, "no chip
  can match nothing"), and a stack keyed "any" collides with the chip for all;
- two tabs' themes differ until one is loaded again: no `storage` listener;
- a browser Back under an open menu leaves its dialog open in a header that is kept
  hidden, and a list left by the pointer keeps its mark for the next Enter
  (`components/LangMenu.tsx:79-96`); `MenusAgree` names both.

## 5. Proofs

All theorems hold for any sets of requests, keys, clients, instances, callers, regions
and answers and any constants that satisfy the named assumptions.

- `ContactProofs`, one invariant per promise, each beside `TypeOK`:
  - `FindNeverMissesHolds` and `ReceiptStableHolds` rest on `KeyInv`: a stored row is at
    most as old as its key, a request that may still insert or look up has a key young
    enough, and with `Retention > 2 * ClockSkew` the purge cannot reach a row whose key
    is alive.
  - `SentMeansRelayTookItHolds` needs that whoever is in the accepted state carries a
    row whose mail was taken; `SentIsFinalHolds` follows from the CHECK and from
    delivered rows keeping their `delivered`; `AcceptedIsKeptHolds` adds what a handler
    still owes between two statements.
  - `ContactImplementsDelivery`: the initial state maps to the initial state and each step
    to a step of `Delivery` or to none. `FateInv` is what this needs beyond the rest: a
    message without a row has outlived its key, so nothing of its key is accepted again
    (`ExpiredWithKey`); what a run holds was accepted (`ListedAreKept`); and nobody still
    being handled has an answer. An INSERT is `Accept`, an SMTP conversation `Carry`, an
    UPDATE `Deliver`, `GiveUp` or `Reopen`, the purge `Expire`; crashes and the clock are
    stutters.
  - `DuplicateIsExplainedHolds`: a row that is neither unsure nor contended has at most
    one carrier, and the carrier closes it before letting go.
  - `OvershootIsBoundedHolds` and `RetryAfterIsExactHolds` rest on `FloorInv`: of one client,
    the rows in the window and the handlers that have been let through to their INSERT
    are together at most the limit less one plus those in flight. For the second, the
    oldest row in the window exists because a nonempty set of naturals has a least
    element, and the floor's is the only branch of the handler that answers 429.
  - `QueuedHasAttemptsLeftHolds` rests on `AttemptsInv`: a handler has seen at most one tick
    since its INSERT, and what a run has read of a row's attempts is what the row says
    but for the one its handler may have recorded meanwhile. Its statement names the two
    hypotheses this needs: one process (`OneProcess`, as in production but for a rollout's
    overlap) and a backoff no shorter than a handler, with three attempts or more
    (`BackoffOutlastsHandlers`; `policy.go` has two minutes and five).
- `BudgetProofs`. `BurstPlusRefillHolds`: for every earlier tick, tokens held plus
  tokens handed out since are bounded by a full bucket and the refill from then to
  `last`. The products are linear in no variable, so distributivity is stated as a
  lemma and used by name. `RefusalIsEarnedHolds` is the other direction: since any
  tick, what is left and what went out are together a full bucket or the refill from
  that tick on (`DrainInv`), so an empty bucket has handed that much out.
- `RateLimiterProofs`. `BurstRefillAndRepeatsHolds` keeps one account for each client and
  window: what the bucket holds (`Level`, a missing one holds a full bucket) and what
  was let through since are bounded by a full bucket and the refill up to what the
  bucket has reached (`Reach`). A reading older than `seen` gives back at most `MaxStale`
  ticks, and that is what the tally counts; an eviction makes a full bucket no earlier
  than the evicted one had refilled, by `EvictionAssumption`. `RefusalIsEarnedHolds` is
  the other direction, as for the budget. `ForgottenInTimeHolds` counts the ticks since
  the last sweep (`SweptUpTo`), which needs that the remainder of the next tick is one
  more or zero. `TypeCorrect` is proved and not run.
- `RefresherProofs`. `ProbesAreSpacedHolds` rests on `SpacedInv`: while a breaker is open,
  its `since` is at most the time since the last run that asked GitHub began, because
  every stamp comes after that. `RecoversInTimeHolds` rests on `RecoverInv`: while both
  services answer, an instance its breaker keeps waiting has been waiting for as long as
  they do, or has waved a young row through since, and one whose run is over leaves a
  young row, where young is counted in moments from the stamp with the slack of a late
  run on either side. It holds for every `RefreshEvery`. `TypeCorrect` is proved and not run.
- `OpsGridProofs`. `UpsertsNeverDeadlockHolds` rests on `LocksOK`: a statement holds only
  rows before the ones it still has to write, so two of them cannot each wait for the
  other. `ReportsStandHolds` and `EtagMeansReplayedHolds` rest on `TableInv`, whose parts
  are the log, the report under way, the checks, and what a replay has written of the
  version it read. That a nonempty set of naturals has a least element comes from
  `WellFoundedInduction`. `GridCatchesUpHolds` rests on `GridInv`: the loops and the cells a
  roll-up has read are what they should be, and for a day whose cell is not fresh some
  instance still owes a reading, within `AggregateEvery` of the day's news or of the
  instance's own last failure or start (`Owed`).
- `RolloutProofs`. `RolloutInv` says what the proxy holds of a container in each phase
  (`ProxyInv`), that its grace period outlasts what it has left to do (`GraceInv`), that a
  request has less left than the pause and the drain of its container (`RequestInv`), and
  which containers are ready at each step of `rollout.sh` (`SoundInv`). `AlwaysServedHolds`
  and `NothingIsCutHolds` follow, for any timings that satisfy `RolloutAssumption`.
- `ContactFormProofs`. One invariant (`FormInv`) of five parts: types, how long the page
  has been open (`DwellInv`), what the panel shows of which send (`ScreenInv`), what is on
  the wire and what the api made of it (`WireInv`), and the lock beside the floor
  (`LockInv`). `ReceiptNamesARowHolds`, `ScreenIsOneSendHolds`, `SentenceIsTrueHolds` and
  `LockMatchesFloorHolds` are read off it. `MirrorLeansLooseHolds` is about any draft within
  the fields' bounds, not only those a run enumerates, with the two exceptions its property
  names. `TrapAlways` carries the honeypot line: unless the field was touched, it is still
  what the press read and the body says.
- `ReadersProofs`. Beside types (`TypeOK`) the invariant says what a call under way was
  asked and how long ago (`CallsOK`), that an entry was true when its fill was sent
  (`EntriesOK`), that what the api says now is not gone (`TruthIsNow`), and that validator
  and memo are one answer no older than a deadline or empty with a failure seen by
  everyone waiting (`MemoOK`). `DownMeansAFailureHolds` and `DrawnIsAnAnswerHolds` follow.
  `SiteImplementsReaders`: each step of the site (`SiteSpec`) is a step of `Readers` or
  leaves its variables alone, so those hold of the site too. `ThemeIsRememberedHolds` rests
  on `ThemeInv` (while the store takes what is written, a snippet reads what was picked last),
  `MenusAgreeHolds` on `MenusInv` (what a button says differs from its dialog only while a
  close event is under way, and the language list's mark is the page's own unless it is
  open or was left by the pointer). The rest of what is proved of the site is about what
  is drawn, for data of any size:
  - `EveryLinkAnswersHolds` rests on `AtInv`: a tab stands at an address (a sequence of
    strings) or nowhere. A path in a language splits back into the two (`HrefOfPath`,
    `PageOfAddress`), because no page's name is a language or reserved; each link of a
    page, its head, the sitemap and the feed is a path in a language; and the links into
    the log name entries the directory has, since newest first is an order in which each
    entry has a place of its own (`EachPlaceIsTaken`).
  - `DrawnIsMeasuredHolds` and `PanelTellsTheTruthHolds` follow from `DrawnIsAnAnswer`: what a
    component is handed is an answer of the api or nothing (`WhatIsHanded`), and each field
    is then followed to the tile, word or sentence it becomes, region by region.
  - `PictureAgreesHolds` counts. A filter leaves each row that passes, once (`KeptIs`), the
    states of the rows are four disjoint parts of them (`FourParts`), a chip's row has an
    address no other row has (`ChipsLeaveARow`), and the cells of a graph are placed one to
    one (`FlattenedIs`), so the first cells of the weeks are as many as the weeks drawn
    (`ColumnsAreWeeks`); the incidents of a list are those listed and those left out
    (`ListedAndUnlisted`), so tile and log agree. Two rows with one address are left out by the property itself.
  - `IslandsAgreeHolds` needs `WorkInv` (what the work island holds is a state and a chip,
    so what differs from no filter differs in one the panel names). The rest is about the
    log as a list of any length: a filter that every entry passes leaves the list
    (`AllAreKept`); the runs of one year rise, do not overlap and cover it (`RunsCut`), so
    the places of the groups number the entries one to one and in order
    (`YearsAreTheEntries`); dates fall along the log, so the years of its groups do
    (`YearsDescend`). A chip's number is the rows it leaves because no tag is the key of
    the chip of all of them: `TAG` refuses it.
  These use five assumptions the runs evaluate: `AddressAssumption` and `PagesAssumption`
  (segments are strings), the part of `VisitAssumption` on typed addresses and
  `IsDirectory` (`no` is the place of a file's name, names differ, and a list of tags holds
  none that `TAG` refuses), `AnswersAssumption`
  (null, an absent field and junk are no word, number or count of the contract), and
  `ContentAssumption` (what stands in a list's field is a list or unusable, which is what
  `Array.isArray` decides; in a rate's, a number or unusable).

Out of the prover's reach: liveness (`QueuedIsSettled`, `PressEnds`), since it needs
ENABLED, and what recursive definitions compute. Every invariant that a passing run checks
is proved. `filter`, the graph's nested loop and the years of the log are written as orders
and places (`Ascending`, `Flattened`, `YearStarts`) and not with the library's recursive
operators and folds, whose results only an induction over the length of a list could give,
so that the proofs can count. The two runs that expect a violation
(`OneMailPerMessage`, `RowsKeepTheLanguage`) have nothing to prove.

## 6. Not modelled

- *Data.* Message building, hashing, number formats, wording, layout, styles. A
  statement is atomic but for the roll-up's row locks, and Postgres is one copy that
  keeps what it committed; isolation between statements is what the models are about.
- *Clocks.* The wall clock does not run backwards; clocks of two instances and of
  Postgres are taken to agree to within a tick. A failing DNS, TLS or AUTH is one of
  the relay's outcomes.
- *Snapshots* and `ReportDeploy`: one insert with a unique key. *Read handlers*: stateless
  queries. *Middleware* other than the limiter: no state shared between requests.
- *Rollout.* The crash of a ready container, a database outage (`/readyz` answers 503),
  the collectors of step 5. During step 3 `web2` asks `http://api:8080` and nothing else,
  so its regions say "did not answer"; `Readers` has that as a failure.
- *Web.* The page `/error-drill`, which fails on purpose; an answer whose arrays hold
  `null` entries, on which the readers throw and the error boundary answers. Focus and the scramble animation of the nameplate, request ids and tracing,
  scrubbing of log lines (regular expressions over characters), completeness of the
  dictionaries, the readout of the legal pages, the words of the head and of JSON-LD,
  static pages, the component gallery. What React keeps of a header on a change of
  language is left open.

More than half of the repository's TypeScript and JavaScript is without behaviour to
model: tables of measurements taken from the design sheets (`tools/gen-sheet-oracle.mjs`,
3,560 lines) and the end-to-end tests' widths, the design tool's own runtime
(`docs/design/support.js`, `doc-page.js`), the development gallery, generated API types,
dictionaries, and the texts of the about, case-study and legal pages, and comments,
which in this code are often longer than what they explain. The models map about
15 per cent of those lines beside the Go and SQL of the api, and what they leave out is
listed above.
