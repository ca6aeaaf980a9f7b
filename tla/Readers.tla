------------------------------ MODULE Readers ------------------------------
(***************************************************************************)
(* How a page of the web front end comes by the api's answers             *)
(* (web/lib/api/readers.ts over web/lib/api/client.ts): the `use cache`    *)
(* readers, the one uncached reader with its conditional-request memo, and *)
(* the streamed regions that wait for them.                                *)
(*                                                                         *)
(* An answer is a name; Regions says what it holds.  A region's fallback   *)
(* is drawn from the moment its page is requested, its reader is called    *)
(* later, and several regions, of one page or of many visitors, call at    *)
(* the same time.  The cache behind `use cache` is Next's: it is modelled  *)
(* from the lifetimes next.config.ts gives it.                             *)
(***************************************************************************)
EXTENDS Integers

CONSTANTS
    Region,      \* streamed regions, of one visitor or of several
    Live,        \* those that call healthLive
    Scenes,      \* the regions open at the same time and the answers that occur
    Key,         \* what a reader asks: a path and its parameters
    KeyOf,       \* [Region -> Key]
    Replies,     \* [Key -> set of the answers the api may give]
    Revalidate,  \* [Key -> Nat], cacheLife, in ticks
    Expire,      \* [Key -> Nat]
    Timeout,     \* DEFAULT_TIMEOUT_MS, in ticks
    Null         \* null: no body, no validator

ASSUME ReadersAssumption ==
    /\ Live \subseteq Region /\ \A s \in Scenes : s.open \subseteq Region
    /\ Region \cap Key = {}
    /\ KeyOf \in [Region -> Key] /\ \A r, s \in Live : KeyOf[r] = KeyOf[s]
    /\ Timeout \in Nat \ {0}
    /\ Revalidate \in [Key -> Nat] /\ Expire \in [Key -> Nat]
    /\ \A k \in Key : Timeout < Revalidate[k] /\ Revalidate[k] <= Expire[k]
    /\ \A k \in Key : Replies[k] # {} /\ Null \notin Replies[k]
    /\ \E k \in Key : \A j \in Key : Expire[j] <= Expire[k]
    /\ \A j, k \in Key : j # k => Replies[j] \cap Replies[k] = {}

VARIABLES
    scene,      \* the regions and answers of this behaviour
    truth,      \* what the api would answer now
    gone,       \* how long ago an answer was last the truth
    entry,      \* the shared cache
    call,       \* the request a region, or a background refresh, has under way
    region,     \* what a region shows
    lastEtag, lastBody,   \* healthLive's memo
    sawFailure  \* a request failed that this region's reader depends on

cacheVars == <<entry>>
memoVars == <<lastEtag, lastBody>>
apiVars == <<truth, gone>>
vars == <<scene, apiVars, cacheVars, memoVars, call, region, sawFailure>>

Caller == Region \cup Key       \* a Key calls when its entry is refreshed in the background
Asked(c) == IF c \in Region THEN KeyOf[c] ELSE c
Body == UNION {Replies[k] : k \in Key}

\* What nobody in the scene asks about keeps still.
Observed == {KeyOf[r] : r \in scene.open}
MaySay(k) == Replies[k] \cap scene.replies
AnAnswer(k) == CHOOSE b \in Replies[k] : TRUE

NoEntry == [body |-> Null, age |-> -1]
NotModified == [kind |-> "not-modified", body |-> Null]
Failed == [kind |-> "fail", body |-> Null]
Ok(b) == [kind |-> "ok", body |-> b]
Idle == [stage |-> "idle", age |-> 0, tag |-> Null, result |-> Failed]
Blank(at) == [at |-> at, body |-> Null, behind |-> 0]

Longest == CHOOSE n \in {Expire[k] : k \in Key} : \A k \in Key : Expire[k] <= n
GoneCap == IF Longest > 2 * Timeout THEN Longest ELSE 2 * Timeout + 1   \* bound: older is all the same

Entry == [body : Body \cup {Null}, age : Int]
Result == [kind : {"ok", "fail", "not-modified"}, body : Body \cup {Null}]
Call == [stage : {"idle", "sent", "replied"}, age : 0..Timeout, tag : Body \cup {Null},
         result : Result]
Shown == [at : {"closed", "waiting", "asking", "down", "ok"}, body : Body \cup {Null},
          behind : Nat]

TypeOK ==
    /\ scene \in Scenes
    /\ truth \in [Key -> Body] /\ \A k \in Key : truth[k] \in Replies[k]
    /\ gone \in [Body -> Nat]
    /\ entry \in [Key -> Entry]
    /\ call \in [Caller -> Call]
    /\ region \in [Region -> Shown]
    /\ lastEtag \in Body \cup {Null} /\ lastBody \in Body \cup {Null}
    /\ sawFailure \in [Region -> BOOLEAN]

Init ==
    /\ scene \in Scenes
    /\ \E asked \in [Observed -> UNION {Replies[k] : k \in Observed}] :
          /\ \A k \in Observed : asked[k] \in MaySay(k)
          /\ truth = [k \in Key |-> IF k \in Observed THEN asked[k] ELSE AnAnswer(k)]
    /\ gone = [b \in Body |-> IF \E k \in Key : truth[k] = b THEN 0 ELSE GoneCap]
    /\ entry = [k \in Key |-> NoEntry]
    /\ call = [c \in Caller |-> Idle]
    /\ region = [r \in Region |-> Blank("closed")]
    /\ lastEtag = Null /\ lastBody = Null
    /\ sawFailure = [r \in Region |-> FALSE]
-----------------------------------------------------------------------------
(***************************************************************************)
(* The cache, as the readers use it                                        *)
(***************************************************************************)

\* The arguments of a `use cache` function are the key of its entry.
CacheKeyNoWindow(k) == IF k = "system30" THEN "system91" ELSE k
CacheKey(k) == k

\* What a cached reader leaves behind: healthOrThrow, systemCached and the
\* others throw on a failure, and what throws is not stored.
StoresFailures(result) == TRUE
Stores(result) == result.kind = "ok"

\* cacheLife: fresh, then served while it is refreshed, then gone.
Fresh(e, k) == e.age >= 0 /\ e.age < Revalidate[k]
Servable(e, k) == e.age >= 0 /\ e.age < Expire[k]

Sent(tag) == [stage |-> "sent", age |-> 0, tag |-> tag, result |-> Failed]

\* *Now and a *Live region: null is DOWN, a body is readOk(body).
Drawn(b) == IF b = Null THEN Blank("down")
            ELSE [at |-> "ok", body |-> b, behind |-> gone[b]]

\* A page is requested, or requested again: its shell is streamed with the fallbacks.
Request(r) ==
    /\ r \in scene.open /\ region[r].at \in {"closed", "down", "ok"}
    /\ region' = [region EXCEPT ![r] = Blank("waiting")]
    /\ sawFailure' = [sawFailure EXCEPT ![r] = FALSE]
    /\ UNCHANGED <<scene, apiVars, cacheVars, memoVars, call>>

\* A cached reader whose entry may be served; an old one is refreshed behind the answer.
Hit(r) ==
    LET k == CacheKey(KeyOf[r]) IN
    /\ r \notin Live /\ region[r].at = "waiting"
    /\ Servable(entry[k], k)
    /\ region' = [region EXCEPT ![r] = Drawn(entry[k].body)]
    /\ call' = IF ~Fresh(entry[k], k) /\ call[k].stage = "idle"
               THEN [call EXCEPT ![k] = Sent(Null)] ELSE call
    /\ UNCHANGED <<scene, apiVars, cacheVars, memoVars, sawFailure>>

\* A cached reader without one: the region waits for the fill.
Miss(r) ==
    LET k == CacheKey(KeyOf[r]) IN
    /\ r \notin Live /\ region[r].at = "waiting"
    /\ ~Servable(entry[k], k)
    /\ region' = [region EXCEPT ![r].at = "asking"]
    /\ call' = [call EXCEPT ![r] = Sent(Null)]
    /\ UNCHANGED <<scene, apiVars, cacheVars, memoVars, sawFailure>>

\* healthLive: the validator is read before the await.
AskLive(r) ==
    /\ r \in Live /\ region[r].at = "waiting"
    /\ region' = [region EXCEPT ![r].at = "asking"]
    /\ call' = [call EXCEPT ![r] = Sent(lastEtag)]
    /\ UNCHANGED <<scene, apiVars, cacheVars, memoVars, sawFailure>>
-----------------------------------------------------------------------------
(***************************************************************************)
(* apiGet                                                                  *)
(***************************************************************************)

\* The api answers with the truth of the moment, or says it has not changed.
ApiAnswers(c) ==
    LET b == truth[Asked(c)] IN
    /\ call[c].stage = "sent"
    /\ call' = [call EXCEPT ![c].stage = "replied",
                            ![c].result = IF call[c].tag = b THEN NotModified ELSE Ok(b)]
    /\ UNCHANGED <<scene, apiVars, cacheVars, memoVars, region, sawFailure>>

\* Refused, cut off by the deadline, a status that is not ok, a body that is no object.
ApiFails(c) ==
    /\ call[c].stage = "sent"
    /\ call' = [call EXCEPT ![c].stage = "replied", ![c].result = Failed]
    /\ UNCHANGED <<scene, apiVars, cacheVars, memoVars, region, sawFailure>>

Stored(c) == [body |-> call[c].result.body, age |-> call[c].age]

\* A fill a region waited for.
Filled(r) ==
    LET k == CacheKey(KeyOf[r])  result == call[r].result IN
    /\ r \notin Live /\ region[r].at = "asking" /\ call[r].stage = "replied"
    /\ entry' = IF Stores(result) THEN [entry EXCEPT ![k] = Stored(r)] ELSE entry
    /\ region' = [region EXCEPT ![r] = Drawn(result.body)]
    /\ sawFailure' = [sawFailure EXCEPT ![r] = @ \/ result.kind = "fail"]
    /\ call' = [call EXCEPT ![r] = Idle]
    /\ UNCHANGED <<scene, apiVars, memoVars>>

\* A refresh behind a served answer; a failed one leaves the entry as it is.
Refreshed(k) ==
    /\ call[k].stage = "replied"
    /\ entry' = IF Stores(call[k].result) THEN [entry EXCEPT ![k] = Stored(k)] ELSE entry
    /\ call' = [call EXCEPT ![k] = Idle]
    /\ UNCHANGED <<scene, apiVars, memoVars, region, sawFailure>>

\* The memo after healthLive's answer, and what it returns.
Memo(result) ==
    CASE result.kind = "not-modified" -> [etag |-> lastEtag, body |-> lastBody]
      [] result.kind = "fail"         -> [etag |-> Null, body |-> Null]
      [] OTHER                        -> [etag |-> result.body, body |-> result.body]

LiveAnswers(r) ==
    LET result == call[r].result
        after == Memo(result) IN
    /\ r \in Live /\ region[r].at = "asking" /\ call[r].stage = "replied"
    /\ lastEtag' = after.etag /\ lastBody' = after.body
    /\ region' = [region EXCEPT ![r] = Drawn(after.body)]
    /\ sawFailure' = [s \in Region |->
                        \/ sawFailure[s]
                        \/ /\ result.kind = "fail"
                           /\ s = r \/ (s \in Live /\ region[s].at = "asking")]
    /\ call' = [call EXCEPT ![r] = Idle]
    /\ UNCHANGED <<scene, apiVars, cacheVars>>
-----------------------------------------------------------------------------
\* Something the api reports changes.
Change(k) ==
    /\ k \in Observed
    /\ \E b \in MaySay(k) \ {truth[k]} :
          /\ truth' = [truth EXCEPT ![k] = b]
          /\ gone' = [gone EXCEPT ![b] = 0]
    /\ UNCHANGED <<scene, cacheVars, memoVars, call, region, sawFailure>>

\* A deploy replaces the container: the cache is in its memory, renders are cut off.
Restart ==
    /\ entry' = [k \in Key |-> NoEntry]
    /\ lastEtag' = Null /\ lastBody' = Null
    /\ call' = [c \in Caller |-> Idle]
    /\ region' = [r \in Region |-> IF region[r].at \in {"waiting", "asking"}
                                   THEN Blank("closed") ELSE region[r]]
    /\ UNCHANGED <<scene, apiVars, sawFailure>>

\* AbortSignal.timeout: no request is under way for longer than the deadline.
InTime(c) == call[c].age < Timeout

Tick ==
    /\ \A c \in Caller : InTime(c)
    /\ call' = [c \in Caller |-> IF call[c].stage = "idle" THEN call[c]
                                 ELSE [call[c] EXCEPT !.age = @ + 1]]
    /\ entry' = [k \in Key |-> IF Servable(entry[k], k)
                               THEN [entry[k] EXCEPT !.age = @ + 1] ELSE entry[k]]
    /\ gone' = [b \in Body |-> IF (\E k \in Key : truth[k] = b) \/ gone[b] >= GoneCap
                               THEN gone[b] ELSE gone[b] + 1]
    /\ UNCHANGED <<scene, truth, memoVars, region, sawFailure>>

Next ==
    \/ \E r \in Region : Request(r) \/ Hit(r) \/ Miss(r) \/ AskLive(r) \/ Filled(r) \/ LiveAnswers(r)
    \/ \E c \in Caller : ApiAnswers(c) \/ ApiFails(c)
    \/ \E k \in Key : Refreshed(k) \/ Change(k)
    \/ Restart
    \/ Tick

Spec == Init /\ [][Next]_vars
-----------------------------------------------------------------------------
(***************************************************************************)
(* Properties                                                              *)
(***************************************************************************)

\* A region says that nothing answered only if a request failed that it waited
\* for itself: no failure is kept for the next visitor (readers.ts:60-75,
\* 212-217).  For the uncached reader one more failure counts, that of another
\* visitor's call under way at the same time, which empties the memo between
\* this call's question and its 304 (readers.ts:140, 148, 152-158).
DownMeansAFailure ==
    \A r \in Region : region[r].at = "down" => sawFailure[r]

\* What a region draws answers the question it asked, with the window it asked
\* for (readers.ts:230-238), and the api would have given that answer less than
\* the entry's expire time ago; healthLive's, at most two deadlines ago, however
\* the calls that share its memo overlap (readers.ts:92-103).
DrawnIsAnAnswer ==
    \A r \in Region : region[r].at = "ok" =>
        /\ region[r].body \in Replies[KeyOf[r]]
        /\ region[r].behind <= IF r \in Live THEN 2 * Timeout ELSE Expire[KeyOf[r]] - 1
=============================================================================
