----------------------------- MODULE RateLimiter -----------------------------
(***************************************************************************)
(* The token bucket per client of internal/middleware/ratelimit.go: take,  *)
(* which reads the clock before it takes the lock, and the janitor that    *)
(* forgets idle clients.  The same type stands in front of every /api/     *)
(* path and, with contact's own numbers, in front of POST /api/contact.    *)
(*                                                                         *)
(* Tokens are counted in units, Unit of them to a token, so that the float *)
(* refill is exact.  A request whose client cannot be resolved passes the  *)
(* gate without touching any of this and is not modelled.                  *)
(***************************************************************************)
EXTENDS Integers

CONSTANTS
    Client,     \* ip_hash buckets: the keys of the map
    Thread,     \* request goroutines
    Janitor,    \* the goroutine of sweep
    Burst,      \* burst
    Unit,       \* units in a token
    Refill,     \* units a tick gives back: refillPerSecond
    FillTime,   \* ticks in which an empty bucket fills
    IdleTTL,    \* idleTTL
    SweepEvery, \* sweepEvery
    MaxStale,   \* how long a goroutine may wait between clock and lock
    Horizon     \* bound: the clock stops here

Full == Burst * Unit

ASSUME RateAssumption ==
    /\ Janitor \notin Thread
    /\ Burst \in Nat \ {0}
    /\ Unit \in Nat \ {0}
    /\ Refill \in Nat
    /\ FillTime \in Nat
    /\ Refill * FillTime = Full
    /\ IdleTTL \in Nat
    /\ SweepEvery \in Nat \ {0}
    /\ MaxStale \in Nat
    /\ Horizon \in Nat

\* An evicted bucket has earned a full one by the oldest reading that can still
\* come to the lock.  Of contact's limiter, whose bucket fills in the very ten
\* minutes of idleTTL (policy.go:56-57), it says that no goroutine waits for the
\* lock longer than a tick: one that did would fill its new bucket twice.
ASSUME EvictionAssumption == IdleTTL + 1 >= FillTime + MaxStale

VARIABLES
    clock,
    buckets,   \* RateLimiter.buckets: the clients in the map and their bucket
    asking,    \* goroutines between reading the clock and taking the lock
    now,       \* what each of them read
    key,       \* the client each request is for
    due,       \* the janitor's ticker has fired
    tally,     \* observation: each client's requests let through, and how often
               \* its bucket was handed an older reading than the one before
    ledger     \* observation: tally, as it stood at the end of each tick

callerVars == <<asking, now, key>>
vars == <<clock, buckets, callerVars, due, tally, ledger>>

Bucket == [tokens : 0..Full, seen : 0..Horizon]

Refilled(b, n) ==
    LET earned == IF n > b.seen THEN Refill * (n - b.seen) ELSE 0
    IN  IF b.tokens + earned < Full THEN b.tokens + earned ELSE Full

Available(c, n) == IF c \in DOMAIN buckets THEN Refilled(buckets[c], n) ELSE Full

ReadClock(g) ==
    /\ g \notin asking
    /\ asking' = asking \cup {g}
    /\ now' = [now EXCEPT ![g] = clock]
    /\ UNCHANGED <<clock, buckets, due, tally, ledger>>

Arrive(t, c) ==
    /\ ReadClock(t)
    /\ key' = [key EXCEPT ![t] = c]

Left(g) ==
    /\ asking' = asking \ {g}
    /\ now' = [now EXCEPT ![g] = 0]

\* Mutant: the last token stays in the bucket.
AllowsKeepsOne(available) == available > Unit

Allows(available) == available >= Unit

\* The reading is older than the one the bucket has.
IsOld(c, n) == c \in DOMAIN buckets /\ n < buckets[c].seen

Counted(t, admitted, old) ==
    [admitted |-> IF admitted THEN t.admitted + 1 ELSE t.admitted,
     old |-> IF old THEN t.old + 1 ELSE t.old]

\* take: seen follows the caller's clock whether or not it moves forward.
Take(t) ==
    /\ t \in asking
    /\ LET c == key[t]
           available == Available(c, now[t])
       IN  /\ tally' = [tally EXCEPT ![c] = Counted(@, Allows(available), IsOld(c, now[t]))]
           /\ buckets' = [d \in DOMAIN buckets \cup {c} |->
                IF d = c
                THEN [tokens |-> IF Allows(available) THEN available - Unit ELSE available,
                      seen |-> now[t]]
                ELSE buckets[d]]
    /\ Left(t)
    /\ UNCHANGED <<clock, key, due, ledger>>

SweepBegins ==
    /\ due
    /\ ReadClock(Janitor)
    /\ UNCHANGED key

\* Mutants: every bucket unseen since the last sweep, and none at all.
IdleTooSoon(b, n) == n - b.seen > 0
IdleNever(b, n) == FALSE

Idle(b, n) == n - b.seen > IdleTTL

Evict ==
    /\ Janitor \in asking
    /\ buckets' = [c \in {d \in DOMAIN buckets : ~Idle(buckets[d], now[Janitor])} |->
                      buckets[c]]
    /\ due' = FALSE
    /\ Left(Janitor)
    /\ UNCHANGED <<clock, key, tally, ledger>>

\* Nobody waits for the lock longer than MaxStale, and the janitor, who has
\* nothing else to do, finishes a sweep before the next tick.
Tick ==
    /\ clock < Horizon
    /\ ~due
    /\ \A t \in asking : clock - now[t] < MaxStale
    /\ clock' = clock + 1
    /\ due' = (clock' % SweepEvery = 0)
    /\ ledger' = [ledger EXCEPT ![clock] = tally]
    /\ UNCHANGED <<buckets, callerVars, tally>>

NoTally == [admitted |-> 0, old |-> 0]

Init ==
    /\ clock = 0
    /\ buckets = [c \in {} |-> {}]
    /\ asking = {}
    /\ now = [g \in Thread \cup {Janitor} |-> 0]
    /\ key \in [Thread -> Client]
    /\ due = FALSE
    /\ tally = [c \in Client |-> NoTally]
    /\ ledger = [t \in 0..Horizon |-> [c \in Client |-> NoTally]]

Next ==
    \/ \E t \in Thread : Take(t) \/ \E c \in Client : Arrive(t, c)
    \/ SweepBegins
    \/ Evict
    \/ Tick

Spec == Init /\ [][Next]_vars
-----------------------------------------------------------------------------
\* Every bucket in the map is a bucket: never overdrawn, never over full.
TypeOK ==
    /\ clock \in 0..Horizon
    /\ DOMAIN buckets \subseteq Client
    /\ \A c \in DOMAIN buckets : buckets[c] \in Bucket
    /\ asking \subseteq Thread \cup {Janitor}
    /\ now \in [Thread \cup {Janitor} -> 0..clock]
    /\ key \in [Thread -> Client]
    /\ due \in BOOLEAN
    /\ tally \in [Client -> [admitted : Nat, old : Nat]]
    /\ ledger \in [0..Horizon -> [Client -> [admitted : Nat, old : Nat]]]

\* Requests of a client let through after the end of tick s, and how many of
\* its readings were out of order.
Since(c, s) == tally[c].admitted - ledger[s][c].admitted
OldSince(c, s) == tally[c].old - ledger[s][c].old

\* In any window a client gets one full bucket, the refill of the window's
\* length, and the refill of MaxStale again for every reading that came to the
\* lock after a later one.  Being forgotten by the janitor gains it nothing.
BurstRefillAndRepeats ==
    \A c \in Client : \A s \in 0..(clock - 1) :
        Since(c, s) * Unit
            <= Full + Refill * (clock - s - 1 + MaxStale + MaxStale * OldSince(c, s))

\* A client is turned away only if it has had its burst within the time a
\* bucket takes to fill, whatever the janitor and other requests did.
LastFill(c) ==
    LET s == clock - FillTime - MaxStale - 1
    IN  IF s < 0 THEN tally[c].admitted ELSE Since(c, s)

Admitted(c) == tally'[c].admitted > tally[c].admitted

RefusalIsEarned ==
    [][\A t \in Thread :
          t \in asking /\ t \notin asking' /\ ~Admitted(key[t]) =>
              LastFill(key[t]) >= Burst]_vars

\* A client is forgotten at the first sweep after idleTTL has passed.
ForgottenInTime ==
    \A c \in DOMAIN buckets :
        clock - buckets[c].seen <= IdleTTL + SweepEvery
=============================================================================
