-------------------------- MODULE RateLimiterProofs --------------------------
(***************************************************************************)
(* The limiter lets through one full bucket, the refill of the window and  *)
(* a little more for every reading out of order, and the janitor keeps its *)
(* promise to forget, for any number of clients and requests and every     *)
(* rate that EvictionAssumption admits.                                    *)
(***************************************************************************)
EXTENDS RateLimiter, TLAPS

\* The constants and what is made of them are numbers.
LEMMA Numbers ==
    /\ Full \in Nat /\ Unit \in Nat \ {0} /\ Refill \in Nat /\ FillTime \in Nat \ {0}
    /\ IdleTTL \in Nat /\ MaxStale \in Nat /\ SweepEvery \in Nat \ {0} /\ Horizon \in Nat
    /\ Full = Refill * FillTime /\ MaxStale <= IdleTTL
<1>1. /\ Unit \in Nat \ {0} /\ Burst \in Nat \ {0} /\ Refill \in Nat /\ FillTime \in Nat
      /\ IdleTTL \in Nat /\ MaxStale \in Nat /\ SweepEvery \in Nat \ {0} /\ Horizon \in Nat
      /\ Full = Refill * FillTime
  BY RateAssumption
<1>2. Full \in Nat \ {0}
  BY <1>1 DEF Full
<1>3. FillTime # 0
  BY <1>1, <1>2
<1>4. QED
  BY <1>1, <1>2, <1>3, EvictionAssumption

\* A product grows with its second factor.
LEMMA Distributes ==
    ASSUME NEW k \in Int, NEW m \in Int, NEW n \in Int
    PROVE  k * (m + n) = k * m + k * n
  OBVIOUS

\* And with it so does its order.
LEMMA Monotone ==
    ASSUME NEW k \in Nat, NEW m \in Int, NEW n \in Int, m <= n
    PROVE  k * m <= k * n
<1>1. n = m + (n - m) /\ n - m \in Nat
  OBVIOUS
<1>2. k * n = k * m + k * (n - m)
  BY <1>1, Distributes
<1>3. k * (n - m) \in Nat /\ k * m \in Int
  BY <1>1
<1>4. QED
  BY <1>2, <1>3

\* Two ways to write a number as a multiple and a rest are one.
LEMMA OneRemainder ==
    ASSUME NEW e \in Nat \ {0}, NEW q \in Int, NEW p \in Int,
           NEW r \in 0..(e - 1), NEW k \in 0..(e - 1), e * q + r = e * p + k
    PROVE  r = k
<1>1. e * (q - p) = k - r
  OBVIOUS
<1>2. CASE q = p
  BY <1>2
<1>3. CASE q >= p + 1
  <2>1. e * (q - p) >= e
    BY <1>3
  <2>2. QED
    BY <1>1, <2>1
<1>4. CASE q <= p - 1
  <2>1. e * (q - p) <= 0 - e
    BY <1>4
  <2>2. QED
    BY <1>1, <2>1
<1>5. QED
  BY <1>2, <1>3, <1>4

\* The ticks since the last multiple of e, one tick on.
LEMMA NextRemainder ==
    ASSUME NEW c \in Nat, NEW e \in Nat \ {0}
    PROVE  /\ c % e \in 0..(e - 1)
           /\ (c + 1) % e = 0 \/ (c + 1) % e = (c % e) + 1
<1>1. c % e \in 0..(e - 1) /\ (c + 1) % e \in 0..(e - 1)
  OBVIOUS
<1>2. c = e * (c \div e) + (c % e) /\ c \div e \in Int
  OBVIOUS
<1>3. c + 1 = e * ((c + 1) \div e) + ((c + 1) % e) /\ (c + 1) \div e \in Int
  OBVIOUS
<1>4. CASE (c % e) + 1 < e
  <2>1. (c % e) + 1 \in 0..(e - 1) /\ c + 1 = e * (c \div e) + ((c % e) + 1)
    BY <1>1, <1>2, <1>4
  <2>2. QED
    BY <1>1, <1>2, <1>3, <2>1, OneRemainder
<1>5. CASE (c % e) + 1 = e
  <2>1. c + 1 = e * (c \div e + 1) + 0
    BY <1>2, <1>5
  <2>2. c \div e + 1 \in Int /\ 0 \in 0..(e - 1)
    BY <1>2
  <2>3. QED
    BY <1>1, <1>3, <2>1, <2>2, OneRemainder
<1>6. QED
  BY <1>1, <1>4, <1>5

\* What a refill leaves in a bucket.
LEMMA RefilledBounds ==
    ASSUME NEW b \in Bucket, NEW n \in Nat
    PROVE  /\ Refilled(b, n) \in 0..Full
           /\ n >= b.seen => Refilled(b, n) <= b.tokens + Refill * (n - b.seen)
           /\ n <= b.seen => Refilled(b, n) = b.tokens
           /\ Refilled(b, n) >= b.tokens
           /\ Refilled(b, n) = Full \/ Refilled(b, n) >= b.tokens + Refill * (n - b.seen)
<1>1. b.tokens \in 0..Full /\ b.seen \in Nat /\ Full \in Nat /\ Refill \in Nat
  BY Numbers DEF Bucket
<1>2. CASE n <= b.seen
  <2>1. Refilled(b, n) = b.tokens
    BY <1>1, <1>2 DEF Refilled
  <2>2. n >= b.seen => Refill * (n - b.seen) = 0
    BY <1>1, <1>2
  <2>3. Refill * (n - b.seen) <= Refill * 0 /\ Refill * (n - b.seen) \in Int
    BY <1>1, <1>2, Monotone
  <2>4. QED
    BY <1>1, <1>2, <2>1, <2>2, <2>3
<1>3. CASE n > b.seen
  <2>1. Refill * (n - b.seen) \in Nat
    BY <1>1, <1>3
  <2>2. QED
    BY <1>1, <1>3, <2>1 DEF Refilled
<1>4. QED
  BY <1>1, <1>2, <1>3

(***************************************************************************)
(* Types, and what a goroutine in front of the lock may hold.              *)
(***************************************************************************)

\* Nobody holds a reading older than MaxStale, the janitor none of an earlier tick.
FreshReadings ==
    /\ \A g \in asking : clock - now[g] <= MaxStale
    /\ Janitor \in asking => due /\ now[Janitor] = clock

SeenBefore == \A c \in DOMAIN buckets : buckets[c].seen <= clock

LimiterInv == TypeOK /\ FreshReadings /\ SeenBefore

\* A request leaves its client a bucket last seen at its own reading, with what
\* it found or a token less; other buckets stay.
LEMMA TakeLeaves ==
    ASSUME LimiterInv, NEW t \in Thread, Take(t)
    PROVE  /\ key[t] \in Client /\ key[t] \in DOMAIN buckets' /\ DOMAIN buckets' \subseteq Client
           /\ now[t] \in 0..clock /\ now[t] \in Nat /\ clock - now[t] <= MaxStale
           /\ Available(key[t], now[t]) \in 0..Full
           /\ buckets'[key[t]] \in Bucket /\ buckets'[key[t]].seen = now[t]
           /\ buckets'[key[t]].tokens = IF Allows(Available(key[t], now[t]))
                                        THEN Available(key[t], now[t]) - Unit
                                        ELSE Available(key[t], now[t])
           /\ \A d \in DOMAIN buckets' : d # key[t] => d \in DOMAIN buckets /\ buckets'[d] = buckets[d]
           /\ tally' = [tally EXCEPT ![key[t]] =
                           Counted(@, Allows(Available(key[t], now[t])), IsOld(key[t], now[t]))]
           /\ clock' = clock /\ ledger' = ledger /\ key' = key /\ due' = due
           /\ asking' = asking \ {t} /\ now' = [now EXCEPT ![t] = 0]
<1> DEFINE c == key[t]
           available == Available(c, now[t])
           left == IF Allows(available) THEN available - Unit ELSE available
<1>1. /\ c \in Client /\ now[t] \in 0..clock /\ now[t] \in Nat /\ clock - now[t] <= MaxStale
      /\ clock \in 0..Horizon /\ Horizon \in Nat
  BY Numbers DEF LimiterInv, TypeOK, FreshReadings, Take
<1>2. available \in 0..Full
  <2>1. CASE c \in DOMAIN buckets
    BY <2>1, <1>1, RefilledBounds DEF Available, LimiterInv, TypeOK
  <2>2. CASE c \notin DOMAIN buckets
    BY <2>2, Numbers DEF Available
  <2>3. QED
    BY <2>1, <2>2
<1>3. left \in 0..Full
  BY <1>2, Numbers DEF Allows
<1>4. buckets' = [d \in DOMAIN buckets \cup {c} |->
                    IF d = c THEN [tokens |-> left, seen |-> now[t]] ELSE buckets[d]]
  BY DEF Take
<1>5. DOMAIN buckets' = DOMAIN buckets \cup {c} /\ buckets'[c] = [tokens |-> left, seen |-> now[t]]
  BY <1>4
<1>6. buckets'[c] \in Bucket /\ buckets'[c].seen = now[t] /\ buckets'[c].tokens = left
  BY <1>1, <1>3, <1>5 DEF Bucket
<1>7. \A d \in DOMAIN buckets' : d # c => d \in DOMAIN buckets /\ buckets'[d] = buckets[d]
  BY <1>4
<1>8. DOMAIN buckets' \subseteq Client /\ c \in DOMAIN buckets'
  BY <1>1, <1>5 DEF LimiterInv, TypeOK
<1>9. /\ tally' = [tally EXCEPT ![c] = Counted(@, Allows(available), IsOld(c, now[t]))]
      /\ clock' = clock /\ ledger' = ledger /\ key' = key /\ due' = due
      /\ asking' = asking \ {t} /\ now' = [now EXCEPT ![t] = 0]
  BY DEF Take, Left
<1>10. QED
  BY <1>1, <1>2, <1>6, <1>7, <1>8, <1>9

\* An eviction keeps the buckets seen within idleTTL, and those as they are.
LEMMA EvictLeaves ==
    ASSUME LimiterInv, Evict
    PROVE  /\ DOMAIN buckets' \subseteq DOMAIN buckets
           /\ \A d \in DOMAIN buckets' : buckets'[d] = buckets[d] /\ clock - buckets[d].seen <= IdleTTL
           /\ \A d \in DOMAIN buckets \ DOMAIN buckets' : clock - buckets[d].seen > IdleTTL
           /\ due' = FALSE /\ clock' = clock /\ key' = key /\ tally' = tally /\ ledger' = ledger
           /\ asking' = asking \ {Janitor} /\ now' = [now EXCEPT ![Janitor] = 0]
<1>1. /\ now[Janitor] = clock /\ clock \in Nat
      /\ \A d \in DOMAIN buckets : buckets[d].seen \in Nat
  BY Numbers DEF LimiterInv, FreshReadings, TypeOK, Evict, Bucket
<1>2. /\ DOMAIN buckets' = {d \in DOMAIN buckets : ~Idle(buckets[d], clock)}
      /\ \A d \in DOMAIN buckets' : buckets'[d] = buckets[d]
  BY <1>1 DEF Evict
<1>3. \A d \in DOMAIN buckets : Idle(buckets[d], clock) <=> clock - buckets[d].seen > IdleTTL
  BY DEF Idle
<1>4. \A d \in DOMAIN buckets : ~(clock - buckets[d].seen > IdleTTL) => clock - buckets[d].seen <= IdleTTL
  BY <1>1, Numbers
<1>5. QED
  BY <1>2, <1>3, <1>4 DEF Evict, Left

\* No client has a bucket before the first request.
LEMMA LimiterInit == Init => LimiterInv
<1>1. Init => TypeOK
  BY Numbers DEF Init, TypeOK, NoTally
<1>2. QED
  BY <1>1 DEF Init, LimiterInv, FreshReadings, SeenBefore

\* Every step keeps them, in whatever order the goroutines come to the lock.
LEMMA LimiterStep ==
    ASSUME LimiterInv, [Next]_vars
    PROVE  LimiterInv'
<1>h. /\ clock \in 0..Horizon /\ clock \in Nat /\ Horizon \in Nat /\ MaxStale \in Nat
      /\ \A g \in Thread \cup {Janitor} : now[g] \in 0..clock
      /\ Janitor \notin Thread
  BY Numbers, RateAssumption DEF LimiterInv, TypeOK
<1>r. ASSUME NEW g \in Thread \cup {Janitor}, ReadClock(g), key' \in [Thread -> Client],
             g = Janitor => due
      PROVE  LimiterInv'
  <2>1. TypeOK'
    <3>1. /\ asking' = asking \cup {g} /\ now' = [now EXCEPT ![g] = clock]
          /\ clock' = clock /\ buckets' = buckets /\ due' = due /\ tally' = tally /\ ledger' = ledger
      BY <1>r DEF ReadClock
    <3>2. asking' \subseteq Thread \cup {Janitor} /\ now' \in [Thread \cup {Janitor} -> 0..clock']
      BY <3>1, <1>h DEF LimiterInv, TypeOK
    <3>3. QED
      BY <1>r, <3>1, <3>2 DEF LimiterInv, TypeOK
  <2>2. FreshReadings'
    <3>1. /\ asking' = asking \cup {g} /\ clock' = clock /\ due' = due
          /\ now'[g] = clock /\ \A f \in asking : f # g => now'[f] = now[f]
      BY <1>r DEF ReadClock, LimiterInv, TypeOK
    <3>2. \A f \in asking : clock - now[f] <= MaxStale
      BY DEF LimiterInv, FreshReadings
    <3>3. \A f \in asking' : clock' - now'[f] <= MaxStale
      BY <3>1, <3>2, <1>h
    <3>4. Janitor \in asking' => due' /\ now'[Janitor] = clock'
      BY <3>1, <1>r DEF LimiterInv, FreshReadings
    <3>5. QED
      BY <3>3, <3>4 DEF FreshReadings
  <2>3. SeenBefore'
    BY <1>r DEF ReadClock, LimiterInv, SeenBefore
  <2>4. QED
    BY <2>1, <2>2, <2>3 DEF LimiterInv
<1>l. ASSUME NEW g \in Thread \cup {Janitor}, asking' = asking \ {g}, now' = [now EXCEPT ![g] = 0],
             clock' = clock, key' = key, due' \in BOOLEAN, g # Janitor => due' = due
      PROVE  FreshReadings' /\ clock' \in 0..Horizon /\ asking' \subseteq Thread \cup {Janitor}
             /\ now' \in [Thread \cup {Janitor} -> 0..clock'] /\ key' \in [Thread -> Client]
  <2>1. now' \in [Thread \cup {Janitor} -> 0..clock']
    BY <1>l, <1>h DEF LimiterInv, TypeOK
  <2>2. FreshReadings'
    <3>1. \A f \in asking' : f \in asking /\ f # g /\ now'[f] = now[f]
      BY <1>l DEF LimiterInv, TypeOK
    <3>2. \A f \in asking' : clock' - now'[f] <= MaxStale
      BY <3>1, <1>l DEF LimiterInv, FreshReadings
    <3>3. ASSUME Janitor \in asking' PROVE due' /\ now'[Janitor] = clock'
      <4>1. Janitor \in asking /\ Janitor # g /\ now'[Janitor] = now[Janitor]
        BY <3>1, <3>3
      <4>2. due /\ now[Janitor] = clock
        BY <4>1 DEF LimiterInv, FreshReadings
      <4>3. due' = due /\ clock' = clock
        BY <4>1, <1>l
      <4>4. QED
        BY <4>1, <4>2, <4>3, Zenon
    <3>4. QED
      BY <3>2, <3>3 DEF FreshReadings
  <2>3. QED
    BY <1>l, <1>h, <2>1, <2>2 DEF LimiterInv, TypeOK
<1>1. ASSUME NEW t \in Thread, NEW c \in Client, Arrive(t, c) PROVE LimiterInv'
  <2>1. key' \in [Thread -> Client] /\ ReadClock(t) /\ t # Janitor
    BY <1>1, <1>h DEF Arrive, LimiterInv, TypeOK
  <2>2. QED
    BY <2>1, <1>r
<1>2. ASSUME NEW t \in Thread, Take(t) PROVE LimiterInv'
  <2>1. FreshReadings' /\ clock' \in 0..Horizon /\ asking' \subseteq Thread \cup {Janitor}
        /\ now' \in [Thread \cup {Janitor} -> 0..clock'] /\ key' \in [Thread -> Client] /\ due' \in BOOLEAN
    <3>1. /\ asking' = asking \ {t} /\ now' = [now EXCEPT ![t] = 0]
          /\ clock' = clock /\ key' = key /\ due' = due /\ due \in BOOLEAN
      BY <1>2, TakeLeaves DEF LimiterInv, TypeOK
    <3>2. QED
      BY <3>1, <1>l
  <2>2. DOMAIN buckets' \subseteq Client /\ \A d \in DOMAIN buckets' : buckets'[d] \in Bucket
    BY <1>2, TakeLeaves DEF LimiterInv, TypeOK
  <2>3. SeenBefore'
    BY <1>2, <1>h, TakeLeaves DEF LimiterInv, SeenBefore
  <2>4. tally' \in [Client -> [admitted : Nat, old : Nat]] /\ ledger' = ledger
    <3> DEFINE allows == Allows(Available(key[t], now[t]))
               old == IsOld(key[t], now[t])
    <3>1. /\ tally' = [tally EXCEPT ![key[t]] = Counted(@, allows, old)]
          /\ key[t] \in Client /\ ledger' = ledger
          /\ tally \in [Client -> [admitted : Nat, old : Nat]]
      BY <1>2, TakeLeaves DEF LimiterInv, TypeOK
    <3> HIDE DEF allows, old
    <3>2. Counted(tally[key[t]], allows, old) \in [admitted : Nat, old : Nat]
      BY <3>1 DEF Counted
    <3>3. QED
      BY <3>1, <3>2
  <2>5. TypeOK'
    BY <2>1, <2>2, <2>4 DEF LimiterInv, TypeOK
  <2>6. QED
    BY <2>1, <2>3, <2>5 DEF LimiterInv
<1>3. CASE SweepBegins
  BY <1>3, <1>r DEF SweepBegins, LimiterInv, TypeOK
<1>4. CASE Evict
  <2>1. FreshReadings' /\ clock' \in 0..Horizon /\ asking' \subseteq Thread \cup {Janitor}
        /\ now' \in [Thread \cup {Janitor} -> 0..clock'] /\ key' \in [Thread -> Client] /\ due' \in BOOLEAN
    BY <1>4, <1>l, EvictLeaves
  <2>2. /\ DOMAIN buckets' \subseteq Client
        /\ \A d \in DOMAIN buckets' : buckets'[d] \in Bucket /\ buckets'[d].seen <= clock
    BY <1>4, EvictLeaves DEF LimiterInv, TypeOK, SeenBefore
  <2>3. tally' = tally /\ ledger' = ledger /\ clock' = clock
    BY <1>4, EvictLeaves
  <2>4. QED
    BY <2>1, <2>2, <2>3 DEF LimiterInv, TypeOK, SeenBefore
<1>5. CASE Tick
  <2>1. /\ clock' = clock + 1 /\ clock < Horizon /\ ~due /\ due' \in BOOLEAN
        /\ \A t \in asking : clock - now[t] < MaxStale
        /\ ledger' = [ledger EXCEPT ![clock] = tally]
        /\ buckets' = buckets /\ asking' = asking /\ now' = now /\ key' = key /\ tally' = tally
    BY <1>5 DEF Tick, callerVars
  <2>2. now' \in [Thread \cup {Janitor} -> 0..clock']
    BY <2>1, <1>h DEF LimiterInv, TypeOK
  <2>3. TypeOK'
    BY <2>1, <2>2, <1>h DEF LimiterInv, TypeOK
  <2>4. FreshReadings'
    BY <2>1, <1>h DEF LimiterInv, TypeOK, FreshReadings
  <2>5. SeenBefore'
    BY <2>1, <1>h DEF LimiterInv, TypeOK, SeenBefore, Bucket
  <2>6. QED
    BY <2>3, <2>4, <2>5 DEF LimiterInv
<1>6. CASE UNCHANGED vars
  BY <1>6 DEF vars, callerVars, LimiterInv, TypeOK, FreshReadings, SeenBefore
<1>7. QED
  BY <1>1, <1>2, <1>3, <1>4, <1>5, <1>6 DEF Next

\* The limiter keeps a bucket between empty and full, whichever order requests,
\* sweeps and clock readings come in.
THEOREM TypeCorrect == Spec => []TypeOK
<1>1. LimiterInv => TypeOK
  BY DEF LimiterInv
<1>2. QED
  BY <1>1, LimiterInit, LimiterStep, PTL DEF Spec

(***************************************************************************)
(* The window.  As in the send budget, what went out is counted with what  *)
(* is left.  Two things are new: a reading out of order moves the bucket   *)
(* back, by MaxStale at most, and an eviction makes it a full one: not     *)
(* before it has refilled, as late as any reading can still come.          *)
(***************************************************************************)

Level(c) == IF c \in DOMAIN buckets THEN buckets[c].tokens ELSE Full

\* The instant a client's bucket is refilled to, a forgotten one's to the oldest
\* reading still possible, each move backwards given back.
Reach(c, s) == (IF c \in DOMAIN buckets THEN buckets[c].seen ELSE clock - MaxStale)
                   + MaxStale * OldSince(c, s)

\* The instant from which a window that begins after tick s is refilled.
From(s) == s + 1 - MaxStale

Accounted(c, s) ==
    /\ Since(c, s) \in Nat /\ OldSince(c, s) \in Nat
    /\ Since(c, s) # 0 =>
          /\ Reach(c, s) >= From(s)
          /\ Since(c, s) * Unit + Level(c) <= Full + Refill * (Reach(c, s) - From(s))

WindowInv == LimiterInv /\ \A c \in Client : \A s \in 0..(clock - 1) : Accounted(c, s)

\* The accounts are about numbers.
LEMMA WindowTypes ==
    ASSUME LimiterInv, NEW c \in Client, NEW s \in 0..(clock - 1)
    PROVE  /\ clock \in Nat /\ s \in Nat /\ s + 1 <= clock /\ s \in 0..Horizon
           /\ tally[c].admitted \in Nat /\ tally[c].old \in Nat
           /\ ledger[s][c].admitted \in Nat /\ ledger[s][c].old \in Nat
           /\ Since(c, s) \in Int /\ OldSince(c, s) \in Int /\ MaxStale * OldSince(c, s) \in Int
           /\ Level(c) \in 0..Full /\ Reach(c, s) \in Int /\ From(s) \in Int
           /\ c \in DOMAIN buckets => buckets[c].seen \in Nat /\ buckets[c].seen <= clock
                                      /\ buckets[c].tokens \in 0..Full /\ buckets[c] \in Bucket
<1>1. clock \in 0..Horizon /\ Horizon \in Nat /\ MaxStale \in Nat /\ Full \in Nat
  BY Numbers DEF LimiterInv, TypeOK
<1>2. clock \in Nat /\ s \in Nat /\ s + 1 <= clock /\ s \in 0..Horizon
  BY <1>1
<1>3. /\ tally[c] \in [admitted : Nat, old : Nat]
      /\ ledger[s][c] \in [admitted : Nat, old : Nat]
  BY <1>2 DEF LimiterInv, TypeOK
<1>4. c \in DOMAIN buckets => buckets[c].seen \in Nat /\ buckets[c].seen <= clock
                             /\ buckets[c].tokens \in 0..Full /\ buckets[c] \in Bucket
  BY <1>1 DEF LimiterInv, TypeOK, SeenBefore, Bucket
<1>5. Since(c, s) \in Int /\ OldSince(c, s) \in Int
  BY <1>3 DEF Since, OldSince
<1>6. MaxStale * OldSince(c, s) \in Int
  BY <1>1, <1>5
<1>7. Level(c) \in 0..Full
  BY <1>1, <1>4 DEF Level
<1>8. Reach(c, s) \in Int /\ From(s) \in Int
  BY <1>1, <1>2, <1>4, <1>6 DEF Reach, From
<1>9. QED
  BY <1>2, <1>3, <1>4, <1>5, <1>6, <1>7, <1>8

\* What went out and what is left keep their bound while the bucket grows by no
\* more than the refill of the instants it reaches further.
LEMMA Keeps ==
    ASSUME NEW p \in Int, NEW level \in Int, NEW more \in Int, NEW f \in Int,
           NEW k \in Nat, NEW from \in Int, NEW reach \in Int, NEW further \in Int,
           p + level <= f + k * (reach - from),
           more <= level + k * (further - reach)
    PROVE  p + more <= f + k * (further - from)
<1>1. k * (further - from) = k * (reach - from) + k * (further - reach)
  <2>1. further - from = (reach - from) + (further - reach)
    OBVIOUS
  <2>2. QED
    BY <2>1, Distributes
<1>2. k * (reach - from) \in Int /\ k * (further - reach) \in Int
  OBVIOUS
<1>3. QED
  BY <1>1, <1>2

\* A step that lets nobody through, moves no reading back, and grows the bucket
\* by no more than it reaches further.
LEMMA QuietAccounts ==
    ASSUME LimiterInv, NEW c \in Client, NEW s \in 0..(clock - 1), Accounted(c, s),
           Level(c)' \in Int, Reach(c, s)' \in Int,
           tally'[c] = tally[c], ledger'[s][c] = ledger[s][c],
           Reach(c, s)' >= Reach(c, s),
           Level(c)' <= Level(c) + Refill * (Reach(c, s)' - Reach(c, s))
    PROVE  Accounted(c, s)'
<1>1. Since(c, s)' = Since(c, s) /\ OldSince(c, s)' = OldSince(c, s) /\ From(s)' = From(s)
  BY DEF Since, OldSince, From
<1>2. /\ Since(c, s) \in Int /\ Level(c) \in Int /\ Reach(c, s) \in Int /\ From(s) \in Int
      /\ Unit \in Nat /\ Full \in Nat /\ Refill \in Nat
  BY WindowTypes, Numbers
<1>3. CASE Since(c, s) # 0
  <2>1. /\ Reach(c, s) >= From(s)
        /\ Since(c, s) * Unit + Level(c) <= Full + Refill * (Reach(c, s) - From(s))
    BY <1>3 DEF Accounted
  <2>2. Since(c, s) * Unit \in Int
    BY <1>2
  <2>3. Since(c, s) * Unit + Level(c)' <= Full + Refill * (Reach(c, s)' - From(s))
    BY <1>2, <2>1, <2>2, Keeps
  <2>4. Reach(c, s)' >= From(s)
    BY <1>2, <2>1
  <2>5. QED
    BY <1>1, <2>3, <2>4 DEF Accounted
<1>4. QED
  BY <1>1, <1>3 DEF Accounted

\* Where a request leaves its client's bucket: an older reading finds it as it
\* was, a newer one refilled, a first one full.
LEMMA TakeReaches ==
    ASSUME LimiterInv, NEW t \in Thread, Take(t), NEW c \in Client, key[t] = c,
           NEW s \in 0..(clock - 1), OldSince(c, s) \in Nat
    PROVE  /\ Since(c, s)' = Since(c, s) + (IF Allows(Available(c, now[t])) THEN 1 ELSE 0)
           /\ OldSince(c, s)' \in Nat
           /\ Reach(c, s)' \in Int
           /\ Reach(c, s)' >= Reach(c, s)
           /\ Reach(c, s)' >= From(s)
           /\ Available(c, now[t])
                 <= Level(c) + Refill * (Reach(c, s)' - Reach(c, s))
<1> DEFINE allows == Allows(Available(c, now[t]))
           old == IsOld(c, now[t])
<1>1. /\ c \in Client /\ now[t] \in Nat /\ now[t] <= clock /\ clock - now[t] <= MaxStale
      /\ c \in DOMAIN buckets' /\ buckets'[c].seen = now[t] /\ clock' = clock
      /\ MaxStale \in Nat /\ Refill \in Nat /\ Full \in Nat
  BY TakeLeaves, Numbers DEF LimiterInv, TypeOK
<1>2. /\ clock \in Nat /\ s \in Nat /\ s + 1 <= clock
      /\ tally[c].admitted \in Nat /\ tally[c].old \in Nat
      /\ ledger[s][c].admitted \in Nat /\ ledger[s][c].old \in Nat
      /\ c \in DOMAIN buckets => buckets[c].seen \in Nat /\ buckets[c].seen <= clock
                                 /\ buckets[c].tokens \in 0..Full /\ buckets[c] \in Bucket
  BY <1>1, WindowTypes
<1>3. /\ tally' = [tally EXCEPT ![c] = Counted(@, allows, old)] /\ ledger' = ledger
      /\ tally \in [Client -> [admitted : Nat, old : Nat]]
  BY TakeLeaves DEF LimiterInv, TypeOK
<1> HIDE DEF allows
<1>4. /\ tally'[c].admitted = tally[c].admitted + (IF allows THEN 1 ELSE 0)
      /\ tally'[c].old = tally[c].old + (IF old THEN 1 ELSE 0)
  <2> HIDE DEF old
  <2>1. tally'[c] = Counted(tally[c], allows, old)
    BY <1>1, <1>3
  <2>2. QED
    BY <1>2, <2>1 DEF Counted
<1>5. /\ Since(c, s)' = Since(c, s) + (IF allows THEN 1 ELSE 0)
      /\ OldSince(c, s)' = OldSince(c, s) + (IF old THEN 1 ELSE 0)
  BY <1>2, <1>3, <1>4 DEF Since, OldSince
<1>6. Reach(c, s)' = now[t] + MaxStale * OldSince(c, s)'
  BY <1>1 DEF Reach
<1>7. MaxStale * OldSince(c, s) \in Nat /\ OldSince(c, s) \in Nat
  BY <1>1
<1>8. CASE old
  <2>1. c \in DOMAIN buckets /\ now[t] < buckets[c].seen
    BY <1>8 DEF IsOld
  <2>2. MaxStale * OldSince(c, s)' = MaxStale * OldSince(c, s) + MaxStale
    BY <1>1, <1>5, <1>7, <1>8
  <2>3. Reach(c, s) = buckets[c].seen + MaxStale * OldSince(c, s)
    BY <2>1 DEF Reach
  <2>4. Reach(c, s)' >= Reach(c, s) /\ Reach(c, s)' \in Int /\ Reach(c, s) \in Int
        /\ Reach(c, s)' >= From(s)
    BY <1>1, <1>2, <1>6, <1>7, <2>1, <2>2, <2>3 DEF From
  <2>5. Available(c, now[t]) = Level(c) /\ Level(c) \in Nat
    <3>1. Available(c, now[t]) = Refilled(buckets[c], now[t]) /\ Level(c) = buckets[c].tokens
      BY <2>1 DEF Available, Level
    <3>2. now[t] <= buckets[c].seen
      BY <1>1, <1>2, <2>1
    <3>3. QED
      BY <3>1, <3>2, <1>1, <1>2, <2>1, RefilledBounds
  <2>6. Refill * (Reach(c, s)' - Reach(c, s)) \in Nat
    <3>1. Reach(c, s)' - Reach(c, s) \in Nat
      BY <2>4
    <3>2. QED
      BY <3>1, <1>1
  <2>7. QED
    BY <1>5, <1>7, <1>8, <2>4, <2>5, <2>6 DEF allows
<1>9. CASE ~old
  <2>1. OldSince(c, s)' = OldSince(c, s)
    BY <1>5, <1>7, <1>9
  <2>2. CASE c \in DOMAIN buckets
    <3>1. now[t] >= buckets[c].seen
      BY <1>1, <1>2, <1>9, <2>2 DEF IsOld
    <3>2. Reach(c, s) = buckets[c].seen + MaxStale * OldSince(c, s)
      BY <2>2 DEF Reach
    <3>3. Reach(c, s)' - Reach(c, s) = now[t] - buckets[c].seen
          /\ Reach(c, s)' \in Int /\ Reach(c, s) \in Int
      BY <1>1, <1>2, <1>6, <1>7, <2>1, <2>2, <3>2
    <3>4. Reach(c, s)' >= Reach(c, s) /\ Reach(c, s)' >= From(s)
      BY <1>1, <1>2, <1>6, <1>7, <2>1, <2>2, <3>1, <3>3 DEF From
    <3>5. Available(c, now[t]) = Refilled(buckets[c], now[t]) /\ Level(c) = buckets[c].tokens
      BY <2>2 DEF Available, Level
    <3>6. Available(c, now[t]) <= Level(c) + Refill * (Reach(c, s)' - Reach(c, s))
      BY <1>1, <1>2, <2>2, <3>1, <3>3, <3>5, RefilledBounds
    <3>7. QED
      BY <1>5, <1>7, <2>1, <3>3, <3>4, <3>6 DEF allows
  <2>3. CASE c \notin DOMAIN buckets
    <3>1. Reach(c, s) = clock - MaxStale + MaxStale * OldSince(c, s)
      BY <2>3 DEF Reach
    <3>2. Reach(c, s)' >= Reach(c, s) /\ Reach(c, s)' \in Int /\ Reach(c, s) \in Int
          /\ Reach(c, s)' >= From(s)
      BY <1>1, <1>2, <1>6, <1>7, <2>1, <3>1 DEF From
    <3>3. Available(c, now[t]) = Full /\ Level(c) = Full
      BY <2>3 DEF Available, Level
    <3>4. Refill * (Reach(c, s)' - Reach(c, s)) \in Nat
      <4>1. Reach(c, s)' - Reach(c, s) \in Nat
        BY <3>2
      <4>2. QED
        BY <4>1, <1>1
    <3>5. QED
      BY <1>1, <1>5, <1>7, <2>1, <3>2, <3>3, <3>4 DEF allows
  <2>4. QED
    BY <2>2, <2>3
<1>10. QED
  BY <1>8, <1>9

\* A token let through is a token gone.
LEMMA Balance ==
    ASSUME NEW p \in Nat, NEW available \in Nat, NEW allows
    PROVE  (p + (IF allows THEN 1 ELSE 0)) * Unit + (IF allows THEN available - Unit ELSE available)
              = p * Unit + available
<1>1. (p + 1) * Unit = p * Unit + Unit /\ p * Unit \in Nat /\ Unit \in Nat
  BY Numbers
<1>2. QED
  BY <1>1

\* A request keeps its client's account: the first of a window finds a full
\* bucket at most, every other one what the bucket has reached.
LEMMA TakeAccounts ==
    ASSUME LimiterInv, NEW t \in Thread, Take(t), NEW c \in Client, key[t] = c,
           NEW s \in 0..(clock - 1), Accounted(c, s)
    PROVE  Accounted(c, s)'
<1> DEFINE available == Available(c, now[t])
<1>1. /\ available \in 0..Full /\ c \in DOMAIN buckets'
      /\ buckets'[c].tokens = IF Allows(available) THEN available - Unit ELSE available
  BY TakeLeaves
<1>2. /\ Since(c, s)' = Since(c, s) + (IF Allows(available) THEN 1 ELSE 0)
      /\ OldSince(c, s)' \in Nat /\ Reach(c, s)' \in Int
      /\ Reach(c, s)' >= Reach(c, s) /\ Reach(c, s)' >= From(s)
      /\ available <= Level(c) + Refill * (Reach(c, s)' - Reach(c, s))
  BY TakeReaches DEF Accounted
<1> HIDE DEF available
<1>3. /\ Unit \in Nat /\ Full \in Nat /\ Refill \in Nat /\ available \in Nat
      /\ Since(c, s) \in Nat /\ Level(c) \in Int /\ Reach(c, s) \in Int /\ From(s) \in Int
  BY <1>1, WindowTypes, Numbers DEF Accounted
<1>4. Since(c, s)' \in Nat /\ From(s)' = From(s) /\ Level(c)' = buckets'[c].tokens
  BY <1>1, <1>2, <1>3 DEF From, Level
<1>5. Since(c, s)' * Unit + Level(c)' = Since(c, s) * Unit + available
  BY <1>1, <1>2, <1>3, <1>4, Balance
<1>6. Since(c, s) * Unit + available <= Full + Refill * (Reach(c, s)' - From(s))
  <2>1. CASE Since(c, s) = 0
    <3>1. Since(c, s) * Unit = 0 /\ Refill * (Reach(c, s)' - From(s)) \in Nat
      <4>1. Reach(c, s)' - From(s) \in Nat
        BY <1>2, <1>3
      <4>2. QED
        BY <2>1, <4>1, <1>3
    <3>2. QED
      BY <3>1, <1>1, <1>3
  <2>2. CASE Since(c, s) # 0
    <3>1. Since(c, s) * Unit + Level(c) <= Full + Refill * (Reach(c, s) - From(s))
      BY <2>2 DEF Accounted
    <3>2. Since(c, s) * Unit \in Int
      BY <1>3
    <3>3. QED
      BY <3>1, <3>2, <1>2, <1>3, Keeps
  <2>3. QED
    BY <2>1, <2>2
<1>7. QED
  BY <1>2, <1>4, <1>5, <1>6 DEF Accounted

\* Whoever is forgotten has refilled by the oldest reading still to come.
LEMMA EvictAccounts ==
    ASSUME LimiterInv, Evict, NEW c \in Client, NEW s \in 0..(clock - 1), Accounted(c, s)
    PROVE  Accounted(c, s)'
<1>1. /\ clock' = clock /\ tally' = tally /\ ledger' = ledger
      /\ c \in DOMAIN buckets' => c \in DOMAIN buckets /\ buckets'[c] = buckets[c]
      /\ c \in DOMAIN buckets /\ c \notin DOMAIN buckets' => clock - buckets[c].seen > IdleTTL
  BY EvictLeaves
<1>2. /\ clock \in Nat /\ MaxStale * OldSince(c, s) \in Int /\ Reach(c, s) \in Int /\ Level(c) \in 0..Full
      /\ c \in DOMAIN buckets => buckets[c].seen \in Nat /\ buckets[c].tokens \in 0..Full
      /\ Full \in Nat /\ Refill \in Nat /\ MaxStale \in Nat /\ IdleTTL \in Nat /\ FillTime \in Nat
      /\ Full = Refill * FillTime
  BY WindowTypes, Numbers
<1>3. MaxStale * OldSince(c, s)' = MaxStale * OldSince(c, s)
  BY <1>1 DEF OldSince
<1>4. CASE c \in DOMAIN buckets /\ c \notin DOMAIN buckets'
  <2>1. Reach(c, s) = buckets[c].seen + MaxStale * OldSince(c, s)
        /\ Reach(c, s)' = clock - MaxStale + MaxStale * OldSince(c, s)
        /\ Level(c)' = Full /\ Level(c) = buckets[c].tokens
    BY <1>1, <1>3, <1>4 DEF Reach, Level
  <2>2. Reach(c, s)' \in Int /\ FillTime <= Reach(c, s)' - Reach(c, s)
    BY <1>1, <1>2, <1>4, <2>1, EvictionAssumption
  <2>3. Refill * FillTime <= Refill * (Reach(c, s)' - Reach(c, s))
    BY <1>2, <2>2, Monotone
  <2>4. Level(c)' \in Int /\ Reach(c, s)' >= Reach(c, s)
        /\ Level(c)' <= Level(c) + Refill * (Reach(c, s)' - Reach(c, s))
    BY <1>2, <1>4, <2>1, <2>2, <2>3
  <2>5. QED
    BY <1>1, <2>2, <2>4, QuietAccounts
<1>5. CASE c \in DOMAIN buckets <=> c \in DOMAIN buckets'
  <2>1. Reach(c, s)' = Reach(c, s) /\ Level(c)' = Level(c)
    BY <1>1, <1>3, <1>5 DEF Reach, Level
  <2>2. Refill * (Reach(c, s)' - Reach(c, s)) = 0
    BY <1>2, <2>1
  <2>3. QED
    BY <1>1, <1>2, <2>1, <2>2, QuietAccounts
<1>6. QED
  BY <1>1, <1>4, <1>5

\* A window that has begun goes on over a tick: a forgotten client's bucket
\* reaches one instant further.
LEMMA TickAccounts ==
    ASSUME LimiterInv, Tick, NEW c \in Client, NEW s \in 0..(clock - 1), Accounted(c, s)
    PROVE  Accounted(c, s)'
<1>1. /\ clock' = clock + 1 /\ buckets' = buckets /\ tally' = tally
      /\ ledger' = [ledger EXCEPT ![clock] = tally]
  BY DEF Tick
<1>2. /\ clock \in Nat /\ s # clock /\ MaxStale * OldSince(c, s) \in Int /\ Level(c) \in 0..Full
      /\ c \in DOMAIN buckets => buckets[c].seen \in Nat
      /\ Full \in Nat /\ Refill \in Nat /\ MaxStale \in Nat /\ Reach(c, s) \in Int /\ s \in 0..Horizon
  BY WindowTypes, Numbers
<1>3. ledger'[s] = ledger[s] /\ OldSince(c, s)' = OldSince(c, s)
  BY <1>1, <1>2 DEF OldSince, LimiterInv, TypeOK
<1>4. MaxStale * OldSince(c, s)' = MaxStale * OldSince(c, s)
  BY <1>3
<1>5. Level(c)' = Level(c) /\ Reach(c, s)' \in Int
      /\ (Reach(c, s)' = Reach(c, s) \/ Reach(c, s)' = Reach(c, s) + 1)
  BY <1>1, <1>2, <1>4 DEF Level, Reach
<1>6. Reach(c, s)' - Reach(c, s) \in Nat
  BY <1>2, <1>5
<1>7. Refill * (Reach(c, s)' - Reach(c, s)) \in Nat
  BY <1>2, <1>6
<1>8. QED
  BY <1>1, <1>2, <1>3, <1>5, <1>6, <1>7, QuietAccounts

\* Every account begins with a full bucket that nobody has asked.
LEMMA WindowInit == Init => WindowInv
BY LimiterInit DEF Init, WindowInv

\* Every step keeps every client's account of every window.
LEMMA WindowStep ==
    ASSUME WindowInv, [Next]_vars
    PROVE  WindowInv'
<1>i. LimiterInv /\ LimiterInv'
  BY LimiterStep DEF WindowInv
<1>h. clock \in Nat /\ \A c \in Client : \A s \in 0..(clock - 1) : Accounted(c, s)
  BY Numbers DEF WindowInv, LimiterInv, TypeOK
<1>q. ASSUME buckets' = buckets, clock' = clock, tally' = tally, ledger' = ledger PROVE WindowInv'
  BY <1>q, <1>i, <1>h DEF WindowInv, Accounted, Since, OldSince, Reach, From, Level
<1>1. ASSUME NEW t \in Thread, NEW c \in Client, Arrive(t, c) PROVE WindowInv'
  BY <1>1, <1>q DEF Arrive, ReadClock
<1>2. ASSUME NEW t \in Thread, Take(t) PROVE WindowInv'
  <2>1. /\ clock' = clock /\ key[t] \in Client /\ key[t] \in DOMAIN buckets' /\ ledger' = ledger
        /\ \A d \in DOMAIN buckets' : d # key[t] => d \in DOMAIN buckets /\ buckets'[d] = buckets[d]
        /\ tally' = [tally EXCEPT ![key[t]] =
                        Counted(@, Allows(Available(key[t], now[t])), IsOld(key[t], now[t]))]
    BY <1>2, <1>i, TakeLeaves
  <2>2. \A d \in Client : d # key[t] => tally'[d] = tally[d]
    <3>1. tally \in [Client -> [admitted : Nat, old : Nat]]
      BY <1>i DEF LimiterInv, TypeOK
    <3>2. QED
      BY <2>1, <3>1
  <2>3. \A d \in DOMAIN buckets : d \in DOMAIN buckets'
    BY <1>2 DEF Take
  <2>4. ASSUME NEW c \in Client, NEW s \in 0..(clock - 1) PROVE Accounted(c, s)'
    <3>1. CASE key[t] = c
      BY <3>1, <1>2, <1>i, <1>h, TakeAccounts
    <3>2. CASE key[t] # c
      BY <3>2, <2>1, <2>3, <2>2, <1>h DEF Accounted, Since, OldSince, Reach, From, Level
    <3>3. QED
      BY <3>1, <3>2
  <2>5. QED
    BY <2>1, <2>4, <1>i DEF WindowInv
<1>3. CASE SweepBegins
  BY <1>3, <1>q DEF SweepBegins, ReadClock
<1>4. CASE Evict
  <2>1. clock' = clock
    BY <1>4 DEF Evict
  <2>2. QED
    BY <1>4, <2>1, <1>i, <1>h, EvictAccounts DEF WindowInv
<1>5. CASE Tick
  <2>1. ASSUME NEW c \in Client, NEW s \in 0..(clock' - 1) PROVE Accounted(c, s)'
    <3>1. clock' = clock + 1 /\ tally' = tally /\ ledger' = [ledger EXCEPT ![clock] = tally]
      BY <1>5 DEF Tick
    <3>2. CASE s = clock
      <4>1. clock \in 0..Horizon
        BY <1>i DEF LimiterInv, TypeOK
      <4>2. ledger'[s] = tally
        BY <3>1, <3>2, <4>1 DEF LimiterInv, TypeOK, WindowInv
      <4>3. tally[c].admitted \in Nat /\ tally[c].old \in Nat
        BY <1>i DEF LimiterInv, TypeOK
      <4>4. QED
        BY <3>1, <4>2, <4>3 DEF Accounted, Since, OldSince
    <3>3. CASE s # clock
      <4>1. s \in 0..(clock - 1)
        BY <3>1, <3>3, <1>h
      <4>2. QED
        BY <4>1, <1>5, <1>i, <1>h, TickAccounts
    <3>4. QED
      BY <3>2, <3>3
  <2>2. QED
    BY <2>1, <1>i DEF WindowInv
<1>6. CASE UNCHANGED vars
  BY <1>6, <1>q DEF vars
<1>7. QED
  BY <1>1, <1>2, <1>3, <1>4, <1>5, <1>6 DEF Next

\* In any window a client gets one full bucket, the refill of the window, and the
\* refill of MaxStale for every reading out of order, and nothing for having been
\* forgotten (take and evict, ratelimit.go).
THEOREM BurstRefillAndRepeatsHolds == Spec => []BurstRefillAndRepeats
<1>1. WindowInv => BurstRefillAndRepeats
  <2> SUFFICES ASSUME WindowInv, NEW c \in Client, NEW s \in 0..(clock - 1)
               PROVE  Since(c, s) * Unit
                        <= Full + Refill * (clock - s - 1 + MaxStale + MaxStale * OldSince(c, s))
    BY DEF BurstRefillAndRepeats
  <2> DEFINE window == clock - s - 1 + MaxStale + MaxStale * OldSince(c, s)
  <2>1. /\ clock \in Nat /\ s + 1 <= clock /\ s \in Nat /\ Level(c) \in 0..Full
        /\ Reach(c, s) \in Int /\ From(s) \in Int /\ MaxStale * OldSince(c, s) \in Int
        /\ c \in DOMAIN buckets => buckets[c].seen \in Nat /\ buckets[c].seen <= clock
        /\ MaxStale \in Nat /\ Refill \in Nat /\ Full \in Nat /\ Unit \in Nat
    BY WindowTypes, Numbers DEF WindowInv
  <2>2. Accounted(c, s) /\ Since(c, s) \in Nat /\ OldSince(c, s) \in Nat
    BY DEF WindowInv, Accounted
  <2>3. MaxStale * OldSince(c, s) \in Nat
    BY <2>1, <2>2
  <2>4. window \in Nat /\ Reach(c, s) - From(s) <= window
    BY <2>1, <2>3 DEF Reach, From
  <2>5. Refill * window \in Nat
    <3> HIDE DEF window
    <3>1. QED
      BY <2>1, <2>4
  <2>6. CASE Since(c, s) = 0
    <3>1. Since(c, s) * Unit = 0
      BY <2>1, <2>6
    <3>2. QED
      BY <3>1, <2>1, <2>5
  <2>7. CASE Since(c, s) # 0
    <3>1. Since(c, s) * Unit + Level(c) <= Full + Refill * (Reach(c, s) - From(s))
      BY <2>2, <2>7 DEF Accounted
    <3> HIDE DEF window
    <3>2. Refill * (Reach(c, s) - From(s)) <= Refill * window
      BY <2>1, <2>4, Monotone
    <3>3. Since(c, s) * Unit \in Nat /\ Refill * (Reach(c, s) - From(s)) \in Int
      BY <2>1, <2>2
    <3>4. Since(c, s) * Unit <= Full + Refill * window
      BY <2>1, <2>5, <3>1, <3>2, <3>3
    <3>5. QED
      BY <3>4 DEF window
  <2>8. QED
    BY <2>2, <2>6, <2>7
<1>2. QED
  BY <1>1, WindowInit, WindowStep, PTL DEF Spec

(***************************************************************************)
(* Refusals.  The other side of the account: what is left and what went    *)
(* out since a tick are a full bucket, or the refill since that tick.      *)
(***************************************************************************)

Drained(c, s) ==
    \/ Since(c, s) * Unit + Level(c) >= Full
    \/ c \in DOMAIN buckets /\ Since(c, s) * Unit + Level(c) >= Refill * (buckets[c].seen - s)

DrainInv ==
    /\ WindowInv
    /\ \A c \in Client : tally[c].admitted * Unit + Level(c) >= Full
    /\ \A c \in Client : \A s \in 0..(clock - 1) : Drained(c, s)

\* A request finds no less than was left, and a full bucket or its refill.
LEMMA TakeFinds ==
    ASSUME LimiterInv, NEW t \in Thread, Take(t), NEW c \in Client, key[t] = c
    PROVE  /\ Available(c, now[t]) \in 0..Full /\ Level(c) \in 0..Full /\ now[t] \in Nat
           /\ clock - now[t] <= MaxStale
           /\ Available(c, now[t]) >= Level(c)
           /\ \/ Available(c, now[t]) = Full
              \/ /\ c \in DOMAIN buckets
                 /\ Available(c, now[t]) >= Level(c) + Refill * (now[t] - buckets[c].seen)
<1>1. now[t] \in Nat /\ clock - now[t] <= MaxStale /\ Available(c, now[t]) \in 0..Full
  BY TakeLeaves
<1>2. CASE c \in DOMAIN buckets
  <2>1. buckets[c] \in Bucket
    BY <1>2 DEF LimiterInv, TypeOK
  <2>2. Available(c, now[t]) = Refilled(buckets[c], now[t]) /\ Level(c) = buckets[c].tokens
    BY <1>2 DEF Available, Level
  <2>3. QED
    BY <1>1, <1>2, <2>1, <2>2, RefilledBounds DEF Bucket
<1>3. CASE c \notin DOMAIN buckets
  BY <1>1, <1>3, Numbers DEF Available, Level
<1>4. QED
  BY <1>2, <1>3

\* What a request leaves and what it took are what it found.
LEMMA TakeDrains ==
    ASSUME WindowInv, NEW t \in Thread, Take(t), NEW c \in Client, key[t] = c
    PROVE  /\ tally'[c].admitted * Unit + Level(c)' = tally[c].admitted * Unit + Available(c, now[t])
           /\ \A s \in 0..(clock - 1) :
                 Since(c, s)' * Unit + Level(c)' = Since(c, s) * Unit + Available(c, now[t])
<1> DEFINE available == Available(c, now[t])
           allows == Allows(available)
<1>1. /\ available \in 0..Full /\ c \in DOMAIN buckets' /\ ledger' = ledger
      /\ buckets'[c].tokens = IF allows THEN available - Unit ELSE available
      /\ tally' = [tally EXCEPT ![c] = Counted(@, allows, IsOld(c, now[t]))]
      /\ tally \in [Client -> [admitted : Nat, old : Nat]] /\ Full \in Nat
  BY TakeLeaves, Numbers DEF WindowInv, LimiterInv, TypeOK
<1> HIDE DEF allows, available
<1>2. tally'[c].admitted = tally[c].admitted + (IF allows THEN 1 ELSE 0) /\ tally[c].admitted \in Nat
  BY <1>1 DEF Counted
<1>3. Level(c)' = IF allows THEN available - Unit ELSE available
  BY <1>1 DEF Level
<1>4. available \in Nat
  BY <1>1
<1>5. tally'[c].admitted * Unit + Level(c)' = tally[c].admitted * Unit + available
  BY <1>2, <1>3, <1>4, Balance
<1>6. ASSUME NEW s \in 0..(clock - 1)
      PROVE  Since(c, s)' * Unit + Level(c)' = Since(c, s) * Unit + available
  <2>1. Since(c, s)' = Since(c, s) + (IF allows THEN 1 ELSE 0) /\ Since(c, s) \in Nat
    <3>1. ledger[s][c].admitted \in Nat /\ Since(c, s) \in Nat
      BY WindowTypes DEF WindowInv, Accounted
    <3>2. QED
      BY <1>1, <1>2, <3>1 DEF Since
  <2>2. QED
    BY <1>3, <1>4, <2>1, Balance
<1>7. QED
  BY <1>5, <1>6 DEF available

\* A bucket that lost nobody's tokens stays drained for a reason.
LEMMA DrainStep ==
    ASSUME DrainInv, WindowInv', [Next]_vars
    PROVE  DrainInv'
<1>h. /\ WindowInv /\ LimiterInv /\ clock \in Nat /\ Full \in Nat /\ Unit \in Nat /\ Refill \in Nat
      /\ \A c \in Client : tally[c].admitted * Unit + Level(c) >= Full
      /\ \A c \in Client : \A s \in 0..(clock - 1) : Drained(c, s)
      /\ \A c \in Client : tally[c].admitted \in Nat /\ tally[c].admitted * Unit \in Nat /\ Level(c) \in 0..Full
  <2>1. \A c \in Client : tally[c].admitted \in Nat /\ Unit \in Nat
    BY Numbers DEF DrainInv, WindowInv, LimiterInv, TypeOK
  <2>2. \A c \in Client : tally[c].admitted * Unit \in Nat
    BY <2>1
  <2>3. \A c \in Client : Level(c) \in 0..Full
    <3>1. \A c \in DOMAIN buckets : buckets[c].tokens \in 0..Full
      BY DEF DrainInv, WindowInv, LimiterInv, TypeOK, Bucket
    <3>2. Full \in 0..Full
      BY Numbers
    <3>3. QED
      BY <3>1, <3>2 DEF Level
  <2>4. WindowInv /\ LimiterInv /\ clock \in Nat /\ Full \in Nat /\ Unit \in Nat /\ Refill \in Nat
    <3>1. WindowInv /\ LimiterInv
      BY DEF DrainInv, WindowInv
    <3>2. clock \in Nat /\ Full \in Nat /\ Unit \in Nat /\ Refill \in Nat
      BY <3>1, Numbers DEF LimiterInv, TypeOK
    <3>3. QED
      BY <3>1, <3>2
  <2>5. QED
    BY <2>1, <2>2, <2>3, <2>4 DEF DrainInv
<1>q. ASSUME buckets' = buckets, clock' = clock, tally' = tally, ledger' = ledger PROVE DrainInv'
  BY <1>q, <1>h DEF DrainInv, Drained, Since, Level
<1>1. ASSUME NEW t \in Thread, NEW c \in Client, Arrive(t, c) PROVE DrainInv'
  BY <1>1, <1>q DEF Arrive, ReadClock
<1>2. ASSUME NEW t \in Thread, Take(t) PROVE DrainInv'
  <2>1. /\ clock' = clock /\ key[t] \in Client /\ key[t] \in DOMAIN buckets' /\ ledger' = ledger
        /\ buckets'[key[t]].seen = now[t]
        /\ \A d \in DOMAIN buckets' : d # key[t] => d \in DOMAIN buckets /\ buckets'[d] = buckets[d]
        /\ \A d \in Client : d # key[t] => tally'[d] = tally[d]
    BY <1>2, <1>h, TakeLeaves DEF LimiterInv, TypeOK
  <2>2. \A d \in DOMAIN buckets : d \in DOMAIN buckets'
    BY <1>2 DEF Take
  <2>3. ASSUME NEW c \in Client
        PROVE  /\ tally'[c].admitted * Unit + Level(c)' >= Full
               /\ \A s \in 0..(clock - 1) : Drained(c, s)'
    <3>1. CASE key[t] # c
      BY <3>1, <2>1, <2>2, <1>h DEF Drained, Since, Level
    <3>2. CASE key[t] = c
      <4> DEFINE available == Available(c, now[t])
      <4>1. /\ available \in 0..Full /\ now[t] \in Nat /\ available >= Level(c)
            /\ \/ available = Full
               \/ /\ c \in DOMAIN buckets
                  /\ available >= Level(c) + Refill * (now[t] - buckets[c].seen)
        BY <1>2, <1>h, <3>2, TakeFinds
      <4>2. /\ tally'[c].admitted * Unit + Level(c)' = tally[c].admitted * Unit + available
            /\ \A s \in 0..(clock - 1) : Since(c, s)' * Unit + Level(c)' = Since(c, s) * Unit + available
        BY <1>2, <1>h, <3>2, TakeDrains
      <4> HIDE DEF available
      <4>3. tally'[c].admitted * Unit + Level(c)' >= Full
        BY <4>1, <4>2, <1>h
      <4>4. ASSUME NEW s \in 0..(clock - 1) PROVE Drained(c, s)'
        <5>1. Since(c, s) \in Nat /\ Level(c) \in 0..Full /\ s \in Nat
              /\ (c \in DOMAIN buckets => buckets[c].seen \in Nat)
          BY <1>h, WindowTypes DEF WindowInv, Accounted
        <5>2. Since(c, s) * Unit \in Nat
          BY <5>1, <1>h
        <5>3. CASE available = Full
          <6>1. Since(c, s)' * Unit + Level(c)' >= Full
            BY <4>2, <5>2, <5>3, <1>h
          <6>2. QED
            BY <6>1 DEF Drained
        <5>4. CASE c \in DOMAIN buckets /\ available >= Level(c) + Refill * (now[t] - buckets[c].seen)
          <6>1. CASE Since(c, s) * Unit + Level(c) >= Full
            <7>1. Since(c, s)' * Unit + Level(c)' >= Full
              BY <4>1, <4>2, <5>1, <5>2, <6>1, <1>h
            <7>2. QED
              BY <7>1 DEF Drained
          <6>2. CASE Since(c, s) * Unit + Level(c) >= Refill * (buckets[c].seen - s)
            <7>1. now[t] - s = (buckets[c].seen - s) + (now[t] - buckets[c].seen)
              BY <4>1, <5>1, <5>4
            <7>2. Refill * (now[t] - s) = Refill * (buckets[c].seen - s) + Refill * (now[t] - buckets[c].seen)
              BY <7>1, <4>1, <5>1, <5>4, <1>h, Distributes
            <7>3. /\ Refill * (buckets[c].seen - s) \in Int
                  /\ Refill * (now[t] - buckets[c].seen) \in Int
              BY <4>1, <5>1, <5>4, <1>h
            <7>4. Since(c, s)' * Unit + Level(c)' >= Refill * (now[t] - s)
              BY <4>1, <4>2, <5>1, <5>2, <5>4, <6>2, <7>2, <7>3, <1>h
            <7>5. QED
              BY <7>4, <2>1, <3>2 DEF Drained
          <6>3. QED
            BY <6>1, <6>2, <1>h DEF Drained
        <5>5. QED
          BY <4>1, <5>3, <5>4
      <4>5. QED
        BY <4>3, <4>4
    <3>3. QED
      BY <3>1, <3>2
  <2>4. QED
    BY <2>1, <2>3 DEF DrainInv
<1>3. CASE SweepBegins
  BY <1>3, <1>q DEF SweepBegins, ReadClock
<1>4. CASE Evict
  <2>1. /\ clock' = clock /\ tally' = tally /\ ledger' = ledger /\ DOMAIN buckets' \subseteq DOMAIN buckets
        /\ \A c \in DOMAIN buckets' : buckets'[c] = buckets[c]
    BY <1>4, <1>h, EvictLeaves
  <2>2. ASSUME NEW c \in Client
        PROVE  /\ tally'[c].admitted * Unit + Level(c)' >= Full
               /\ \A s \in 0..(clock - 1) : Drained(c, s)'
    <3>1. CASE c \in DOMAIN buckets'
      BY <3>1, <2>1, <1>h DEF Drained, Since, Level
    <3>2. CASE c \notin DOMAIN buckets'
      <4>1. Level(c)' = Full
        BY <3>2 DEF Level
      <4>2. \A s \in 0..(clock - 1) : Since(c, s)' = Since(c, s) /\ Since(c, s) \in Nat
        BY <2>1, <1>h DEF Since, WindowInv, Accounted
      <4>3. \A s \in 0..(clock - 1) : Since(c, s) * Unit \in Nat
        BY <4>2, <1>h
      <4>4. QED
        BY <4>1, <4>2, <4>3, <2>1, <1>h DEF Drained
    <3>3. QED
      BY <3>1, <3>2
  <2>3. QED
    BY <2>1, <2>2 DEF DrainInv
<1>5. CASE Tick
  <2>1. clock' = clock + 1 /\ tally' = tally /\ ledger' = [ledger EXCEPT ![clock] = tally] /\ buckets' = buckets
    BY <1>5 DEF Tick
  <2>2. ASSUME NEW c \in Client, NEW s \in 0..(clock' - 1) PROVE Drained(c, s)'
    <3>1. CASE s # clock
      <4>1. s \in 0..(clock - 1) /\ ledger'[s] = ledger[s]
        BY <3>1, <2>1, <1>h DEF LimiterInv, TypeOK
      <4>2. QED
        BY <4>1, <2>1, <1>h DEF Drained, Since, Level
    <3>2. CASE s = clock
      <4>1. ledger'[s] = tally
        BY <3>2, <2>1, <1>h DEF LimiterInv, TypeOK
      <4>2. Since(c, s)' = 0 /\ Level(c)' = Level(c)
        BY <4>1, <2>1, <1>h DEF Since, Level
      <4>3. 0 * Unit = 0
        BY <1>h
      <4>4. CASE c \notin DOMAIN buckets
        <5>1. Level(c) = Full
          BY <4>4 DEF Level
        <5>2. QED
          BY <4>2, <4>3, <5>1, <1>h DEF Drained
      <4>5. CASE c \in DOMAIN buckets
        <5>1. buckets[c].seen \in Int /\ buckets[c].seen - clock <= 0
          BY <4>5, <1>h, Numbers DEF LimiterInv, TypeOK, SeenBefore, Bucket
        <5>2. Refill * (buckets[c].seen - clock) <= Refill * 0 /\ Refill * (buckets[c].seen - clock) \in Int
          BY <5>1, <1>h, Monotone
        <5>3. Since(c, s)' * Unit + Level(c)' >= Refill * (buckets[c].seen - clock)
          BY <4>2, <4>3, <5>2, <1>h
        <5>4. QED
          BY <5>3, <4>5, <3>2, <2>1 DEF Drained
      <4>6. QED
        BY <4>4, <4>5
    <3>3. QED
      BY <3>1, <3>2
  <2>3. \A c \in Client : tally'[c].admitted * Unit + Level(c)' >= Full
    BY <2>1, <1>h DEF Level
  <2>4. QED
    BY <2>2, <2>3 DEF DrainInv
<1>6. CASE UNCHANGED vars
  BY <1>6, <1>q DEF vars
<1>7. QED
  BY <1>1, <1>2, <1>3, <1>4, <1>5, <1>6 DEF Next

\* Nobody is turned away who has not had its burst within the time a bucket
\* takes to fill, whatever the janitor and other requests did (take).
THEOREM RefusalIsEarnedHolds == Spec => RefusalIsEarned
<1>1. Init => DrainInv
  <2>1. ASSUME Init PROVE \A c \in Client : tally[c].admitted * Unit + Level(c) >= Full
    <3>1. \A c \in Client : tally[c].admitted = 0 /\ Level(c) = Full
      <4>1. tally = [c \in Client |-> NoTally] /\ DOMAIN buckets = {}
        BY <2>1 DEF Init
      <4>2. QED
        BY <4>1 DEF NoTally, Level
    <3>2. 0 * Unit = 0 /\ Full \in Nat
      BY Numbers
    <3>3. \A c \in Client : tally[c].admitted * Unit = 0
      BY <3>1, <3>2, Zenon
    <3>4. 0 + Full >= Full
      BY <3>2
    <3>5. QED
      BY <3>1, <3>3, <3>4, Zenon
  <2>2. Init => \A s \in 0..(clock - 1) : FALSE
    BY DEF Init
  <2>3. QED
    BY <2>1, <2>2, WindowInit DEF DrainInv
<1>2. DrainInv /\ [Next]_vars => DrainInv'
  BY DrainStep, WindowStep DEF DrainInv
<1>3. ASSUME DrainInv, [Next]_vars, NEW t \in Thread, t \in asking, t \notin asking', ~Admitted(key[t])
      PROVE  LastFill(key[t]) >= Burst
  <2> DEFINE c == key[t]
             available == Available(c, now[t])
             s == clock - FillTime - MaxStale - 1
  <2>1. Take(t)
    <3>1. ASSUME NEW u \in Thread, Take(u) PROVE u = t
      BY <1>3, <3>1 DEF Take, Left
    <3>2. ASSUME NEW u \in Thread, NEW d \in Client, Arrive(u, d) PROVE FALSE
      BY <1>3, <3>2 DEF Arrive, ReadClock
    <3>3. ~SweepBegins /\ ~Tick /\ ~UNCHANGED vars
      BY <1>3 DEF SweepBegins, ReadClock, Tick, vars, callerVars
    <3>4. ~Evict
      BY <1>3, RateAssumption DEF Evict, Left
    <3>5. QED
      BY <1>3, <3>1, <3>2, <3>3, <3>4 DEF Next
  <2>2. /\ c \in Client /\ WindowInv /\ LimiterInv /\ clock \in Nat
        /\ tally[c].admitted \in Nat /\ tally \in [Client -> [admitted : Nat, old : Nat]]
    <3>1. WindowInv /\ LimiterInv
      BY <1>3 DEF DrainInv, WindowInv
    <3>2. clock \in Nat /\ key \in [Thread -> Client] /\ tally \in [Client -> [admitted : Nat, old : Nat]]
      BY <3>1, Numbers DEF LimiterInv, TypeOK
    <3>3. c \in Client
      BY <1>3, <3>2
    <3>4. QED
      BY <3>1, <3>2, <3>3
  <2>3. /\ available \in 0..Full /\ Level(c) \in 0..Full /\ now[t] \in Nat /\ clock - now[t] <= MaxStale
        /\ available >= Level(c)
        /\ \/ available = Full
           \/ /\ c \in DOMAIN buckets
              /\ available >= Level(c) + Refill * (now[t] - buckets[c].seen)
    BY <2>1, <2>2, TakeFinds
  <2>4. ~Allows(available)
    <3>1. tally' = [tally EXCEPT ![c] = Counted(@, Allows(available), IsOld(c, now[t]))]
      BY <2>1 DEF Take
    <3>2. tally'[c] = Counted(tally[c], Allows(available), IsOld(c, now[t]))
      BY <2>2, <3>1
    <3> HIDE DEF available
    <3>3. Allows(available) => tally'[c].admitted = tally[c].admitted + 1
      BY <3>2 DEF Counted
    <3>4. QED
      BY <1>3, <2>2, <3>3 DEF Admitted
  <2>5. available < Unit
    BY <2>3, <2>4, Numbers DEF Allows
  <2> HIDE DEF available
  <2>6. ASSUME NEW n \in Nat, n * Unit + available >= Full PROVE n >= Burst
    <3>1. Burst \in Nat /\ Unit \in Nat /\ available \in Nat /\ Full = Burst * Unit
      BY <2>3, RateAssumption, Numbers DEF Full
    <3>2. CASE n <= Burst - 1
      <4>1. Unit * n <= Unit * (Burst - 1)
        BY <3>1, <3>2, Monotone
      <4>2. Unit * (Burst - 1) = Burst * Unit - Unit /\ Unit * n = n * Unit
        BY <3>1
      <4>3. n * Unit \in Nat /\ Burst * Unit \in Nat
        BY <3>1
      <4>4. QED
        BY <2>5, <2>6, <3>1, <4>1, <4>2, <4>3
    <3>3. QED
      BY <3>1, <3>2
  <2>7. /\ FillTime \in Nat /\ MaxStale \in Nat /\ Refill \in Nat /\ Full \in Nat /\ Unit \in Nat
        /\ Full = Refill * FillTime
    BY Numbers
  <2>8. CASE s < 0
    <3>1. tally[c].admitted * Unit + Level(c) >= Full /\ tally[c].admitted * Unit \in Nat
      BY <1>3, <2>2, <2>7 DEF DrainInv
    <3>2. tally[c].admitted * Unit + available >= Full
      BY <2>3, <2>7, <3>1
    <3>3. LastFill(c) = tally[c].admitted
      BY <2>8 DEF LastFill
    <3>4. QED
      BY <2>2, <2>6, <3>2, <3>3
  <2>9. CASE ~(s < 0)
    <3>1. s \in 0..(clock - 1) /\ s \in Nat
      BY <2>2, <2>7, <2>9
    <3>2. /\ Drained(c, s) /\ Since(c, s) \in Nat
          /\ (c \in DOMAIN buckets => buckets[c].seen \in Nat)
      BY <1>3, <2>2, <3>1, WindowTypes DEF DrainInv, WindowInv, Accounted
    <3>3. LastFill(c) = Since(c, s)
      BY <2>9 DEF LastFill
    <3>4. now[t] - s \in Int /\ FillTime <= now[t] - s
      BY <2>2, <2>3, <2>7, <3>1
    <3> HIDE DEF s
    <3>5. Since(c, s) * Unit \in Nat
      BY <2>7, <3>2
    <3>6. Since(c, s) * Unit + available >= Full
      <4>1. CASE Since(c, s) * Unit + Level(c) >= Full \/ available = Full
        BY <2>3, <2>7, <3>5, <4>1
      <4>2. CASE /\ c \in DOMAIN buckets
                 /\ Since(c, s) * Unit + Level(c) >= Refill * (buckets[c].seen - s)
                 /\ available >= Level(c) + Refill * (now[t] - buckets[c].seen)
        <5>1. now[t] - s = (buckets[c].seen - s) + (now[t] - buckets[c].seen)
              /\ buckets[c].seen - s \in Int /\ now[t] - buckets[c].seen \in Int
          BY <2>3, <3>1, <3>2, <4>2
        <5>2. Refill * (now[t] - s) = Refill * (buckets[c].seen - s) + Refill * (now[t] - buckets[c].seen)
          BY <5>1, <2>7, Distributes
        <5>3. Refill * FillTime <= Refill * (now[t] - s)
          BY <2>7, <3>4, Monotone
        <5>4. /\ Refill * (buckets[c].seen - s) \in Int
              /\ Refill * (now[t] - buckets[c].seen) \in Int
          BY <5>1, <2>7
        <5>5. QED
          BY <2>3, <2>7, <3>5, <4>2, <5>2, <5>3, <5>4
      <4>3. QED
        BY <2>3, <3>2, <4>1, <4>2 DEF Drained
    <3>7. QED
      BY <2>6, <3>2, <3>3, <3>6
  <2>10. QED
    BY <2>8, <2>9
<1>4. DrainInv /\ [Next]_vars =>
        [\A t \in Thread : t \in asking /\ t \notin asking' /\ ~Admitted(key[t]) => LastFill(key[t]) >= Burst]_vars
  BY <1>3
<1>5. QED
  BY <1>1, <1>2, <1>4, PTL DEF Spec, RefusalIsEarned

(***************************************************************************)
(* The promise to forget.                                                  *)
(***************************************************************************)

\* A bucket outlives idleTTL by the time since the last sweep, which is a whole
\* period once the next one is due.
SweptUpTo == IF due THEN SweepEvery ELSE clock % SweepEvery

ForgetInv == LimiterInv /\ \A c \in DOMAIN buckets : clock - buckets[c].seen <= IdleTTL + SweptUpTo

\* The privacy page's ten minutes hold to within a sweep: no bucket is older
\* (evict and sweep, ratelimit.go:12-22).
THEOREM ForgottenInTimeHolds == Spec => []ForgottenInTime
<1>n. ASSUME LimiterInv
      PROVE  /\ clock \in Nat /\ IdleTTL \in Nat /\ MaxStale <= IdleTTL /\ SweepEvery \in Nat \ {0}
             /\ MaxStale \in Nat
             /\ clock % SweepEvery \in 0..(SweepEvery - 1) /\ SweptUpTo \in 0..SweepEvery
             /\ \A c \in DOMAIN buckets : buckets[c].seen \in Nat
  <2>1. /\ clock \in Nat /\ IdleTTL \in Nat /\ MaxStale <= IdleTTL /\ SweepEvery \in Nat \ {0}
        /\ MaxStale \in Nat /\ \A c \in DOMAIN buckets : buckets[c].seen \in Nat
    BY <1>n, Numbers DEF LimiterInv, TypeOK, Bucket
  <2>2. clock % SweepEvery \in 0..(SweepEvery - 1)
    BY <2>1, NextRemainder
  <2>3. QED
    BY <2>1, <2>2 DEF SweptUpTo
<1>1. Init => ForgetInv
  BY LimiterInit DEF Init, ForgetInv
<1>2. ForgetInv /\ [Next]_vars => ForgetInv'
  <2> SUFFICES ASSUME ForgetInv, [Next]_vars PROVE ForgetInv'
    OBVIOUS
  <2>i. LimiterInv /\ LimiterInv'
    BY LimiterStep DEF ForgetInv
  <2>h. /\ clock \in Nat /\ IdleTTL \in Nat /\ MaxStale <= IdleTTL /\ SweepEvery \in Nat \ {0}
        /\ MaxStale \in Nat
        /\ clock % SweepEvery \in 0..(SweepEvery - 1) /\ SweptUpTo \in 0..SweepEvery
        /\ \A c \in DOMAIN buckets : buckets[c].seen \in Nat /\ clock - buckets[c].seen <= IdleTTL + SweptUpTo
    BY <2>i, <1>n DEF ForgetInv
  <2>q. ASSUME buckets' = buckets, clock' = clock, due' = due PROVE ForgetInv'
    BY <2>q, <2>i, <2>h DEF ForgetInv, SweptUpTo
  <2>1. ASSUME NEW t \in Thread, NEW c \in Client, Arrive(t, c) PROVE ForgetInv'
    BY <2>1, <2>q DEF Arrive, ReadClock
  <2>2. ASSUME NEW t \in Thread, Take(t) PROVE ForgetInv'
    <3>1. /\ clock' = clock /\ due' = due
          /\ buckets'[key[t]].seen = now[t] /\ now[t] \in Nat /\ clock - now[t] <= MaxStale
          /\ \A d \in DOMAIN buckets' : d # key[t] => d \in DOMAIN buckets /\ buckets'[d] = buckets[d]
      BY <2>2, <2>i, TakeLeaves
    <3>2. SweptUpTo' = SweptUpTo
      BY <3>1 DEF SweptUpTo
    <3>3. ASSUME NEW d \in DOMAIN buckets' PROVE clock - buckets'[d].seen <= IdleTTL + SweptUpTo
      <4>1. CASE d = key[t]
        BY <4>1, <3>1, <2>h
      <4>2. CASE d # key[t]
        BY <4>2, <3>1, <3>3, <2>h
      <4>3. QED
        BY <4>1, <4>2
    <3>4. QED
      BY <3>1, <3>2, <3>3, <2>i DEF ForgetInv
  <2>3. CASE SweepBegins
    BY <2>3, <2>q DEF SweepBegins, ReadClock
  <2>4. CASE Evict
    <3>1. /\ DOMAIN buckets' \subseteq DOMAIN buckets /\ due' = FALSE /\ clock' = clock
          /\ \A d \in DOMAIN buckets' : buckets'[d] = buckets[d] /\ clock - buckets[d].seen <= IdleTTL
      BY <2>4, <2>i, EvictLeaves
    <3>2. SweptUpTo' = clock % SweepEvery
      BY <3>1 DEF SweptUpTo
    <3>3. \A d \in DOMAIN buckets' : clock - buckets'[d].seen <= IdleTTL + SweptUpTo'
      BY <3>1, <3>2, <2>h
    <3>4. QED
      BY <3>1, <3>3, <2>i DEF ForgetInv
  <2>5. CASE Tick
    <3>1. clock' = clock + 1 /\ buckets' = buckets /\ ~due /\ due' = (clock' % SweepEvery = 0)
      BY <2>5 DEF Tick
    <3>2. SweptUpTo = clock % SweepEvery
      BY <3>1 DEF SweptUpTo
    <3>3. (clock + 1) % SweepEvery = 0 \/ (clock + 1) % SweepEvery = (clock % SweepEvery) + 1
      BY <2>h, NextRemainder
    <3>4. SweptUpTo' \in Nat /\ SweptUpTo' >= SweptUpTo + 1
      <4> DEFINE r == clock % SweepEvery
      <4>1. CASE (clock + 1) % SweepEvery = 0
        <5>1. SweptUpTo' = SweepEvery
          BY <4>1, <3>1 DEF SweptUpTo
        <5>2. QED
          BY <5>1, <3>2, <2>h
      <4>2. CASE (clock + 1) % SweepEvery # 0
        <5>1. SweptUpTo' = (clock + 1) % SweepEvery
          BY <4>2, <3>1 DEF SweptUpTo
        <5>2. SweptUpTo' = r + 1 /\ SweptUpTo = r /\ r \in Nat
          BY <4>2, <5>1, <3>2, <3>3, <2>h
        <5> HIDE DEF r
        <5>3. QED
          BY <5>2
      <4>3. QED
        BY <4>1, <4>2
    <3>5. \A c \in DOMAIN buckets' : clock' - buckets'[c].seen <= IdleTTL + SweptUpTo'
      BY <3>1, <3>4, <2>h
    <3>6. QED
      BY <3>5, <2>i DEF ForgetInv
  <2>6. CASE UNCHANGED vars
    BY <2>6, <2>q DEF vars
  <2>7. QED
    BY <2>1, <2>2, <2>3, <2>4, <2>5, <2>6 DEF Next
<1>3. ForgetInv => ForgottenInTime
  BY <1>n DEF ForgetInv, ForgottenInTime
<1>4. QED
  BY <1>1, <1>2, <1>3, PTL DEF Spec
=============================================================================
