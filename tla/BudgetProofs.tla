---------------------------- MODULE BudgetProofs ----------------------------
(***************************************************************************)
(* The send budget promises one full bucket and the refill of the window,  *)
(* for every size of bucket, every rate and every number of callers.       *)
(***************************************************************************)
EXTENDS Budget, TLAPS

\* A full bucket is a number of units.
LEMMA FullIsNat == Full \in Nat
<1>1. PerHour \in Nat /\ Unit \in Nat
  BY BudgetAssumption
<1>2. QED
  BY <1>1 DEF Full

\* The refill of two spans, one after the other.
LEMMA Distributes ==
    ASSUME NEW k \in Int, NEW m \in Int, NEW n \in Int
    PROVE  k * (m + n) = k * m + k * n
  OBVIOUS

\* What was let through and what a refill adds, added up.
LEMMA Chain ==
    ASSUME NEW p \in Int, NEW q \in Int, NEW t \in Int, NEW a \in Int,
           NEW f \in Int, NEW d \in Int, p + t <= f + q, a <= t + d
    PROVE  p + a <= f + (q + d)
  OBVIOUS

\* What a refill leaves in the bucket.
LEMMA EarnedBounds ==
    ASSUME NEW n \in Nat, tokens \in 0..Full, last \in Nat, n > last
    PROVE  /\ Earned(n) \in 0..Full
           /\ Earned(n) <= tokens + Rate * (n - last)
           /\ Earned(n) >= tokens
           /\ Earned(n) = Full \/ Earned(n) = tokens + Rate * (n - last)
<1>1. Full \in Nat /\ Rate \in Nat
  BY FullIsNat, BudgetAssumption
<1>2. Rate * (n - last) \in Nat
  BY <1>1
<1>3. QED
  BY <1>1, <1>2 DEF Earned

\* What a caller leaves behind, given what it found.
LEMMA SpendBounds ==
    ASSUME NEW available \in 0..Full, granted \in Nat, Spend(available)
    PROVE  /\ tokens' \in 0..Full
           /\ granted' \in Nat
           /\ \/ granted' = granted /\ tokens' = available
              \/ granted' = granted + 1 /\ tokens' = available - Unit
<1>1. Full \in Nat /\ Unit \in Nat
  BY FullIsNat, BudgetAssumption
<1>2. QED
  BY <1>1 DEF Spend

\* The bucket keeps its bounds whichever order the callers get the lock in.
THEOREM TypeCorrect == Spec => []TypeOK
<1>1. Init => TypeOK
  BY FullIsNat, BudgetAssumption DEF Init, TypeOK
<1>2. TypeOK /\ [Next]_vars => TypeOK'
  <2> SUFFICES ASSUME TypeOK, [Next]_vars PROVE TypeOK'
    OBVIOUS
  <2>h. Horizon \in Nat /\ clock \in Nat
    BY BudgetAssumption DEF TypeOK
  <2>1. ASSUME NEW c \in Caller, ReadClock(c) PROVE TypeOK'
    BY <2>1, <2>h DEF ReadClock, TypeOK, bucketVars, ledgerVars
  <2>2. ASSUME NEW c \in Caller, Take(c) PROVE TypeOK'
    <3> DEFINE available == IF now[c] > last THEN Earned(now[c]) ELSE tokens
    <3>1. /\ now[c] \in 0..clock /\ now[c] \in Nat /\ last \in Nat
          /\ tokens \in 0..Full /\ granted \in Nat
      BY <2>h DEF TypeOK
    <3>2. available \in 0..Full
      BY <3>1, EarnedBounds
    <3>3. Spend(available)
      BY <2>2 DEF Take
    <3> HIDE DEF available
    <3>4. tokens' \in 0..Full /\ granted' \in Nat
      BY <3>1, <3>2, <3>3, SpendBounds
    <3>5. last' \in 0..clock'
      BY <2>2, <2>h, <3>1 DEF Take, LastAfter, TypeOK
    <3>6. QED
      BY <2>2, <2>h, <3>4, <3>5 DEF Take, TypeOK
  <2>3. CASE Tick
    BY <2>3, <2>h DEF Tick, TypeOK, bucketVars, callerVars
  <2>4. CASE UNCHANGED vars
    BY <2>4 DEF vars, bucketVars, callerVars, ledgerVars, TypeOK
  <2>5. QED
    BY <2>1, <2>2, <2>3, <2>4 DEF Next
<1>3. QED
  BY <1>1, <1>2, PTL DEF Spec

(***************************************************************************)
(* The window.  Since(s) * Unit <= Full + ... is not inductive: it forgets *)
(* what is still in the bucket.  Counted with it, what went out since tick *)
(* s and what is left is at most one bucket and the refill up to last.     *)
(***************************************************************************)

\* Nobody holds a reading older than MaxStale.
FreshReadings == \A c \in asking : clock - now[c] <= MaxStale

\* The instant from which a window that begins after tick s is refilled.
From(s) == s + 1 - MaxStale

Accounted(s) ==
    /\ Since(s) \in Nat
    /\ Since(s) # 0 =>
          /\ last >= From(s)
          /\ Since(s) * Unit + tokens <= Full + Rate * (last - From(s))

BudgetInv ==
    /\ TypeOK
    /\ FreshReadings
    /\ \A s \in 0..(clock - 1) : Accounted(s)

\* One take keeps a window's account: an older reading earns nothing, a newer
\* one earns what lies between it and last, and the first of the window fills
\* the bucket at most.
LEMMA TakeAccounts ==
    ASSUME BudgetInv, NEW c \in Caller, Take(c), NEW s \in 0..(clock - 1)
    PROVE  Accounted(s)'
<1> DEFINE available == IF now[c] > last THEN Earned(now[c]) ELSE tokens
<1>1. /\ clock \in Nat /\ s \in Nat /\ s + 1 <= clock
      /\ now[c] \in Nat /\ last \in Nat /\ tokens \in 0..Full /\ tokens \in Nat
      /\ granted \in Nat /\ ledger[s] \in Nat /\ clock - now[c] <= MaxStale
  BY FullIsNat, BudgetAssumption DEF BudgetInv, TypeOK, FreshReadings, Take
<1>2. Rate \in Nat /\ Unit \in Nat /\ Full \in Nat /\ MaxStale \in Nat
  BY FullIsNat, BudgetAssumption
<1>3. now[c] >= From(s)
  BY <1>1, <1>2 DEF From
<1>4. ledger' = ledger /\ last' = LastAfter(now[c]) /\ Spend(available)
  BY DEF Take
<1>5. /\ available \in 0..Full
      /\ available <= tokens + Rate * (last' - last)
      /\ last' >= From(s) /\ last' >= last /\ last' \in Nat
  <2>1. CASE now[c] > last
    BY <2>1, <1>1, <1>3, <1>4, EarnedBounds DEF LastAfter
  <2>2. CASE ~(now[c] > last)
    <3>1. last' = last /\ available = tokens
      BY <2>2, <1>4 DEF LastAfter
    <3>2. Rate * (last' - last) = 0
      BY <3>1, <1>1, <1>2
    <3>3. QED
      BY <3>1, <3>2, <2>2, <1>1, <1>2, <1>3 DEF From
  <2>3. QED
    BY <2>1, <2>2
<1> HIDE DEF available
<1>6. /\ tokens' \in 0..Full /\ granted' \in Nat
      /\ \/ granted' = granted /\ tokens' = available
         \/ granted' = granted + 1 /\ tokens' = available - Unit
  BY <1>1, <1>4, <1>5, SpendBounds
<1>7. From(s)' = From(s) /\ Since(s)' = granted' - ledger[s] /\ From(s) \in Int
  BY <1>1, <1>2, <1>4 DEF From, Since
<1>8. Accounted(s)
  BY DEF BudgetInv
<1>9. Rate * (last' - From(s)) = Rate * (last - From(s)) + Rate * (last' - last)
  BY <1>1, <1>2, <1>5, <1>7
<1>10. Rate * (last' - From(s)) \in Nat
  BY <1>2, <1>5, <1>7
<1>11. Since(s) \in Nat /\ Since(s)' \in Nat
  BY <1>1, <1>6, <1>7, <1>8 DEF Accounted, Since
<1>12. Since(s)' * Unit + tokens' = Since(s) * Unit + available
  <2>1. CASE granted' = granted /\ tokens' = available
    BY <2>1, <1>7 DEF Since
  <2>2. CASE granted' = granted + 1 /\ tokens' = available - Unit
    <3>1. Since(s)' = Since(s) + 1
      BY <2>2, <1>1, <1>7 DEF Since
    <3>2. (Since(s) + 1) * Unit = Since(s) * Unit + Unit
      BY <1>2, <1>11
    <3>3. Since(s) * Unit \in Nat /\ available \in Nat
      BY <1>2, <1>5, <1>11
    <3>4. QED
      BY <2>2, <3>1, <3>2, <3>3, <1>2
  <2>3. QED
    BY <2>1, <2>2, <1>6
<1>13. Since(s) * Unit + available <= Full + Rate * (last' - From(s))
  <2>1. CASE Since(s) = 0
    <3>1. Since(s) * Unit = 0
      BY <2>1, <1>2
    <3>2. QED
      BY <3>1, <1>2, <1>5, <1>10
  <2>2. CASE Since(s) # 0
    <3>1. Since(s) * Unit + tokens <= Full + Rate * (last - From(s))
      BY <2>2, <1>8 DEF Accounted
    <3>2. /\ Since(s) * Unit \in Nat
          /\ Rate * (last - From(s)) \in Int
          /\ Rate * (last' - last) \in Int
          /\ available \in Nat
      BY <1>1, <1>2, <1>5, <1>7, <1>11
    <3>3. Since(s) * Unit + available
            <= Full + (Rate * (last - From(s)) + Rate * (last' - last))
      <4> DEFINE p == Since(s) * Unit
                 q == Rate * (last - From(s))
                 d == Rate * (last' - last)
      <4>1. p \in Int /\ q \in Int /\ d \in Int /\ tokens \in Int
            /\ available \in Int /\ Full \in Int
        BY <3>2, <1>1, <1>2
      <4>2. p + tokens <= Full + q /\ available <= tokens + d
        BY <3>1, <1>5
      <4> HIDE DEF p, q, d
      <4>3. p + available <= Full + (q + d)
        BY <4>1, <4>2, Chain
      <4>4. QED
        BY <4>3 DEF p, q, d
    <3>4. QED
      BY <3>3, <1>9
  <2>3. QED
    BY <2>1, <2>2
<1>14. QED
  BY <1>5, <1>7, <1>11, <1>12, <1>13 DEF Accounted

\* A caller's step and a tick keep the account of every window.
LEMMA BudgetStep ==
    ASSUME BudgetInv, TypeOK', [Next]_vars
    PROVE  BudgetInv'
<1>h. clock \in Nat /\ MaxStale \in Nat /\ granted \in Nat /\ TypeOK
  BY BudgetAssumption DEF BudgetInv, TypeOK
<1>1. ASSUME NEW c \in Caller, ReadClock(c) PROVE BudgetInv'
  <2>1. FreshReadings'
    BY <1>1, <1>h DEF ReadClock, BudgetInv, FreshReadings, TypeOK
  <2>2. QED
    BY <2>1, <1>1 DEF ReadClock, BudgetInv, bucketVars, ledgerVars, Accounted, Since, From
<1>2. ASSUME NEW c \in Caller, Take(c) PROVE BudgetInv'
  <2>1. FreshReadings' /\ clock' = clock
    BY <1>2, <1>h DEF Take, BudgetInv, FreshReadings, TypeOK
  <2>2. \A s \in 0..(clock - 1) : Accounted(s)'
    BY <1>2, TakeAccounts
  <2>3. QED
    BY <2>1, <2>2 DEF BudgetInv
<1>3. CASE Tick
  <2>1. FreshReadings'
    BY <1>3, <1>h DEF Tick, BudgetInv, FreshReadings, TypeOK, callerVars
  <2>2. ASSUME NEW s \in 0..(clock' - 1) PROVE Accounted(s)'
    <3>1. s \in Nat /\ s <= clock /\ clock \in 0..Horizon /\ s \in 0..Horizon
      BY <1>3, <1>h, BudgetAssumption DEF Tick, TypeOK
    <3>2. CASE s = clock
      <4>1. ledger'[s] = granted /\ granted' = granted
        BY <3>1, <3>2, <1>3 DEF Tick, TypeOK
      <4>2. QED
        BY <4>1, <1>h DEF Accounted, Since
    <3>3. CASE s # clock
      <4>1. ledger'[s] = ledger[s] /\ s \in 0..(clock - 1)
        BY <3>1, <3>3, <1>3, <1>h DEF Tick, TypeOK
      <4>2. QED
        BY <4>1, <1>3 DEF Tick, BudgetInv, Accounted, Since, From, bucketVars
    <3>4. QED
      BY <3>2, <3>3
  <2>3. QED
    BY <2>1, <2>2 DEF BudgetInv
<1>4. CASE UNCHANGED vars
  BY <1>4 DEF vars, bucketVars, callerVars, ledgerVars, BudgetInv, FreshReadings,
     Accounted, Since, From
<1>5. QED
  BY <1>1, <1>2, <1>3, <1>4 DEF Next

\* A new budget is full and has sent nothing.
LEMMA BudgetInit == Init => BudgetInv
<1>1. Init => TypeOK
  BY FullIsNat, BudgetAssumption DEF Init, TypeOK
<1>2. QED
  BY <1>1 DEF Init, BudgetInv, FreshReadings

\* In any window the budget hands out at most one full bucket and the refill of
\* the window's length (Budget.take under the interleavings of its callers).
THEOREM BurstPlusRefillHolds == Spec => []BurstPlusRefill
<1>1. BudgetInv => BurstPlusRefill
  <2> SUFFICES ASSUME BudgetInv, NEW s \in 0..(clock - 1)
               PROVE  Since(s) * Unit <= Full + Rate * (clock - s - 1 + MaxStale)
    BY DEF BurstPlusRefill
  <2>1. /\ clock \in Nat /\ last \in Nat /\ last <= clock /\ tokens \in Nat
        /\ Rate \in Nat /\ Unit \in Nat /\ Full \in Nat /\ MaxStale \in Nat
        /\ s \in Nat /\ s + 1 <= clock
    BY FullIsNat, BudgetAssumption DEF BudgetInv, TypeOK
  <2>2. Accounted(s)
    BY DEF BudgetInv
  <2>3. Rate * (clock - s - 1 + MaxStale) \in Nat
    <3>1. clock - s - 1 + MaxStale \in Nat
      BY <2>1
    <3>2. QED
      BY <3>1, <2>1
  <2>4. CASE Since(s) = 0
    BY <2>1, <2>3, <2>4
  <2>5. CASE Since(s) # 0
    <3>1. /\ Since(s) * Unit + tokens <= Full + Rate * (last - From(s))
          /\ last - From(s) \in Nat
          /\ Since(s) * Unit \in Nat
      BY <2>1, <2>2, <2>5 DEF Accounted, From
    <3>2. /\ clock - s - 1 + MaxStale = (last - From(s)) + (clock - last)
          /\ clock - last \in Nat
      BY <2>1 DEF From
    <3>3. Rate * (clock - s - 1 + MaxStale) = Rate * (last - From(s)) + Rate * (clock - last)
      <4>1. last - From(s) \in Int /\ clock - last \in Int /\ Rate \in Int
        BY <3>1, <3>2, <2>1
      <4>2. QED
        BY <4>1, <3>2, Distributes
    <3>4. Rate * (clock - last) \in Nat /\ Rate * (last - From(s)) \in Nat
      BY <3>1, <3>2, <2>1
    <3>5. QED
      BY <3>1, <3>3, <3>4, <2>1
  <2>6. QED
    BY <2>4, <2>5
<1>2. BudgetInv /\ TypeOK' /\ [Next]_vars => BudgetInv'
  BY BudgetStep
<1>3. QED
  BY <1>1, <1>2, BudgetInit, TypeCorrect, PTL DEF Spec

(***************************************************************************)
(* Refusals.  The other side of the account: what is left and what went    *)
(* out since a tick are a full bucket, or the refill from that tick to     *)
(* last.                                                                   *)
(***************************************************************************)

\* A longer span refills no less.
LEMMA Monotone ==
    ASSUME NEW k \in Nat, NEW m \in Int, NEW n \in Int, m <= n
    PROVE  k * m <= k * n
<1>1. n = m + (n - m) /\ n - m \in Nat
  OBVIOUS
<1>2. k * n = k * m + k * (n - m)
  BY <1>1, Distributes
<1>3. k * (n - m) \in Nat /\ k * m \in Int
  BY <1>1
<1>4. QED
  BY <1>2, <1>3

Drained(s, available, seen) ==
    \/ Since(s) * Unit + available >= Full
    \/ Since(s) * Unit + available >= Rate * (seen - s)

DrainInv ==
    /\ BudgetInv
    /\ granted * Unit + tokens >= Full
    /\ \A s \in 0..(clock - 1) : Drained(s, tokens, last)

Found(n) == IF n > last THEN Earned(n) ELSE tokens

\* What a caller finds is drained up to the later of its reading and last.
LEMMA TakeFinds ==
    ASSUME DrainInv, NEW c \in Caller, Take(c)
    PROVE  /\ Found(now[c]) \in 0..Full /\ Spend(Found(now[c])) /\ last' = LastAfter(now[c])
           /\ LastAfter(now[c]) \in Nat /\ clock - LastAfter(now[c]) <= MaxStale
           /\ granted * Unit + Found(now[c]) >= Full
           /\ \A s \in 0..(clock - 1) : Drained(s, Found(now[c]), LastAfter(now[c]))
<1> DEFINE n == now[c]
<1>1. /\ n \in Nat /\ n <= clock /\ clock - n <= MaxStale /\ last \in Nat /\ last <= clock
      /\ clock \in Nat /\ tokens \in 0..Full /\ granted \in Nat
  BY BudgetAssumption DEF DrainInv, BudgetInv, TypeOK, FreshReadings, Take
<1>2. Full \in Nat /\ Unit \in Nat /\ Rate \in Nat /\ MaxStale \in Nat
  BY FullIsNat, BudgetAssumption
<1>3. granted * Unit \in Nat /\ granted * Unit + tokens >= Full
  BY <1>1, <1>2 DEF DrainInv
<1>4. Spend(Found(n)) /\ last' = LastAfter(n)
  BY DEF Take, Found
<1> HIDE DEF n
<1>5. CASE n > last
  <2>1. /\ Found(n) = Earned(n) /\ LastAfter(n) = n
        /\ Earned(n) \in 0..Full /\ Earned(n) >= tokens
        /\ Earned(n) = Full \/ Earned(n) = tokens + Rate * (n - last)
    BY <1>1, <1>5, EarnedBounds DEF Found, LastAfter
  <2>2. ASSUME NEW s \in 0..(clock - 1) PROVE Drained(s, Earned(n), n)
    <3>1. s \in Nat /\ Since(s) \in Nat /\ Drained(s, tokens, last)
      BY <1>1 DEF DrainInv, BudgetInv, Accounted
    <3>2. Since(s) * Unit \in Nat
      BY <1>2, <3>1
    <3>3. CASE Earned(n) = Full \/ Since(s) * Unit + tokens >= Full
      <4>1. Since(s) * Unit + Earned(n) >= Full
        BY <1>1, <1>2, <2>1, <3>2, <3>3
      <4>2. QED
        BY <4>1 DEF Drained
    <3>4. CASE /\ Earned(n) = tokens + Rate * (n - last)
               /\ Since(s) * Unit + tokens >= Rate * (last - s)
      <4>1. n - s = (last - s) + (n - last) /\ last - s \in Int /\ n - last \in Int
        BY <1>1, <3>1
      <4>2. Rate * (n - s) = Rate * (last - s) + Rate * (n - last)
        BY <1>2, <4>1, Distributes
      <4>3. Rate * (last - s) \in Int /\ Rate * (n - last) \in Int
        BY <1>2, <4>1
      <4>4. Since(s) * Unit + Earned(n) >= Rate * (n - s)
        BY <1>1, <3>2, <3>4, <4>2, <4>3
      <4>5. QED
        BY <4>4 DEF Drained
    <3>5. QED
      BY <2>1, <3>1, <3>3, <3>4 DEF Drained
  <2>3. granted * Unit + Earned(n) >= Full
    BY <1>1, <1>2, <1>3, <2>1
  <2>4. QED
    BY <1>1, <1>4, <2>1, <2>2, <2>3 DEF n
<1>6. CASE ~(n > last)
  <2>1. Found(n) = tokens /\ LastAfter(n) = last /\ clock - last <= MaxStale
    BY <1>1, <1>2, <1>6 DEF Found, LastAfter
  <2>2. QED
    BY <1>1, <1>3, <1>4, <2>1 DEF DrainInv, n
<1>7. QED
  BY <1>5, <1>6

\* What a caller leaves and what it took are what it found.
LEMMA TakeDrains ==
    ASSUME DrainInv, BudgetInv', NEW c \in Caller, Take(c)
    PROVE  DrainInv'
<1> DEFINE available == Found(now[c])
           seen == LastAfter(now[c])
<1>1. /\ available \in 0..Full /\ Spend(available) /\ last' = seen /\ granted * Unit + available >= Full
      /\ \A s \in 0..(clock - 1) : Drained(s, available, seen)
  BY TakeFinds
<1> HIDE DEF available, seen
<1>2. /\ granted \in Nat /\ clock' = clock /\ ledger' = ledger /\ Unit \in Nat /\ available \in Nat
      /\ \A s \in 0..(clock - 1) : ledger[s] \in Nat /\ Since(s) \in Nat
  BY <1>1, FullIsNat, BudgetAssumption DEF DrainInv, BudgetInv, TypeOK, Take, Accounted
<1>3. \/ granted' = granted /\ tokens' = available
      \/ granted' = granted + 1 /\ tokens' = available - Unit
  BY <1>1, <1>2, SpendBounds
<1>4. ASSUME NEW n \in Nat, NEW m \in Nat, m - n = granted' - granted
      PROVE  m * Unit + tokens' = n * Unit + available
  <2>1. CASE granted' = granted /\ tokens' = available
    BY <1>2, <1>4, <2>1
  <2>2. CASE granted' = granted + 1 /\ tokens' = available - Unit
    <3>1. m = n + 1
      BY <1>2, <1>4, <2>2
    <3>2. (n + 1) * Unit = n * Unit + Unit /\ n * Unit \in Nat
      BY <1>2
    <3>3. QED
      BY <1>2, <2>2, <3>1, <3>2
  <2>3. QED
    BY <1>3, <2>1, <2>2
<1>5. granted' \in Nat
  BY <1>2, <1>3
<1>6. granted' * Unit + tokens' >= Full
  BY <1>1, <1>2, <1>4, <1>5
<1>7. ASSUME NEW s \in 0..(clock - 1) PROVE Drained(s, tokens, last)'
  <2>1. Since(s)' = Since(s) + (granted' - granted) /\ Since(s) \in Nat /\ Since(s)' \in Nat
    BY <1>2, <1>3 DEF Since
  <2>2. Since(s)' * Unit + tokens' = Since(s) * Unit + available
    <3>1. Since(s)' - Since(s) = granted' - granted
      BY <1>2, <1>5, <2>1
    <3>2. QED
      BY <1>4, <2>1, <3>1
  <2>3. QED
    BY <1>1, <2>2 DEF Drained
<1>8. QED
  BY <1>2, <1>6, <1>7 DEF DrainInv

\* A step and a tick keep every drained window drained.
LEMMA DrainStep ==
    ASSUME DrainInv, BudgetInv', [Next]_vars
    PROVE  DrainInv'
<1>h. /\ clock \in 0..Horizon /\ clock \in Nat /\ last \in 0..clock /\ tokens \in 0..Full /\ granted \in Nat
      /\ Rate \in Nat /\ Full \in Nat /\ Unit \in Nat /\ ledger \in [0..Horizon -> Nat]
  BY FullIsNat, BudgetAssumption DEF DrainInv, BudgetInv, TypeOK
<1>1. ASSUME NEW c \in Caller, ReadClock(c) PROVE DrainInv'
  BY <1>1 DEF ReadClock, DrainInv, bucketVars, ledgerVars, Drained, Since
<1>2. ASSUME NEW c \in Caller, Take(c) PROVE DrainInv'
  BY <1>2, TakeDrains
<1>3. CASE Tick
  <2>1. /\ clock' = clock + 1 /\ tokens' = tokens /\ last' = last /\ granted' = granted
        /\ ledger' = [ledger EXCEPT ![clock] = granted]
    BY <1>3 DEF Tick, bucketVars
  <2>2. ASSUME NEW s \in 0..(clock' - 1) PROVE Drained(s, tokens, last)'
    <3>1. CASE s # clock
      <4>1. s \in 0..(clock - 1) /\ ledger'[s] = ledger[s]
        BY <3>1, <2>1, <1>h
      <4>2. QED
        BY <4>1, <2>1 DEF DrainInv, Drained, Since
    <3>2. CASE s = clock
      <4>1. Since(s)' = 0
        BY <3>2, <2>1, <1>h DEF Since
      <4>2. Rate * (last - s) <= Rate * 0 /\ Rate * (last - s) \in Int
        BY <3>2, <1>h, Monotone
      <4>3. 0 * Unit = 0 /\ Rate * 0 = 0
        BY <1>h
      <4>4. Since(s)' * Unit + tokens' >= Rate * (last' - s)
        BY <4>1, <4>2, <4>3, <2>1, <1>h
      <4>5. QED
        BY <4>4 DEF Drained
    <3>3. QED
      BY <3>1, <3>2
  <2>3. granted' * Unit + tokens' >= Full
    BY <2>1 DEF DrainInv
  <2>4. QED
    BY <2>2, <2>3 DEF DrainInv
<1>4. CASE UNCHANGED vars
  BY <1>4 DEF vars, bucketVars, callerVars, ledgerVars, DrainInv, Drained, Since
<1>5. QED
  BY <1>1, <1>2, <1>3, <1>4 DEF Next

\* A mail is put off only when the hour before has had its ceiling (Budget.take).
THEOREM RefusalIsEarnedHolds == Spec => RefusalIsEarned
<1>1. Init => DrainInv
  <2>1. ASSUME Init PROVE granted * Unit + tokens >= Full
    <3>1. granted = 0 /\ tokens = Full /\ 0 * Unit = 0 /\ Full \in Nat
      BY <2>1, FullIsNat, BudgetAssumption DEF Init
    <3>2. 0 + Full >= Full
      BY <3>1
    <3>3. QED
      BY <3>1, <3>2, Zenon
  <2>2. Init => clock = 0
    BY DEF Init
  <2>3. QED
    BY <2>1, <2>2, BudgetInit DEF DrainInv
<1>2. DrainInv /\ TypeOK' /\ [Next]_vars => DrainInv'
  BY DrainStep, BudgetStep DEF DrainInv
<1>3. ASSUME DrainInv, [Next]_vars, NEW c \in Caller, c \in asking, c \notin asking', granted' = granted
      PROVE  LastHour >= PerHour
  <2> DEFINE available == Found(now[c])
             seen == LastAfter(now[c])
             s == clock - Hour - MaxStale - 1
  <2>1. Take(c)
    <3>1. ASSUME NEW u \in Caller, Take(u) PROVE u = c
      BY <1>3, <3>1 DEF Take
    <3>2. ASSUME NEW u \in Caller, ReadClock(u) PROVE FALSE
      BY <1>3, <3>2 DEF ReadClock
    <3>3. ~Tick /\ ~UNCHANGED vars
      BY <1>3 DEF Tick, vars, callerVars
    <3>4. QED
      BY <1>3, <3>1, <3>2, <3>3 DEF Next
  <2>2. /\ available \in 0..Full /\ Spend(available) /\ seen \in Nat /\ clock - seen <= MaxStale
        /\ granted * Unit + available >= Full
        /\ \A r \in 0..(clock - 1) : Drained(r, available, seen)
    BY <1>3, <2>1, TakeFinds
  <2>3. /\ clock \in Nat /\ granted \in Nat /\ Unit \in Nat /\ PerHour \in Nat /\ Rate \in Nat /\ Hour \in Nat
        /\ MaxStale \in Nat /\ Full \in Nat /\ Full = PerHour * Unit /\ Full = Rate * Hour
        /\ \A r \in 0..(clock - 1) : Since(r) \in Nat
    BY <1>3, FullIsNat, BudgetAssumption DEF DrainInv, BudgetInv, TypeOK, Full, Accounted
  <2> HIDE DEF available, seen
  <2>4. available < Unit /\ available \in Nat
    BY <1>3, <2>2, <2>3 DEF Spend
  <2>5. ASSUME NEW n \in Nat, n * Unit + available >= Full PROVE n >= PerHour
    <3>1. CASE n <= PerHour - 1
      <4>1. Unit * n <= Unit * (PerHour - 1)
        BY <2>3, <3>1, Monotone
      <4>2. Unit * (PerHour - 1) = PerHour * Unit - Unit /\ Unit * n = n * Unit
        BY <2>3
      <4>3. n * Unit \in Nat /\ PerHour * Unit \in Nat
        BY <2>3
      <4>4. QED
        BY <2>3, <2>4, <2>5, <4>1, <4>2, <4>3
    <3>2. QED
      BY <2>3, <3>1
  <2>6. CASE s < 0
    BY <2>2, <2>3, <2>5, <2>6 DEF LastHour
  <2>7. CASE ~(s < 0)
    <3>1. s \in 0..(clock - 1) /\ s \in Nat /\ Since(s) \in Nat /\ Drained(s, available, seen)
      BY <2>2, <2>3, <2>7
    <3>2. LastHour = Since(s)
      BY <2>7 DEF LastHour
    <3>3. seen - s \in Int /\ Hour <= seen - s
      BY <2>2, <2>3, <3>1
    <3> HIDE DEF s
    <3>4. Rate * Hour <= Rate * (seen - s)
      BY <2>3, <3>3, Monotone
    <3>5. Since(s) * Unit \in Nat /\ Rate * (seen - s) \in Int
      BY <2>3, <3>1, <3>3
    <3>6. Since(s) * Unit + available >= Full
      BY <2>3, <2>4, <3>1, <3>4, <3>5 DEF Drained
    <3>7. QED
      BY <2>5, <3>1, <3>2, <3>6
  <2>8. QED
    BY <2>6, <2>7
<1>4. DrainInv /\ [Next]_vars =>
        [\A c \in Caller : c \in asking /\ c \notin asking' /\ granted' = granted => LastHour >= PerHour]_vars
  BY <1>3
<1>5. QED
  BY <1>1, <1>2, <1>4, TypeCorrect, PTL DEF Spec, RefusalIsEarned
=============================================================================
