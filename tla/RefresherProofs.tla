--------------------------- MODULE RefresherProofs ---------------------------
(***************************************************************************)
(* The refresher's breaker spaces its probes by a cooldown, for every      *)
(* threshold, cooldown, length of a run and number of instances: the clock *)
(* of an open breaker never runs ahead of the time since the last run that *)
(* asked GitHub began.  And the calendar recovers: an instance has waited  *)
(* no longer than its breaker's clock, or than the cooldown it served and  *)
(* the run it owes, and what it waved through left a young row.            *)
(***************************************************************************)
EXTENDS Refresher, TLAPS

\* Every variable keeps its type (Refresher.runOnce and the row it writes).
THEOREM TypeCorrect == Spec => []TypeOK
<1>0. /\ StaleAfter \in Nat /\ BreakerCooldown \in Nat /\ RefreshEvery \in Nat \ {0}
      /\ MaxAttempts \in Nat \ {0} /\ BreakerThreshold \in Nat \ {0}
  BY RefreshAssumption
<1>h. /\ AgeCap \in Nat /\ CalmCap \in Nat
      /\ B!ClosedBreaker \in B!BreakerState
      /\ \A b \in B!BreakerState :
            /\ B!Probed(b) \in B!BreakerState
            /\ B!AfterSuccess(b) \in B!BreakerState
            /\ B!AfterFailure(b) \in B!BreakerState
            /\ B!BreakerAged(b) \in B!BreakerState
  <2>1. AgeCap \in Nat /\ CalmCap \in Nat
    <3>1. Slack \in Nat
      BY <1>0 DEF Slack
    <3>2. QED
      BY <1>0, <3>1 DEF AgeCap, CalmCap
  <2>2. B!ClosedBreaker \in B!BreakerState
    BY <1>0 DEF B!ClosedBreaker, B!BreakerState
  <2>3. ASSUME NEW b \in B!BreakerState
        PROVE  /\ B!Probed(b) \in B!BreakerState
               /\ B!AfterSuccess(b) \in B!BreakerState
    BY <1>0, <2>2 DEF B!Probed, B!AfterSuccess, B!BreakerState, B!IsOpen
  <2>4. ASSUME NEW b \in B!BreakerState
        PROVE  B!AfterFailure(b) \in B!BreakerState
    BY <1>0 DEF B!AfterFailure, B!BreakerState
  <2>5. ASSUME NEW b \in B!BreakerState
        PROVE  B!BreakerAged(b) \in B!BreakerState
    BY <1>0 DEF B!BreakerAged, B!BreakerState
  <2>6. QED
    BY <2>1, <2>2, <2>3, <2>4, <2>5
<1>1. Init => TypeOK
  BY <1>0, <1>h DEF Init, TypeOK, NoRun
<1>2. TypeOK /\ [Next]_vars => TypeOK'
  <2> SUFFICES ASSUME TypeOK, [Next]_vars PROVE TypeOK'
    OBVIOUS
  <2>1. ASSUME NEW i \in Instance, Skip(i) PROVE TypeOK'
    BY <2>1 DEF Skip, TypeOK, worldVars, watchVars
  <2>2. ASSUME NEW i \in Instance, Decide(i) PROVE TypeOK'
    <3>1. breaker' \in [Instance -> B!BreakerState]
      BY <2>2, <1>h DEF Decide, TypeOK
    <3>2. run' \in [Instance -> [pc : {"idle", "fetching", "writing"},
                                 failed : 0..(MaxAttempts - 1)]]
      BY <2>2 DEF Decide, TypeOK
    <3>3. quiet' \in [Instance -> 0..BreakerCooldown]
      BY <2>2, <1>0 DEF Decide, TypeOK
    <3>4. QED
      BY <2>2, <3>1, <3>2, <3>3 DEF Decide, TypeOK, worldVars
  <2>3. ASSUME NEW i \in Instance, FetchAnswered(i) PROVE TypeOK'
    BY <2>3, <1>0 DEF FetchAnswered, Fetching, TypeOK, worldVars, watchVars
  <2>4. ASSUME NEW i \in Instance, FetchRetried(i) PROVE TypeOK'
    BY <2>4, <1>0 DEF FetchRetried, AttemptLeft, Fetching, TypeOK, worldVars, watchVars
  <2>5. ASSUME NEW i \in Instance, FetchFailed(i) PROVE TypeOK'
    <3>1. breaker' \in [Instance -> B!BreakerState]
      BY <2>5, <1>h DEF FetchFailed, TypeOK
    <3>2. QED
      BY <2>5, <3>1, <1>0 DEF FetchFailed, Fetching, RunEnds, NoRun, TypeOK, worldVars, watchVars
  <2>6. ASSUME NEW i \in Instance, Store(i) PROVE TypeOK'
    <3>1. breaker' \in [Instance -> B!BreakerState]
      BY <2>6, <1>h DEF Store, TypeOK
    <3>2. QED
      BY <2>6, <3>1, <1>0, <1>h DEF Store, Stored, RunEnds, NoRun, TypeOK, worldVars, watchVars
  <2>7. ASSUME NEW i \in Instance, StoreFailed(i) PROVE TypeOK'
    <3>1. row' \in [cached : BOOLEAN, age : 0..AgeCap]
      <4>1. Stored \in [cached : BOOLEAN, age : 0..AgeCap]
        BY <1>h DEF Stored
      <4>2. row' = row \/ row' = Stored
        BY <2>7 DEF StoreFailed
      <4>3. row \in [cached : BOOLEAN, age : 0..AgeCap]
        BY DEF TypeOK
      <4>4. QED
        BY <4>1, <4>2, <4>3
    <3>2. run' \in [Instance -> [pc : {"idle", "fetching", "writing"},
                                 failed : 0..(MaxAttempts - 1)]]
      BY <2>7, <1>0 DEF StoreFailed, RunEnds, NoRun, TypeOK
    <3>3. QED
      BY <2>7, <3>1, <3>2 DEF StoreFailed, TypeOK, worldVars, watchVars
  <2>8. ASSUME NEW i \in Instance, Restart(i) PROVE TypeOK'
    <3>1. breaker' \in [Instance -> B!BreakerState]
      BY <2>8, <1>h DEF Restart, TypeOK
    <3>2. QED
      BY <2>8, <3>1, <1>0, <1>h DEF Restart, RunEnds, NoRun, TypeOK, worldVars
  <2>9. CASE ServiceChanges
    BY <2>9, <1>h DEF ServiceChanges, Flipped, TypeOK
  <2>10. CASE MomentPasses
    <3>1. breaker' \in [Instance -> B!BreakerState]
      BY <2>10, <1>h DEF MomentPasses, TypeOK
    <3>2. row' \in [cached : BOOLEAN, age : 0..AgeCap]
      BY <2>10, <1>h DEF MomentPasses, Older, TypeOK
    <3>3. /\ quiet' \in [Instance -> 0..BreakerCooldown]
          /\ calm' \in [Instance -> 0..CalmCap]
      BY <2>10, <1>0, <1>h DEF MomentPasses, Older, TypeOK
    <3>4. timer' \in [Instance -> 0..(RefreshEvery - 1)]
      BY <2>10, <1>0 DEF MomentPasses, TypeOK
    <3>5. due' \subseteq Instance
      BY <2>10 DEF MomentPasses, TypeOK
    <3>6. QED
      BY <2>10, <3>1, <3>2, <3>3, <3>4, <3>5 DEF MomentPasses, TypeOK, worldVars
  <2>11. CASE UNCHANGED vars
    BY <2>11 DEF vars, worldVars, watchVars, TypeOK
  <2>12. QED
    BY <2>1, <2>2, <2>3, <2>4, <2>5, <2>6, <2>7, <2>8, <2>9, <2>10, <2>11 DEF Next
<1>3. QED
  BY <1>1, <1>2, PTL DEF Spec

\* The clock of an open breaker is behind the time since its instance's last
\* run that asked GitHub began.
SpacedInv ==
    \A i \in Instance : B!IsOpen(breaker[i]) => breaker[i].since <= quiet[i]

\* A run that starts with an open breaker starts a cooldown after the last one
\* that asked GitHub (Breaker.Allow's reset of openedAt on the half-open path).
THEOREM ProbesAreSpacedHolds == Spec => ProbesAreSpaced
<1>0. BreakerCooldown \in Nat /\ BreakerThreshold \in Nat \ {0}
  BY RefreshAssumption
<1>1. Init => SpacedInv
  BY <1>0 DEF Init, SpacedInv, B!IsOpen, B!ClosedBreaker
<1>2. TypeOK /\ SpacedInv /\ [Next]_vars => SpacedInv'
  <2> SUFFICES ASSUME TypeOK, SpacedInv, [Next]_vars PROVE SpacedInv'
    OBVIOUS
  <2> USE <1>0
  <2>h. /\ breaker \in [Instance -> B!BreakerState]
        /\ quiet \in [Instance -> 0..BreakerCooldown]
    BY DEF TypeOK
  <2>1. ASSUME NEW i \in Instance, Skip(i) \/ FetchAnswered(i) \/ FetchRetried(i)
                                           \/ StoreFailed(i)
        PROVE  SpacedInv'
    BY <2>1 DEF Skip, FetchAnswered, FetchRetried, StoreFailed, SpacedInv, watchVars
  <2>2. ASSUME NEW i \in Instance, Decide(i) PROVE SpacedInv'
    <3> SUFFICES ASSUME NEW j \in Instance, B!IsOpen(breaker'[j])
                 PROVE  breaker'[j].since <= quiet'[j]
      BY DEF SpacedInv, B!IsOpen
    <3>1. quiet'[j] \in 0..BreakerCooldown
      BY <2>2, <2>h DEF Decide
    <3>2. CASE j = i
      <4>1. breaker'[j] = B!Probed(breaker[j]) /\ breaker[j] \in B!BreakerState
        BY <2>2, <2>h, <3>2 DEF Decide
      <4>2. breaker'[j].since = 0
        BY <4>1 DEF B!Probed, B!IsOpen, B!BreakerState
      <4>3. QED
        BY <4>2, <3>1
    <3>3. CASE j # i
      <4>1. breaker'[j] = breaker[j] /\ quiet'[j] = quiet[j]
        BY <2>2, <2>h, <3>3 DEF Decide
      <4>2. QED
        BY <4>1 DEF SpacedInv, B!IsOpen
    <3>4. QED
      BY <3>2, <3>3
  <2>3. ASSUME NEW i \in Instance, FetchFailed(i) PROVE SpacedInv'
    <3> SUFFICES ASSUME NEW j \in Instance, B!IsOpen(breaker'[j])
                 PROVE  breaker'[j].since <= quiet'[j]
      BY DEF SpacedInv, B!IsOpen
    <3>1. quiet' = quiet
      BY <2>3 DEF FetchFailed, watchVars
    <3>2. CASE j = i
      <4>1. breaker'[j] = B!AfterFailure(breaker[j]) /\ breaker[j] \in B!BreakerState
        BY <2>3, <2>h, <3>2 DEF FetchFailed
      <4>2. breaker'[j].since = 0
        BY <4>1 DEF B!AfterFailure, B!IsOpen, B!BreakerState
      <4>3. QED
        BY <4>2, <3>1, <2>h
    <3>3. CASE j # i
      <4>1. breaker'[j] = breaker[j]
        BY <2>3, <2>h, <3>3 DEF FetchFailed
      <4>2. QED
        BY <4>1, <3>1 DEF SpacedInv, B!IsOpen
    <3>4. QED
      BY <3>2, <3>3
  <2>4. ASSUME NEW i \in Instance, Store(i) \/ Restart(i) PROVE SpacedInv'
    <3>1. /\ quiet' = quiet
          /\ breaker' = [breaker EXCEPT ![i] = B!ClosedBreaker]
      BY <2>4 DEF Store, Restart, watchVars, B!AfterSuccess
    <3>2. ~B!IsOpen(B!ClosedBreaker)
      BY DEF B!IsOpen, B!ClosedBreaker
    <3>3. QED
      BY <3>1, <3>2, <2>h DEF SpacedInv, B!IsOpen
  <2>5. CASE ServiceChanges
    BY <2>5 DEF ServiceChanges, SpacedInv
  <2>6. CASE MomentPasses
    <3> SUFFICES ASSUME NEW j \in Instance, B!IsOpen(breaker'[j])
                 PROVE  breaker'[j].since <= quiet'[j]
      BY DEF SpacedInv, B!IsOpen
    <3>1. /\ breaker'[j] = B!BreakerAged(breaker[j])
          /\ quiet'[j] = Older(quiet[j], BreakerCooldown)
          /\ breaker[j] \in B!BreakerState /\ quiet[j] \in 0..BreakerCooldown
      BY <2>6, <2>h DEF MomentPasses
    <3>2. B!IsOpen(breaker[j])
      BY <3>1 DEF B!BreakerAged, B!IsOpen, B!BreakerState
    <3>3. breaker[j].since <= quiet[j]
      BY <3>2 DEF SpacedInv
    <3>4. QED
      BY <3>1, <3>3 DEF B!BreakerAged, B!BreakerState, Older
  <2>7. CASE UNCHANGED vars
    BY <2>7 DEF vars, watchVars, SpacedInv
  <2>8. QED
    BY <2>1, <2>2, <2>3, <2>4, <2>5, <2>6, <2>7 DEF Next
<1>3. TypeOK /\ SpacedInv /\ [Next]_vars =>
        [\A i \in Instance :
            run[i].pc = "idle" /\ run'[i].pc = "fetching" /\ B!IsOpen(breaker[i]) =>
                quiet[i] >= BreakerCooldown]_vars
  <2> SUFFICES ASSUME TypeOK, SpacedInv, Next, NEW i \in Instance,
                      run[i].pc = "idle", run'[i].pc = "fetching", B!IsOpen(breaker[i])
               PROVE  quiet[i] >= BreakerCooldown
    OBVIOUS
  <2>h. /\ run \in [Instance -> [pc : {"idle", "fetching", "writing"},
                                 failed : 0..(MaxAttempts - 1)]]
        /\ breaker \in [Instance -> B!BreakerState]
        /\ quiet \in [Instance -> 0..BreakerCooldown]
    BY DEF TypeOK
  <2>1. Decide(i)
    <3>1. ASSUME NEW j \in Instance,
                 \/ Skip(j) \/ FetchAnswered(j) \/ FetchRetried(j) \/ FetchFailed(j)
                 \/ Store(j) \/ StoreFailed(j) \/ Restart(j)
          PROVE  FALSE
      BY <3>1, <2>h DEF Skip, FetchAnswered, FetchRetried, FetchFailed, Store,
         StoreFailed, Restart, RunEnds, NoRun, Fetching
    <3>2. ~ServiceChanges /\ ~MomentPasses
      BY DEF ServiceChanges, MomentPasses
    <3>3. PICK j \in Instance : Decide(j)
      BY <3>1, <3>2 DEF Next
    <3>4. j = i
      BY <3>3, <2>h DEF Decide
    <3>5. QED
      BY <3>3, <3>4
  <2>2. breaker[i].since >= BreakerCooldown
    BY <2>1 DEF Decide, B!Allows, B!HasCooled
  <2>3. breaker[i].since <= quiet[i]
    BY DEF SpacedInv
  <2>4. QED
    BY <1>0, <2>h, <2>2, <2>3 DEF B!BreakerState
<1>4. QED
  BY <1>1, <1>2, <1>3, TypeCorrect, PTL DEF Spec, ProbesAreSpaced
-----------------------------------------------------------------------------
Waiting(i) == run[i].pc = "idle" /\ ~B!Allows(breaker[i])

\* A tick of i that is not over.
Owes(i) == i \in due \/ run[i].pc # "idle"

\* How long i may have left an old row alone: its breaker's clock, or a cooldown
\* served, the moments of this tick and the run it owes.
Bound(i) ==
    IF Waiting(i) THEN breaker[i].since
    ELSE BreakerCooldown - 1 + timer[i] + (IF Owes(i) THEN RefreshEvery ELSE 0)

Within(i, n) == calm[i] <= n \/ (row.cached /\ row.age < StaleAfter + n)

RecoverInv ==
    \A i \in Instance : calm[i] >= 1 =>
        Up(github) /\ Up(database) /\ Within(i, Bound(i))

LEMMA RefreshNumbers ==
    /\ StaleAfter \in Nat /\ StaleAfter >= 1
    /\ RefreshEvery \in Nat /\ RefreshEvery >= 1
    /\ BreakerCooldown \in Nat /\ BreakerCooldown >= 1
    /\ BreakerThreshold \in Nat /\ BreakerThreshold >= 1
    /\ Slack \in Nat /\ Slack = 2 * (RefreshEvery - 1)
    /\ AgeCap = StaleAfter + BreakerCooldown + Slack
    /\ CalmCap = BreakerCooldown + Slack + 1
  BY RefreshAssumption DEF Slack, AgeCap, CalmCap

\* The parts of TypeOK this argument counts with.
LEMMA RefreshTypes ==
    ASSUME TypeOK
    PROVE  /\ row.age \in 0..AgeCap
           /\ \A i \in Instance : /\ breaker[i] \in B!BreakerState
                                  /\ breaker[i].since \in 0..BreakerCooldown
                                  /\ timer[i] \in 0..(RefreshEvery - 1)
                                  /\ calm[i] \in 0..CalmCap
           /\ breaker \in [Instance -> B!BreakerState]
           /\ run \in [Instance -> [pc : {"idle", "fetching", "writing"},
                                    failed : 0..(MaxAttempts - 1)]]
  BY DEF TypeOK, B!BreakerState

\* The bound is a number, and no larger than a cooldown and the slack.
LEMMA BoundIsBounded ==
    TypeOK => \A i \in Instance : Bound(i) \in 0..(BreakerCooldown + Slack)
<1> SUFFICES ASSUME TypeOK, NEW i \in Instance
             PROVE  Bound(i) \in 0..(BreakerCooldown + Slack)
  OBVIOUS
<1>1. /\ breaker[i].since \in 0..BreakerCooldown /\ timer[i] \in 0..(RefreshEvery - 1)
  BY RefreshTypes
<1>2. CASE Waiting(i)
  BY <1>1, <1>2, RefreshNumbers DEF Bound
<1>3. CASE ~Waiting(i) /\ Owes(i)
  BY <1>1, <1>3, RefreshNumbers DEF Bound
<1>4. CASE ~Waiting(i) /\ ~Owes(i)
  BY <1>1, <1>4, RefreshNumbers DEF Bound
<1>5. QED
  BY <1>2, <1>3, <1>4

LEMMA NextBoundIsBounded ==
    TypeOK' => (\A i \in Instance : Bound(i) \in 0..(BreakerCooldown + Slack))'
  BY BoundIsBounded, PTL

\* A step of one instance that leaves the row and the services alone disturbs
\* only its own bound.
LEMMA OneInstanceActs ==
    ASSUME TypeOK, RecoverInv, NEW i \in Instance,
           UNCHANGED <<row, github, database, calm, timer>>,
           \A j \in Instance : j # i =>
               breaker'[j] = breaker[j] /\ run'[j] = run[j] /\ (j \in due' <=> j \in due),
           calm[i] >= 1 => Within(i, Bound(i)')
    PROVE  RecoverInv'
<1> SUFFICES ASSUME NEW j \in Instance, calm[j] >= 1
             PROVE  Up(github) /\ Up(database) /\ Within(j, Bound(j)')
  BY DEF RecoverInv, Within, Up
<1>1. Up(github) /\ Up(database) /\ Within(j, Bound(j))
  BY DEF RecoverInv
<1>2. CASE j = i
  BY <1>1, <1>2
<1>3. CASE j # i
  <2>1. Bound(j)' = Bound(j)
    BY <1>3 DEF Bound, Waiting, Owes, B!Allows, B!IsOpen, B!HasCooled
  <2>2. QED
    BY <1>1, <2>1
<1>4. QED
  BY <1>2, <1>3

LEMMA RecoverStep == TypeOK /\ TypeOK' /\ RecoverInv /\ [Next]_vars => RecoverInv'
<1> SUFFICES ASSUME TypeOK, TypeOK', RecoverInv, [Next]_vars PROVE RecoverInv'
  OBVIOUS
<1> USE RefreshNumbers
<1>0. /\ run \in [Instance -> [pc : {"idle", "fetching", "writing"},
                               failed : 0..(MaxAttempts - 1)]]
      /\ breaker \in [Instance -> B!BreakerState]
  BY RefreshTypes
<1>1. ASSUME NEW i \in Instance, Skip(i) PROVE RecoverInv'
  <2>1. /\ UNCHANGED <<row, github, database, calm, timer, breaker, run>>
        /\ due' = due \ {i} /\ Waiting(i)
    BY <1>1 DEF Skip, worldVars, watchVars, Waiting, NoRun
  <2>2. Bound(i)' = Bound(i)
    BY <2>1 DEF Bound, Waiting, B!Allows, B!IsOpen, B!HasCooled
  <2>3. QED
    BY <2>1, <2>2, OneInstanceActs DEF RecoverInv
<1>2. ASSUME NEW i \in Instance, Decide(i) PROVE RecoverInv'
  <2>1. /\ UNCHANGED <<row, github, database, calm, timer>>
        /\ breaker' = [breaker EXCEPT ![i] = B!Probed(@)] /\ due' = due \ {i}
        /\ \A j \in Instance : j # i => run'[j] = run[j]
        /\ i \in due /\ run[i].pc = "idle" /\ B!Allows(breaker[i])
    BY <1>2, <1>0 DEF Decide, worldVars, NoRun
  <2>2. \A j \in Instance : j # i => breaker'[j] = breaker[j] /\ (j \in due' <=> j \in due)
    BY <2>1
  <2>3. ASSUME calm[i] >= 1 PROVE Within(i, Bound(i)')
    <3>1. Up(database) /\ Within(i, Bound(i))
      BY <2>3 DEF RecoverInv
    <3>2. CASE IsFresh
      <4>1. Bound(i)' \in Nat
        BY NextBoundIsBounded, RefreshNumbers
      <4>2. row.age \in Nat
        BY RefreshTypes
      <4>3. QED
        BY <3>2, <4>1, <4>2 DEF IsFresh, Within
    <3>3. CASE ~IsFresh
      <4>1. run'[i].pc = "fetching"
        BY <1>2, <1>0, <3>1, <3>3 DEF Decide
      <4>2. Bound(i)' = Bound(i)
        BY <2>1, <4>1 DEF Bound, Waiting, Owes
      <4>3. QED
        BY <3>1, <4>2
    <3>4. QED
      BY <3>2, <3>3
  <2>4. QED
    BY <2>1, <2>2, <2>3, OneInstanceActs
<1>3. ASSUME NEW i \in Instance, FetchAnswered(i) \/ FetchRetried(i) PROVE RecoverInv'
  <2>1. /\ run[i].pc # "idle" /\ run'[i].pc # "idle"
        /\ UNCHANGED <<row, github, database, calm, timer, breaker, due>>
        /\ \A j \in Instance : j # i => run'[j] = run[j]
    BY <1>3, <1>0 DEF FetchAnswered, FetchRetried, Fetching, worldVars, watchVars
  <2>2. Bound(i)' = Bound(i)
    BY <2>1 DEF Bound, Waiting, Owes
  <2>3. QED
    BY <2>1, <2>2, OneInstanceActs DEF RecoverInv
<1>4. ASSUME NEW i \in Instance, FetchFailed(i) \/ StoreFailed(i) PROVE RecoverInv'
  <2>1. (~Up(github) \/ ~Up(database)) /\ calm' = calm
    BY <1>4 DEF FetchFailed, StoreFailed, watchVars
  <2>2. QED
    BY <2>1 DEF RecoverInv
<1>5. ASSUME NEW i \in Instance, Store(i) PROVE RecoverInv'
  <2>1. row' = Stored /\ UNCHANGED <<github, database, calm>>
    BY <1>5 DEF Store, worldVars, watchVars
  <2>2. ASSUME NEW j \in Instance PROVE Within(j, Bound(j))'
    <3>1. Bound(j)' \in Nat
      BY NextBoundIsBounded, RefreshNumbers
    <3>2. QED
      BY <2>1, <3>1 DEF Within, Stored
  <2>3. QED
    BY <2>1, <2>2 DEF RecoverInv, Up
<1>6. ASSUME NEW i \in Instance, Restart(i) PROVE RecoverInv'
  <2>1. /\ UNCHANGED <<row, github, database>>
        /\ \A j \in Instance : j # i =>
              /\ breaker'[j] = breaker[j] /\ run'[j] = run[j] /\ (j \in due' <=> j \in due)
              /\ timer'[j] = timer[j] /\ calm'[j] = calm[j]
        /\ calm'[i] = 0
    BY <1>6 DEF Restart, RunEnds, worldVars, TypeOK
  <2>2. ASSUME NEW j \in Instance, calm'[j] >= 1
        PROVE  Up(github) /\ Up(database) /\ Within(j, Bound(j))'
    <3>1. j # i
      BY <2>1, <2>2
    <3>2. Bound(j)' = Bound(j)
      BY <2>1, <3>1 DEF Bound, Waiting, Owes, B!Allows, B!IsOpen, B!HasCooled
    <3>3. QED
      BY <2>1, <2>2, <3>1, <3>2 DEF RecoverInv, Within
  <2>3. QED
    BY <2>1, <2>2 DEF RecoverInv, Up
<1>7. CASE ServiceChanges
  BY <1>7 DEF ServiceChanges, RecoverInv
<1>8. CASE MomentPasses
  <2> SUFFICES ASSUME NEW i \in Instance, calm'[i] >= 1
               PROVE  Up(github)' /\ Up(database)' /\ Within(i, Bound(i))'
    BY DEF RecoverInv
  <2>1. /\ Up(github) /\ Up(database) /\ UNCHANGED <<github, database, run>>
        /\ calm'[i] = Older(calm[i], CalmCap)
        /\ timer'[i] = (timer[i] + 1) % RefreshEvery
        /\ due' = due \cup {j \in Instance : timer[j] = RefreshEvery - 1}
        /\ timer[i] = RefreshEvery - 1 => i \notin due /\ run[i].pc = "idle"
        /\ breaker'[i] = B!BreakerAged(breaker[i])
    BY <1>8 DEF MomentPasses, NoRun, worldVars
  <2>2. /\ calm[i] \in Nat /\ calm'[i] \in Nat /\ calm'[i] <= calm[i] + 1
        /\ timer[i] \in 0..(RefreshEvery - 1)
        /\ breaker[i] \in B!BreakerState /\ breaker[i].since \in 0..BreakerCooldown
        /\ breaker'[i].since \in 0..BreakerCooldown
    <3>1. calm[i] \in 0..CalmCap
      BY RefreshTypes
    <3>2. calm'[i] \in Nat /\ calm'[i] <= calm[i] + 1
      BY <2>1, <3>1 DEF Older
    <3>3. breaker'[i].since \in 0..BreakerCooldown
      BY DEF TypeOK, B!BreakerState
    <3>4. QED
      BY <3>1, <3>2, <3>3, RefreshTypes
  <2>3. /\ B!IsOpen(breaker'[i]) <=> B!IsOpen(breaker[i])
        /\ breaker[i].since < BreakerCooldown => breaker'[i].since = breaker[i].since + 1
        /\ breaker[i].since >= BreakerCooldown => breaker'[i].since >= BreakerCooldown
    <3>1. CASE breaker[i].since < BreakerCooldown
      <4>1. breaker'[i] = [breaker[i] EXCEPT !.since = @ + 1]
        BY <2>1, <3>1 DEF B!BreakerAged
      <4>2. breaker'[i].failures = breaker[i].failures /\ breaker'[i].since = breaker[i].since + 1
        BY <2>2, <4>1 DEF B!BreakerState
      <4>3. QED
        BY <2>2, <3>1, <4>2 DEF B!IsOpen
    <3>2. CASE breaker[i].since >= BreakerCooldown
      <4>1. breaker'[i] = breaker[i]
        BY <2>1, <2>2, <3>2 DEF B!BreakerAged
      <4>2. QED
        BY <2>2, <3>2, <4>1 DEF B!IsOpen
    <3>3. QED
      BY <2>2, <3>1, <3>2
  <2>4. /\ timer[i] < RefreshEvery - 1 => timer'[i] = timer[i] + 1
        /\ timer[i] = RefreshEvery - 1 => timer'[i] = 0
    BY <2>1, <2>2
  <2>5. Bound(i)' >= Bound(i) + 1
    <3>1. ~B!Allows(breaker'[i]) => ~B!Allows(breaker[i])
      BY <2>2, <2>3 DEF B!Allows, B!HasCooled
    <3>2. CASE Waiting(i)'
      <4>1. Waiting(i) /\ breaker[i].since < BreakerCooldown
        BY <2>1, <2>2, <3>1, <3>2 DEF Waiting, B!Allows, B!HasCooled, B!IsOpen
      <4>2. Bound(i) = breaker[i].since /\ Bound(i)' = breaker'[i].since
        BY <3>2, <4>1 DEF Bound
      <4>3. QED
        BY <2>2, <2>3, <4>1, <4>2
    <3>3. CASE ~Waiting(i)' /\ timer[i] = RefreshEvery - 1
      <4>1. Owes(i)' /\ ~Owes(i)
        BY <2>1, <3>3 DEF Owes
      <4>2. Bound(i)' = BreakerCooldown - 1 + 0 + RefreshEvery
        BY <2>4, <3>3, <4>1 DEF Bound
      <4>3. CASE Waiting(i)
        <5>1. Bound(i) = breaker[i].since /\ breaker[i].since < BreakerCooldown
          BY <2>2, <4>3 DEF Bound, Waiting, B!Allows, B!HasCooled
        <5>2. QED
          BY <2>2, <4>2, <5>1
      <4>4. CASE ~Waiting(i)
        <5>1. Bound(i) = BreakerCooldown - 1 + (RefreshEvery - 1) + 0
          BY <3>3, <4>1, <4>4 DEF Bound
        <5>2. QED
          BY <4>2, <5>1
      <4>5. QED
        BY <4>3, <4>4
    <3>4. CASE ~Waiting(i)' /\ timer[i] < RefreshEvery - 1
      <4>1. Owes(i)' <=> Owes(i)
        BY <2>1, <2>2, <3>4 DEF Owes
      <4>2. timer'[i] = timer[i] + 1
        BY <2>4, <3>4
      <4>3. CASE Waiting(i)
        <5>1. Bound(i) = breaker[i].since /\ breaker[i].since < BreakerCooldown
          BY <2>2, <4>3 DEF Bound, Waiting, B!Allows, B!HasCooled
        <5>2. Bound(i)' >= BreakerCooldown - 1 + timer'[i]
          <6>1. CASE Owes(i)'
            BY <2>2, <3>4, <4>2, <6>1 DEF Bound
          <6>2. CASE ~Owes(i)'
            BY <2>2, <3>4, <4>2, <6>2 DEF Bound
          <6>3. QED
            BY <6>1, <6>2
        <5>3. Bound(i)' \in Nat
          BY NextBoundIsBounded, RefreshNumbers
        <5>4. QED
          BY <2>2, <4>2, <5>1, <5>2, <5>3
      <4>4. CASE ~Waiting(i) /\ Owes(i)
        BY <2>2, <3>4, <4>1, <4>2, <4>4 DEF Bound
      <4>5. CASE ~Waiting(i) /\ ~Owes(i)
        BY <2>2, <3>4, <4>1, <4>2, <4>5 DEF Bound
      <4>6. QED
        BY <4>3, <4>4, <4>5
    <3>5. QED
      BY <2>2, <3>2, <3>3, <3>4
  <2>6. Bound(i) \in Nat /\ Bound(i)' \in Nat
    <3>1. Bound(i) \in Nat
      BY BoundIsBounded, RefreshNumbers
    <3>2. Bound(i)' \in Nat
      BY NextBoundIsBounded, RefreshNumbers
    <3>3. QED
      BY <3>1, <3>2
  <2>7. calm[i] <= Bound(i) \/ (row.cached /\ row.age < StaleAfter + Bound(i))
    <3>1. CASE calm[i] = 0
      BY <2>6, <3>1
    <3>2. CASE calm[i] >= 1
      BY <3>2 DEF RecoverInv, Within
    <3>3. QED
      BY <2>2, <3>1, <3>2
  <2>8. CASE calm[i] <= Bound(i)
    BY <2>1, <2>2, <2>5, <2>6, <2>8 DEF Within, Up
  <2>9. CASE row.cached /\ row.age < StaleAfter + Bound(i)
    <3>1. row.age \in Nat
      BY RefreshTypes
    <3>2. row'.cached /\ row'.age \in Nat /\ row'.age <= row.age + 1
      BY <1>8, <2>9, <3>1 DEF MomentPasses, Older, TypeOK
    <3>3. row'.age < StaleAfter + Bound(i)'
      BY <2>5, <2>6, <2>9, <3>1, <3>2
    <3>4. QED
      BY <2>1, <3>2, <3>3 DEF Within, Up
  <2>10. QED
    BY <2>7, <2>8, <2>9
<1>9. CASE UNCHANGED vars
  BY <1>9 DEF vars, worldVars, watchVars, RecoverInv, Within, Bound, Waiting, Owes, Up,
     B!Allows, B!IsOpen, B!HasCooled
<1>10. QED
  BY <1>1, <1>2, <1>3, <1>4, <1>5, <1>6, <1>7, <1>8, <1>9 DEF Next

\* A cooldown and the slack after GitHub and Postgres are back, the calendar is
\* there and its age is bounded, if one instance ran on (runOnce: breaker first,
\* then the age of the row; openedAt and fetched_at stamped within the tick).
THEOREM RecoversInTimeHolds == Spec => []RecoversInTime
<1>1. Init => RecoverInv
  BY DEF Init, RecoverInv
<1>2. TypeOK /\ RecoverInv => RecoversInTime
  <2> SUFFICES ASSUME TypeOK, RecoverInv, NEW i \in Instance, calm[i] = CalmCap
               PROVE  row.cached /\ row.age < StaleAfter + BreakerCooldown + Slack
    BY DEF RecoversInTime
  <2>1. Bound(i) \in 0..(BreakerCooldown + Slack)
    BY BoundIsBounded
  <2>2. calm[i] >= 1 /\ ~(calm[i] <= Bound(i))
    BY <2>1, RefreshNumbers
  <2>3. row.cached /\ row.age < StaleAfter + Bound(i)
    BY <2>2 DEF RecoverInv, Within
  <2>4. row.age \in Nat
    BY RefreshTypes
  <2>5. QED
    BY <2>1, <2>3, <2>4, RefreshNumbers
<1>3. QED
  BY <1>1, <1>2, RecoverStep, TypeCorrect, PTL DEF Spec
=============================================================================
