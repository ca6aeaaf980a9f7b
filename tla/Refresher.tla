------------------------------ MODULE Refresher ------------------------------
(***************************************************************************)
(* The loop that keeps the contribution calendar                           *)
(* (internal/contributions/refresh.go): every five minutes one decision    *)
(* and at most one fetch from GitHub, behind a circuit breaker and a       *)
(* bounded retry (internal/resilience), into the one row every instance    *)
(* shares (queries/contributions.sql).                                     *)
(*                                                                         *)
(* The clock moves in moments, RefreshEvery of them from one firing of an  *)
(* instance's ticker to the next.  A run may take any number of them, but  *)
(* it is over before the ticker fires again (policy.go: a run never        *)
(* overlaps the next tick).  What a run stamps, openedAt and fetched_at,   *)
(* is therefore stamped at or after its tick, and a limit that is a whole  *)
(* number of ticks is met at the tick or at the one after it.              *)
(***************************************************************************)
EXTENDS Naturals

CONSTANTS
    Instance,          \* processes of the API
    RefreshEvery,      \* refreshEvery, in moments
    StaleAfter,        \* staleAfter, in moments
    MaxAttempts,       \* maxAttempts of retryPolicy
    BreakerThreshold,  \* breakerThreshold
    BreakerCooldown    \* breakerCooldown, in moments

ASSUME RefreshAssumption ==
    /\ RefreshEvery \in Nat \ {0}
    /\ StaleAfter \in Nat \ {0}
    /\ MaxAttempts \in Nat \ {0}
    /\ BreakerThreshold \in Nat \ {0}
    /\ BreakerCooldown \in Nat \ {0}

VARIABLES
    row,       \* contributions_cache: whether there is a row, and its age
    github,    \* whether GitHub answers
    database,  \* whether Postgres answers
    timer,     \* moments since the ticker of each instance fired
    due,       \* instances whose ticker has fired
    run,       \* the run of each instance: where it stands, attempts that failed
    breaker,   \* Refresher.breaker of each instance
    quiet,     \* observation: moments since the last run that asked GitHub began
    calm       \* observation: moments both services answer and it runs unstopped

worldVars == <<github, database>>
watchVars == <<quiet, calm>>
vars == <<row, worldVars, timer, due, run, breaker, watchVars>>

B == INSTANCE BreakerOps WITH Threshold <- BreakerThreshold,
                              Cooldown <- BreakerCooldown

\* The lateness of a stamp and the length of a run, at most.
Slack == 2 * (RefreshEvery - 1)

\* Beyond this no comparison tells ages apart.
AgeCap == StaleAfter + BreakerCooldown + Slack
CalmCap == BreakerCooldown + Slack + 1

NoRun == [pc |-> "idle", failed |-> 0]

Up(service) == service = "up"

RunEnds(i) == run' = [run EXCEPT ![i] = NoRun]

\* The ticker fires into an open breaker: nothing happens.
Skip(i) ==
    /\ i \in due
    /\ run[i] = NoRun
    /\ ~B!Allows(breaker[i])
    /\ due' = due \ {i}
    /\ UNCHANGED <<row, worldVars, timer, run, breaker, watchVars>>

IsFresh == row.cached /\ row.age < StaleAfter

\* Breaker first, then the age of the row.  An unreadable cache and a fresh one
\* both end the run here, and neither is reported to the breaker.
Decide(i) ==
    /\ i \in due
    /\ run[i] = NoRun
    /\ B!Allows(breaker[i])
    /\ due' = due \ {i}
    /\ breaker' = [breaker EXCEPT ![i] = B!Probed(@)]
    /\ IF ~Up(database) \/ IsFresh
       THEN UNCHANGED <<run, quiet>>
       ELSE /\ run' = [run EXCEPT ![i].pc = "fetching"]
            /\ quiet' = [quiet EXCEPT ![i] = 0]
    /\ UNCHANGED <<row, worldVars, timer, calm>>

Fetching(i) == run[i].pc = "fetching"

FetchAnswered(i) ==
    /\ Fetching(i)
    /\ Up(github)
    /\ run' = [run EXCEPT ![i].pc = "writing"]
    /\ UNCHANGED <<row, worldVars, timer, due, breaker, watchVars>>

AttemptLeft(failed) == failed + 1 < MaxAttempts

\* Retry: another attempt is left.  All of them fit into runTimeout.
FetchRetried(i) ==
    /\ Fetching(i)
    /\ ~Up(github)
    /\ AttemptLeft(run[i].failed)
    /\ run' = [run EXCEPT ![i].failed = @ + 1]
    /\ UNCHANGED <<row, worldVars, timer, due, breaker, watchVars>>

\* The run gave up; openedAt is the end of the run, not its tick.
FetchFailed(i) ==
    /\ Fetching(i)
    /\ ~Up(github)
    /\ ~AttemptLeft(run[i].failed)
    /\ breaker' = [breaker EXCEPT ![i] = B!AfterFailure(@)]
    /\ RunEnds(i)
    /\ UNCHANGED <<row, worldVars, timer, due, watchVars>>

Stored == [cached |-> TRUE, age |-> 0]

Store(i) ==
    /\ run[i].pc = "writing"
    /\ Up(database)
    /\ row' = Stored
    /\ breaker' = [breaker EXCEPT ![i] = B!AfterSuccess(@)]
    /\ RunEnds(i)
    /\ UNCHANGED <<worldVars, timer, due, watchVars>>

\* The breaker hears nothing of a calendar that was fetched and not stored; a
\* statement that reports an error may have committed all the same.
StoreFailed(i) ==
    /\ run[i].pc = "writing"
    /\ ~Up(database)
    /\ row' \in {row, Stored}
    /\ RunEnds(i)
    /\ UNCHANGED <<worldVars, timer, due, breaker, watchVars>>

\* A process stops, or is killed, and is started again: it runs at once, and
\* its ticker begins anew.
Restart(i) ==
    /\ RunEnds(i)
    /\ breaker' = [breaker EXCEPT ![i] = B!ClosedBreaker]
    /\ due' = due \cup {i}
    /\ timer' = [timer EXCEPT ![i] = 0]
    /\ calm' = [calm EXCEPT ![i] = 0]
    /\ UNCHANGED <<row, worldVars, quiet>>

Flipped(service) == IF Up(service) THEN "down" ELSE "up"

\* Either service goes away or comes back, at any moment.
ServiceChanges ==
    /\ \/ github' = Flipped(github) /\ UNCHANGED database
       \/ database' = Flipped(database) /\ UNCHANGED github
    /\ calm' = [i \in Instance |-> 0]
    /\ UNCHANGED <<row, timer, due, run, breaker, quiet>>

Older(n, cap) == IF n < cap THEN n + 1 ELSE cap

\* A moment passes.  A ticker that is about to fire finds its run over.
MomentPasses ==
    /\ \A i \in Instance :
          timer[i] = RefreshEvery - 1 => i \notin due /\ run[i] = NoRun
    /\ timer' = [i \in Instance |-> (timer[i] + 1) % RefreshEvery]
    /\ due' = due \cup {i \in Instance : timer[i] = RefreshEvery - 1}
    /\ row' = IF row.cached THEN [row EXCEPT !.age = Older(@, AgeCap)] ELSE row
    /\ breaker' = [i \in Instance |-> B!BreakerAged(breaker[i])]
    /\ quiet' = [i \in Instance |-> Older(quiet[i], BreakerCooldown)]
    /\ calm' = [i \in Instance |-> IF Up(github) /\ Up(database)
                                   THEN Older(calm[i], CalmCap) ELSE 0]
    /\ UNCHANGED <<worldVars, run>>

Init ==
    /\ row = [cached |-> FALSE, age |-> 0]
    /\ github \in {"up", "down"}
    /\ database \in {"up", "down"}
    /\ timer = [i \in Instance |-> 0]
    /\ due = Instance
    /\ run = [i \in Instance |-> NoRun]
    /\ breaker = [i \in Instance |-> B!ClosedBreaker]
    /\ quiet = [i \in Instance |-> BreakerCooldown]
    /\ calm = [i \in Instance |-> 0]

Next ==
    \/ \E i \in Instance :
          \/ Skip(i) \/ Decide(i)
          \/ FetchAnswered(i) \/ FetchRetried(i) \/ FetchFailed(i)
          \/ Store(i) \/ StoreFailed(i)
          \/ Restart(i)
    \/ ServiceChanges
    \/ MomentPasses

Spec == Init /\ [][Next]_vars
-----------------------------------------------------------------------------
\* Ages, counters and breakers stay in the ranges the code tells apart.
TypeOK ==
    /\ row \in [cached : BOOLEAN, age : 0..AgeCap]
    /\ {github, database} \subseteq {"up", "down"}
    /\ timer \in [Instance -> 0..(RefreshEvery - 1)]
    /\ due \subseteq Instance
    /\ run \in [Instance -> [pc : {"idle", "fetching", "writing"},
                             failed : 0..(MaxAttempts - 1)]]
    /\ breaker \in [Instance -> B!BreakerState]
    /\ quiet \in [Instance -> 0..BreakerCooldown]
    /\ calm \in [Instance -> 0..CalmCap]

\* An open breaker lets one run through per cooldown, also when the probe ends
\* in a way that tells the breaker nothing: the row was fresh, the database was
\* away, the calendar could not be stored.
ProbesAreSpaced ==
    [][\A i \in Instance :
          run[i].pc = "idle" /\ run'[i].pc = "fetching" /\ B!IsOpen(breaker[i]) =>
              quiet[i] >= BreakerCooldown]_vars

\* Once GitHub and Postgres have both answered for a cooldown and the slack
\* while one instance ran on, the calendar is there and its age is bounded,
\* whatever state the outage left the breaker in, whatever the other instances
\* do, and however late after its tick a run stamped its end or its row.
RecoversInTime ==
    \A i \in Instance : calm[i] = CalmCap =>
        row.cached /\ row.age < StaleAfter + BreakerCooldown + Slack
=============================================================================
