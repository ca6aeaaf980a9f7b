------------------------------- MODULE Budget -------------------------------
(***************************************************************************)
(* The hourly ceiling of internal/contact/budget.go, at the grain the      *)
(* module Contact leaves out: continuous refill by elapsed time, and the   *)
(* instant that each caller reads from the clock before it takes the lock. *)
(* A handler reads it when the request arrives and calls take after the    *)
(* floor and the INSERT; the dispatcher reads it just before.              *)
(*                                                                         *)
(* Tokens are counted in units, Unit of them to a token, so that the float *)
(* refill is exact.                                                        *)
(***************************************************************************)
EXTENDS Integers

CONSTANTS
    Caller,     \* goroutines: requests and the dispatcher's loop
    PerHour,    \* sendBudgetPerHour
    Unit,       \* units in a token
    Rate,       \* units a tick gives back
    Hour,       \* ticks in an hour
    MaxStale,   \* REQUEST_TIMEOUT, in ticks: how old a reading can get
    Horizon     \* bound: the clock stops here

Full == PerHour * Unit

ASSUME BudgetAssumption ==
    /\ PerHour \in Nat \ {0}
    /\ Unit \in Nat \ {0}
    /\ Rate \in Nat
    /\ Hour \in Nat
    /\ Rate * Hour = Full
    /\ MaxStale \in Nat
    /\ Horizon \in Nat

VARIABLES
    clock,    \* ticks since NewBudget
    tokens,   \* Budget.tokens, in units
    last,     \* Budget.last
    asking,   \* callers between reading the clock and taking the lock
    now,      \* what each of them read
    granted,  \* observation: tokens handed out so far
    ledger    \* observation: granted, as it stood at the end of each tick

bucketVars == <<tokens, last>>
callerVars == <<asking, now>>
ledgerVars == <<granted, ledger>>
vars == <<clock, bucketVars, callerVars, ledgerVars>>

\* Mutant: the bucket has no size.
EarnedUncapped(n) == tokens + Rate * (n - last)

\* Tokens after the refill for a caller whose clock said n.
Earned(n) ==
    IF tokens + Rate * (n - last) < Full THEN tokens + Rate * (n - last) ELSE Full

\* Mutant: last follows every reading, as RateLimiter.take does.
LastFollows(n) == n

LastAfter(n) == IF n > last THEN n ELSE last

ReadClock(c) ==
    /\ c \notin asking
    /\ asking' = asking \cup {c}
    /\ now' = [now EXCEPT ![c] = clock]
    /\ UNCHANGED <<clock, bucketVars, ledgerVars>>

\* Mutant: the last token stays in the bucket.
SpendKeepsOne(available) ==
    IF available <= Unit
    THEN tokens' = available /\ UNCHANGED granted
    ELSE tokens' = available - Unit /\ granted' = granted + 1

Spend(available) ==
    IF available < Unit
    THEN tokens' = available /\ UNCHANGED granted
    ELSE tokens' = available - Unit /\ granted' = granted + 1

\* take: a reading older than the last one refills nothing and leaves last alone.
Take(c) ==
    /\ c \in asking
    /\ Spend(IF now[c] > last THEN Earned(now[c]) ELSE tokens)
    /\ last' = LastAfter(now[c])
    /\ asking' = asking \ {c}
    /\ now' = [now EXCEPT ![c] = 0]
    /\ UNCHANGED <<clock, ledger>>

\* A request that waited longer than MaxStale has been cut off.
Tick ==
    /\ clock < Horizon
    /\ \A c \in asking : clock - now[c] < MaxStale
    /\ clock' = clock + 1
    /\ ledger' = [ledger EXCEPT ![clock] = granted]
    /\ UNCHANGED <<bucketVars, callerVars, granted>>

Init ==
    /\ clock = 0
    /\ tokens = Full
    /\ last = 0
    /\ asking = {}
    /\ now = [c \in Caller |-> 0]
    /\ granted = 0
    /\ ledger = [t \in 0..Horizon |-> 0]

Next ==
    \/ \E c \in Caller : ReadClock(c) \/ Take(c)
    \/ Tick

Spec == Init /\ [][Next]_vars
-----------------------------------------------------------------------------
\* The bucket is never overdrawn and never over full, and its clock is never
\* ahead of the real one, whichever order the callers get the lock in.
TypeOK ==
    /\ clock \in 0..Horizon
    /\ tokens \in 0..Full
    /\ last \in 0..clock
    /\ asking \subseteq Caller
    /\ now \in [Caller -> 0..clock]
    /\ granted \in Nat
    /\ ledger \in [0..Horizon -> Nat]

\* Tokens handed out after the end of tick s.
Since(s) == granted - ledger[s]

\* What "the hourly ceiling" (policy.go) comes to: in any window, one full bucket
\* and the refill of the window's length, however late the callers' readings
\* are (a window that starts with an old reading is a little longer than it
\* looks).  A late reading never refills the same minute twice.
BurstPlusRefill ==
    \A s \in 0..(clock - 1) :
        Since(s) * Unit <= Full + Rate * (clock - s - 1 + MaxStale)

\* A caller is turned away only by a spent hour: as many tokens as the ceiling
\* allows went out in the hour before.
LastHour ==
    LET s == clock - Hour - MaxStale - 1
    IN  IF s < 0 THEN granted ELSE Since(s)

RefusalIsEarned ==
    [][\A c \in Caller :
          c \in asking /\ c \notin asking' /\ granted' = granted =>
              LastHour >= PerHour]_vars
=============================================================================
