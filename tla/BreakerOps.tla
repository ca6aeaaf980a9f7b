----------------------------- MODULE BreakerOps -----------------------------
(***************************************************************************)
(* The circuit breaker of internal/resilience as operators on a value, so  *)
(* that every loop which owns one (the contact dispatcher, the calendar    *)
(* refresher, the uptime backfiller) composes the same definitions.        *)
(*                                                                         *)
(* A breaker is [failures, since]: the consecutive failed runs and the     *)
(* time since openedAt, counted in steps of its owner's clock from the     *)
(* moment of the stamp: the end of the failed run, or the Allow that let a *)
(* probe through.  Both saturate, at Threshold and at Cooldown, because    *)
(* the code only ever asks whether they have reached that value.           *)
(***************************************************************************)
EXTENDS Naturals

CONSTANTS
    Threshold,  \* BreakerPolicy.Threshold
    Cooldown    \* BreakerPolicy.Cooldown, in steps of the owner's clock

BreakerState == [failures : 0..Threshold, since : 0..Cooldown]

\* A zero openedAt is infinitely long ago.
ClosedBreaker == [failures |-> 0, since |-> Cooldown]

IsOpen(b) == b.failures >= Threshold

HasCooled(b) == b.since >= Cooldown

\* Mutant: no half-open moment.
AllowsClosedOnly(b) == ~IsOpen(b)

Allows(b) == ~IsOpen(b) \/ HasCooled(b)

\* Mutant: the probe does not restart the cooldown.
ProbedForFree(b) == b

\* What an Allow that answered yes leaves behind: the half-open probe restarts
\* the cooldown, a closed breaker is untouched.
Probed(b) == IF IsOpen(b) THEN [b EXCEPT !.since = 0] ELSE b

AfterSuccess(b) == ClosedBreaker

AfterFailure(b) ==
    IF b.failures + 1 >= Threshold
    THEN [failures |-> Threshold, since |-> 0]
    ELSE [b EXCEPT !.failures = @ + 1]

\* One step of the owner's clock.
BreakerAged(b) == IF b.since < Cooldown THEN [b EXCEPT !.since = @ + 1] ELSE b
=============================================================================
