------------------------------ MODULE Rollout ------------------------------
(***************************************************************************)
(* How a build replaces another under traffic: the steps of                *)
(* tools/rollout.sh, what a container does between SIGTERM and its end     *)
(* (serve in api/cmd/api/main.go, register in web/instrumentation.ts), and *)
(* the proxy in front, which learns from /readyz and /healthz where it may *)
(* still send a request.                                                   *)
(*                                                                         *)
(* Time is in seconds.  One request at a time is followed; it stands for   *)
(* any of those in flight, since what a drain waits for is the longest.    *)
(***************************************************************************)
EXTENDS Integers, FiniteSets

CONSTANTS
    Delay,            \* SHUTDOWN_DELAY
    Grace,            \* SHUTDOWN_GRACE
    StopGrace,        \* [Container -> stop_grace_period]
    RequestTimeout,
    Bookkeeping,      \* bookkeepingTimeout, which is detached from RequestTimeout
    CheckLag,         \* the proxy's health check: one interval and one timeout
    Tags,             \* the builds there are
    MaxDeploys,       \* bound: deploys watched
    MaxFaults         \* bound: containers that do not come up, deploys cut off

Api == {"api", "api2"}
Web == {"web", "web2"}
Container == Api \cup Web

\* The first two lines are what config.Load refuses to start without; the
\* others hold of its defaults, and the properties need them.
ASSUME RolloutAssumption ==
    /\ RequestTimeout < Grace
    /\ \A c \in Api : Delay + Grace <= StopGrace[c]
    /\ RequestTimeout + Bookkeeping <= Grace
    /\ \A c \in Api : Delay + Grace + Bookkeeping < StopGrace[c]
    /\ \A c \in Web : Delay < StopGrace[c]
    /\ CheckLag < Delay
    /\ {Delay, Grace, RequestTimeout, Bookkeeping, CheckLag, MaxDeploys, MaxFaults} \subseteq Nat
    /\ StopGrace \in [Container -> Nat]

VARIABLES
    box,        \* [Container -> what it runs and how far its shutdown is]
    routed,     \* the containers the proxy sends requests to
    request,    \* the request followed
    step,       \* of the rollout under way, 0 for none
    tag,        \* the build it is about
    deploys,
    faults,
    sound       \* it began with both services up under their own names

deployVars == <<step, tag, deploys, sound>>
vars == <<box, routed, request, deployVars, faults>>

Gone == [phase |-> "gone", build |-> 0, left |-> 0, kill |-> 0]
NoRequest == [at |-> "nowhere", age |-> 0, left |-> 0]

Init ==
    /\ \E t \in Tags :
          /\ box = [c \in Container |-> IF c \in {"api", "web"}
                                        THEN [phase |-> "ready", build |-> t, left |-> 0, kill |-> 0]
                                        ELSE Gone]
          /\ tag = t
    /\ routed = {"api", "web"} /\ request = NoRequest
    /\ step = 0 /\ deploys = 0 /\ faults = 0 /\ sound = TRUE

Fault == faults < MaxFaults /\ faults' = faults + 1

\* After SIGTERM; SIGKILL follows when nothing is left of stop_grace_period.
Stopping(c) == box[c].phase \in {"leaving", "draining", "stopping"}

\* The socket is open; only a ready one still says so to the health check.
Listens(c) == box[c].phase \in {"ready", "leaving"}
-----------------------------------------------------------------------------
(***************************************************************************)
(* A container                                                             *)
(***************************************************************************)

\* Told to stop: the health check is answered 503 from here on, nothing else changes.
Told(c) == [box[c] EXCEPT !.phase = "leaving", !.left = Delay, !.kill = StopGrace[c]]

\* A process that does not serve yet ends at once.
Sigterm(c) == IF box[c].phase = "ready" THEN Told(c) ELSE Gone

\* web: the pause is over and the process exits, whatever it is doing.
Exit(c) ==
    /\ c \in Web /\ box[c].phase = "leaving" /\ box[c].left = 0
    /\ box' = [box EXCEPT ![c].phase = "gone"]
    /\ UNCHANGED <<routed, request, deployVars, faults>>

\* api: the pause is over and the listener closes.
ListenerCloses(c) ==
    /\ c \in Api /\ box[c].phase = "leaving" /\ box[c].left = 0
    /\ box' = [box EXCEPT ![c].phase = "draining", ![c].left = Grace]
    /\ UNCHANGED <<routed, request, deployVars, faults>>

\* Shutdown returns when nothing is in flight, or the grace is over.
DrainOverAtOnce(c) == TRUE
DrainOver(c) == request.at # c \/ box[c].left = 0

\* The loops are stopped, the limiters, and then the pool is closed.  A Stop
\* waits for a loop that is writing down what it did.
Drained(c) ==
    /\ box[c].phase = "draining" /\ DrainOver(c)
    /\ \E wait \in {0, Bookkeeping} :
          box' = [box EXCEPT ![c].phase = "stopping", ![c].left = wait]
    /\ UNCHANGED <<routed, request, deployVars, faults>>

PoolClosed(c) ==
    /\ box[c].phase = "stopping" /\ box[c].left = 0
    /\ box' = [box EXCEPT ![c].phase = "gone"]
    /\ UNCHANGED <<routed, request, deployVars, faults>>

\* Docker's health check succeeds, which is what --wait waits for and what
\* makes the proxy's provider add the container.
Up(c) ==
    /\ box[c].phase = "starting"
    /\ box' = [box EXCEPT ![c].phase = "ready"]
    /\ routed' = routed \cup {c}
    /\ UNCHANGED <<request, deployVars, faults>>
-----------------------------------------------------------------------------
(***************************************************************************)
(* The proxy and its requests                                              *)
(***************************************************************************)

\* The health check fails, or the container is no longer there.
Dropped(c) ==
    /\ c \in routed /\ box[c].phase # "ready"
    /\ routed' = routed \ {c}
    /\ UNCHANGED <<box, request, deployVars, faults>>

\* How long it takes: next to nothing, or the deadline and what the contact
\* handler writes down after it.
Arrives(c) ==
    /\ request = NoRequest /\ c \in routed /\ Listens(c)
    /\ \E length \in {1, RequestTimeout + Bookkeeping} :
          request' = [at |-> c, age |-> 0, left |-> length]
    /\ UNCHANGED <<box, routed, deployVars, faults>>

\* Answered, or, if the process is no longer there, reported lost.
Over ==
    /\ request # NoRequest
    /\ request.left = 0 \/ box[request.at].phase = "gone"
    /\ request' = NoRequest
    /\ UNCHANGED <<box, routed, deployVars, faults>>
-----------------------------------------------------------------------------
(***************************************************************************)
(* tools/rollout.sh                                                        *)
(***************************************************************************)
StepsSwapFirst == <<{"api2"}, {"api", "web"}, {"web2"}, {}>>
Steps == <<{"api2"}, {"web2"}, {"api", "web"}, {}>>
Twins == {"api2", "web2"}

Begin ==
    /\ step = 0 /\ deploys < MaxDeploys
    /\ \E t \in Tags : tag' = t
    /\ step' = 1 /\ deploys' = deploys + 1
    /\ sound' = (\A c \in {"api", "web"} : box[c].phase = "ready")
    /\ UNCHANGED <<box, routed, request, faults>>

\* A container of another build is stopped before the new one is created.
Recreate(c) ==
    /\ step \in 1..4 /\ c \in Steps[step]
    /\ box[c].phase \in {"starting", "ready"} /\ box[c].build # tag
    /\ box' = [box EXCEPT ![c] = Sigterm(c)]
    /\ UNCHANGED <<routed, request, deployVars, faults>>

Create(c) ==
    /\ step \in 1..4 /\ c \in Steps[step]
    /\ box[c].phase = "gone" /\ request.at # c /\ c \notin routed
    /\ box' = [box EXCEPT ![c] = [Gone EXCEPT !.phase = "starting", !.build = tag]]
    /\ UNCHANGED <<routed, request, deployVars, faults>>

\* --wait: the next step begins when every container named is healthy.
StepDone ==
    /\ step \in 1..3
    /\ \A c \in Steps[step] : box[c].phase = "ready" /\ box[c].build = tag
    /\ step' = step + 1
    /\ UNCHANGED <<box, routed, request, tag, deploys, sound, faults>>

\* rm -s -f api2 web2.
Remove(c) ==
    /\ step = 4 /\ c \in Twins /\ box[c].phase \in {"starting", "ready"}
    /\ box' = [box EXCEPT ![c] = Sigterm(c)]
    /\ UNCHANGED <<routed, request, deployVars, faults>>

Complete ==
    /\ step = 4 /\ \A c \in Twins : box[c].phase = "gone"
    /\ step' = 0
    /\ UNCHANGED <<box, routed, request, tag, deploys, sound, faults>>

\* A container stays unhealthy or the chain is cut off: what runs keeps running,
\* and a stop under way is finished by Docker.
Fails ==
    /\ Fault
    /\ step # 0
    /\ step' = 0
    /\ UNCHANGED <<box, routed, request, tag, deploys, sound>>
-----------------------------------------------------------------------------
(***************************************************************************)
(* Time: what is due happens before the next second                        *)
(***************************************************************************)
Less(n) == IF n > 0 THEN n - 1 ELSE 0

Tick ==
    /\ \A c \in Container :
          /\ box[c].phase = "draining" => ~DrainOver(c)
          /\ box[c].phase \in {"leaving", "stopping"} => box[c].left > 0
          /\ c \in routed => CASE box[c].phase = "ready"   -> TRUE
                               [] box[c].phase = "leaving" -> Delay - box[c].left < CheckLag
                               [] OTHER                    -> FALSE
    /\ request.at = "nowhere" \/ request.left > 0
    /\ box' = [c \in Container |-> [box[c] EXCEPT !.left = Less(@), !.kill = Less(@)]]
    /\ request' = IF request = NoRequest THEN request
                  ELSE [request EXCEPT !.age = @ + 1, !.left = @ - 1]
    /\ UNCHANGED <<routed, deployVars, faults>>

Next ==
    \/ \E c \in Container :
          \/ Exit(c) \/ ListenerCloses(c) \/ Drained(c) \/ PoolClosed(c) \/ Up(c)
          \/ Dropped(c) \/ Arrives(c)
          \/ Recreate(c) \/ Create(c) \/ Remove(c)
    \/ Over \/ Begin \/ StepDone \/ Complete \/ Fails
    \/ Tick

Spec == Init /\ [][Next]_vars
-----------------------------------------------------------------------------
(***************************************************************************)
(* Properties                                                              *)
(***************************************************************************)

\* The proxy never holds a rule without a backend, nor a backend that has
\* stopped listening, in a rollout that began with both services up, whichever
\* step of it fails (rollout.sh:2-3, config.go:110-118).
AlwaysServed ==
    /\ \A c \in routed : Listens(c)
    /\ sound => \A service \in {Api, Web} : \E c \in service : c \in routed

\* The api is not cut: no request meets a closed pool and no process is killed
\* on the way (main.go:236-254, config.go:495-513).  web is: what it has
\* accepted ends with the pause, but not sooner than the proxy can have known
\* (instrumentation.ts:26-33).
NothingIsCut ==
    /\ \A c \in Api : box[c].phase \in {"stopping", "gone"} => request.at # c
    /\ \A c \in Container : Stopping(c) => box[c].kill > 0
    /\ request.at \in Web /\ box[request.at].phase = "gone" => request.age >= Delay - CheckLag
=============================================================================
