---------------------------- MODULE RolloutProofs ----------------------------
(***************************************************************************)
(* Why a deploy serves throughout and cuts nothing of the api, for any     *)
(* timings that satisfy RolloutAssumption: the steps leave one container   *)
(* of each service alone, the proxy has let go of a container before it    *)
(* closes, and what a drain waits for ends before the drain does.          *)
(***************************************************************************)
EXTENDS Rollout, TLAPS

Phase == {"gone", "starting", "ready", "leaving", "draining", "stopping"}

TypeOK ==
    /\ box \in [Container -> [phase : Phase, build : Tags \cup {0}, left : Nat, kill : Nat]]
    /\ routed \subseteq Container
    /\ request \in {NoRequest} \cup [at : Container, age : Nat, left : Nat]
    /\ step \in 0..4
    /\ tag \in Tags
    /\ sound \in BOOLEAN

\* What the proxy holds is ready or has not been leaving for longer than a
\* health check takes; what is ready it holds.  web has no drain.
ProxyInv ==
    /\ \A c \in routed : \/ box[c].phase = "ready"
                         \/ box[c].phase = "leaving" /\ Delay - box[c].left <= CheckLag
    /\ \A c \in Container : box[c].phase = "ready" => c \in routed
    /\ \A c \in Web : box[c].phase \notin {"draining", "stopping"}

\* What is left of stop_grace_period is more than what is left to do.
ToDo(c) ==
    CASE box[c].phase = "leaving"  -> box[c].left + (IF c \in Api THEN Grace + Bookkeeping ELSE 0)
      [] box[c].phase = "draining" -> box[c].left + Bookkeeping
      [] OTHER                     -> box[c].left

GraceInv == \A c \in Container : Stopping(c) => box[c].kill > ToDo(c)

\* What is left of a request is less than what is left of the pause and the
\* drain; web's has been there for as long as the pause without the proxy's lag.
RequestInv ==
    /\ request # NoRequest => request.left <= Grace
    /\ \A c \in Container : request.at = c =>
          /\ box[c].phase # "starting"
          /\ c \in Api => /\ box[c].phase \notin {"stopping", "gone"}
                          /\ box[c].phase = "leaving" => request.left < box[c].left + Grace
                          /\ box[c].phase = "draining" => request.left < box[c].left
          /\ c \in Web /\ box[c].phase = "leaving" => request.age + box[c].left >= Delay - CheckLag
          /\ c \in Web /\ box[c].phase = "gone" => request.age >= Delay - CheckLag

\* One container of each service is out of the way of every step.
Ready(c) == box[c].phase = "ready"
Named == Ready("api") /\ Ready("web")
Doubled == Ready("api2") /\ Ready("web2")

SoundInv ==
    sound => /\ step \in {1, 2, 4} => Named
             /\ step = 2 => Ready("api2")
             /\ step = 3 => Doubled
             /\ step = 0 => Named \/ Doubled

RolloutInv == TypeOK /\ ProxyInv /\ GraceInv /\ RequestInv /\ SoundInv
-----------------------------------------------------------------------------
\* What the assumption says of the timings, number by number.
LEMMA Numbers ==
    /\ Delay \in Nat /\ Grace \in Nat /\ RequestTimeout \in Nat /\ Bookkeeping \in Nat
    /\ CheckLag \in Nat /\ CheckLag < Delay /\ 1 <= Grace
    /\ RequestTimeout + Bookkeeping \in Nat /\ RequestTimeout + Bookkeeping <= Grace
    /\ \A c \in Container : StopGrace[c] \in Nat
    /\ \A c \in Api : Delay + Grace + Bookkeeping < StopGrace[c]
    /\ \A c \in Web : Delay < StopGrace[c]
<1>1. /\ Delay \in Nat /\ Grace \in Nat /\ RequestTimeout \in Nat /\ Bookkeeping \in Nat
      /\ CheckLag \in Nat
  BY RolloutAssumption
<1>2. QED
  BY <1>1, RolloutAssumption

\* The api's containers and web's are different ones, and they are all there are.
LEMMA TwoServices ==
    /\ Container = {"api", "api2", "web", "web2"}
    /\ Api \subseteq Container /\ Web \subseteq Container
    /\ \A c \in Api : c \notin Web
    /\ Container = Api \cup Web
  BY DEF Container, Api, Web

\* There is a request where one stands.
LEMMA RequestTypes ==
    ASSUME TypeOK
    PROVE  /\ request.left \in Nat /\ request.age \in Nat
           /\ \A c \in Container : request.at = c => request # NoRequest
<1>1. CASE request = NoRequest
  BY <1>1, TwoServices DEF NoRequest
<1>2. CASE request \in [at : Container, age : Nat, left : Nat]
  <2>1. request.at \in Container
    BY <1>2
  <2>2. request # NoRequest
    BY <2>1, TwoServices DEF NoRequest
  <2>3. QED
    BY <1>2, <2>2
<1>3. QED
  BY <1>1, <1>2 DEF TypeOK

\* A deploy begins from one container of each service.
LEMMA RolloutInit == Init => RolloutInv
<1> SUFFICES ASSUME Init PROVE RolloutInv
  OBVIOUS
<1>1. PICK t \in Tags :
        /\ box = [c \in Container |-> IF c \in {"api", "web"}
                                      THEN [phase |-> "ready", build |-> t, left |-> 0, kill |-> 0]
                                      ELSE Gone]
        /\ tag = t
  BY DEF Init
<1>2. /\ routed = {"api", "web"} /\ request = NoRequest
      /\ step = 0 /\ sound = TRUE
  BY DEF Init
<1>3. TypeOK
  BY <1>1, <1>2, TwoServices DEF TypeOK, Phase, Gone
<1>4. \A c \in Container : IF c \in {"api", "web"} THEN box[c].phase = "ready"
                                                   ELSE box[c].phase = "gone"
  BY <1>1 DEF Gone
<1>5. ProxyInv
  BY <1>2, <1>4, TwoServices DEF ProxyInv
<1>6. GraceInv
  BY <1>4 DEF GraceInv, Stopping
<1>7. RequestInv
  BY <1>2, TwoServices DEF RequestInv, NoRequest
<1>8. SoundInv
  BY <1>2, <1>4, TwoServices DEF SoundInv, Named, Ready
<1>9. QED
  BY <1>3, <1>5, <1>6, <1>7, <1>8 DEF RolloutInv

\* Docker tells a container to stop (Recreate, Remove): it has its whole pause
\* before it, or nobody has been told of it.
LEMMA ToldToStop ==
    ASSUME RolloutInv, NEW c \in Container, box[c].phase \in {"starting", "ready"},
           box' = [box EXCEPT ![c] = Sigterm(c)], UNCHANGED <<routed, request>>
    PROVE  /\ box' \in [Container -> [phase : Phase, build : Tags \cup {0}, left : Nat, kill : Nat]]
           /\ ProxyInv' /\ GraceInv' /\ RequestInv'
           /\ \A d \in Container : d # c => box'[d] = box[d]
<1> USE Numbers, TwoServices DEF RolloutInv
<1>1. /\ box \in [Container -> [phase : Phase, build : Tags \cup {0}, left : Nat, kill : Nat]]
      /\ box'[c] = Sigterm(c) /\ routed' = routed /\ request' = request
      /\ \A d \in Container : d # c => box'[d] = box[d]
  BY DEF TypeOK
<1>2. CASE box[c].phase = "ready"
  <2>1. /\ box'[c].phase = "leaving" /\ box'[c].left = Delay /\ box'[c].kill = StopGrace[c]
        /\ box'[c].build = box[c].build
        /\ box'[c] \in [phase : Phase, build : Tags \cup {0}, left : Nat, kill : Nat]
    <3>1. box[c] \in [phase : Phase, build : Tags \cup {0}, left : Nat, kill : Nat]
      BY <1>1
    <3>2. box'[c] = [phase |-> "leaving", build |-> box[c].build,
                     left |-> Delay, kill |-> StopGrace[c]]
      BY <3>1, <1>1, <1>2 DEF Sigterm, Told
    <3>3. "leaving" \in Phase /\ Delay \in Nat /\ StopGrace[c] \in Nat
      BY DEF Phase
    <3>4. box[c].build \in Tags \cup {0}
      BY <3>1
    <3>5. QED
      BY <3>2, <3>3, <3>4
  <2>2. ProxyInv'
    BY <1>1, <1>2, <2>1 DEF ProxyInv
  <2>3. GraceInv'
    BY <1>1, <2>1 DEF GraceInv, Stopping, ToDo
  <2>4. RequestInv'
    <3>1. request.at = c => request.left < Delay + Grace
      <4>1. request.at = c => request.left <= Grace
        BY RequestTypes DEF RequestInv
      <4>2. QED
        BY <4>1, RequestTypes
    <3>2. QED
      BY <1>1, <1>2, <2>1, <3>1, RequestTypes DEF RequestInv
  <2>5. QED
    BY <1>1, <2>1, <2>2, <2>3, <2>4
<1>3. CASE box[c].phase = "starting"
  <2>1. box'[c] = Gone /\ box'[c].phase = "gone"
        /\ box'[c] \in [phase : Phase, build : Tags \cup {0}, left : Nat, kill : Nat]
    BY <1>1, <1>3 DEF Sigterm, Gone, Phase
  <2>2. ProxyInv'
    BY <1>1, <1>3, <2>1 DEF ProxyInv
  <2>3. GraceInv'
    BY <1>1, <2>1 DEF GraceInv, Stopping, ToDo
  <2>4. RequestInv'
    BY <1>1, <1>3, <2>1 DEF RequestInv, TypeOK, NoRequest
  <2>5. QED
    BY <1>1, <2>1, <2>2, <2>3, <2>4
<1>4. QED
  BY <1>2, <1>3

\* What a container does after that, alone.
LEMMA ContainerSteps ==
    ASSUME RolloutInv, NEW c \in Container,
           Exit(c) \/ ListenerCloses(c) \/ Drained(c) \/ PoolClosed(c)
    PROVE  RolloutInv'
<1> USE Numbers, TwoServices DEF RolloutInv
<1>1. /\ box \in [Container -> [phase : Phase, build : Tags \cup {0}, left : Nat, kill : Nat]]
      /\ routed' = routed /\ request' = request /\ step' = step /\ tag' = tag /\ sound' = sound
      /\ box[c].phase \in {"leaving", "draining", "stopping"}
  BY DEF TypeOK, Exit, ListenerCloses, Drained, PoolClosed, deployVars
<1>2. PICK p \in {"gone", "draining", "stopping"}, l \in Nat :
        box' = [box EXCEPT ![c].phase = p, ![c].left = l]
  <2>1. CASE Exit(c) \/ PoolClosed(c)
    <3>1. box' = [box EXCEPT ![c].phase = "gone", ![c].left = box[c].left]
      BY <2>1, <1>1 DEF Exit, PoolClosed
    <3>2. QED
      BY <3>1, <1>1
  <2>2. CASE ListenerCloses(c)
    BY <2>2 DEF ListenerCloses
  <2>3. CASE Drained(c)
    BY <2>3 DEF Drained
  <2>4. QED
    BY <2>1, <2>2, <2>3
<1>3. /\ \A d \in Container : d # c => box'[d] = box[d]
      /\ box'[c].phase = p /\ box'[c].left = l /\ box'[c].kill = box[c].kill
      /\ box' \in [Container -> [phase : Phase, build : Tags \cup {0}, left : Nat, kill : Nat]]
  BY <1>1, <1>2 DEF Phase
<1>4. TypeOK'
  BY <1>1, <1>3 DEF TypeOK
<1>5. SoundInv'
  BY <1>1, <1>3 DEF SoundInv, Named, Doubled, Ready
<1>6. c \notin routed /\ box[c].left \in Nat /\ request.left \in Nat /\ request.age \in Nat
  <2>1. box[c].phase = "leaving" => box[c].left = 0
    BY DEF Exit, ListenerCloses, Drained, PoolClosed
  <2>2. box[c].left \in Nat
    BY <1>1
  <2>3. c \notin routed
    BY <1>1, <2>1, <2>2 DEF ProxyInv
  <2>4. QED
    BY <2>2, <2>3, RequestTypes
<1>7. ASSUME p = "gone" \/ c \in Api PROVE ProxyInv'
  <2>1. routed \subseteq Container
    BY DEF TypeOK
  <2>2. box'[c].phase # "ready" /\ (c \in Web => box'[c].phase = "gone")
    BY <1>3, <1>7
  <2>3. QED
    BY <1>1, <1>3, <1>6, <2>1, <2>2 DEF ProxyInv
<1>8. CASE Exit(c)
  <2>1. p = "gone"
    BY <1>8, <1>1, <1>3 DEF Exit
  <2>2. GraceInv'
    BY <1>3, <2>1 DEF GraceInv, Stopping, ToDo
  <2>3. RequestInv'
    BY <1>1, <1>3, <1>6, <1>8, <2>1 DEF RequestInv, Exit
  <2>4. QED
    BY <1>4, <1>5, <1>7, <2>1, <2>2, <2>3
<1>9. CASE ListenerCloses(c)
  <2>1. p = "draining" /\ l = Grace /\ c \in Api /\ box[c].phase = "leaving" /\ box[c].left = 0
    BY <1>9, <1>1, <1>3 DEF ListenerCloses
  <2>2. GraceInv'
    BY <1>1, <1>3, <2>1 DEF GraceInv, Stopping, ToDo
  <2>3. RequestInv'
    BY <1>1, <1>3, <1>6, <2>1 DEF RequestInv
  <2>4. QED
    BY <1>4, <1>5, <1>7, <2>1, <2>2, <2>3
<1>10. CASE Drained(c)
  <2>1. /\ p = "stopping" /\ l <= Bookkeeping /\ box[c].phase = "draining"
        /\ request.at # c \/ box[c].left = 0
    BY <1>10, <1>1, <1>3 DEF Drained, DrainOver
  <2>2. c \in Api
    BY <2>1 DEF ProxyInv
  <2>3. request.at # c
    BY <2>1, <2>2, <1>6 DEF RequestInv
  <2>4. GraceInv'
    BY <1>1, <1>3, <2>1 DEF GraceInv, Stopping, ToDo
  <2>5. RequestInv'
    BY <1>1, <1>3, <2>3 DEF RequestInv
  <2>6. QED
    BY <1>4, <1>5, <1>7, <2>2, <2>4, <2>5
<1>11. CASE PoolClosed(c)
  <2>1. p = "gone" /\ box[c].phase = "stopping"
    BY <1>11, <1>1, <1>3 DEF PoolClosed
  <2>2. GraceInv'
    BY <1>3, <2>1 DEF GraceInv, Stopping, ToDo
  <2>3. c \in Api
    BY <2>1 DEF ProxyInv
  <2>4. RequestInv'
    BY <1>1, <1>3, <2>1, <2>3 DEF RequestInv
  <2>5. QED
    BY <1>4, <1>5, <1>7, <2>1, <2>2, <2>4
<1>12. QED
  BY <1>8, <1>9, <1>10, <1>11

\* A container becomes healthy and the proxy learns of it.
LEMMA UpStep ==
    ASSUME RolloutInv, NEW c \in Container, Up(c)
    PROVE  RolloutInv'
<1> USE Numbers, TwoServices DEF RolloutInv
<1>1. /\ box \in [Container -> [phase : Phase, build : Tags \cup {0}, left : Nat, kill : Nat]]
      /\ box[c].phase = "starting" /\ box' = [box EXCEPT ![c].phase = "ready"]
      /\ routed' = routed \cup {c} /\ routed \subseteq Container
      /\ request' = request /\ step' = step /\ tag' = tag /\ sound' = sound
  BY DEF TypeOK, Up, deployVars
<1>2. /\ \A d \in Container : d # c => box'[d] = box[d]
      /\ box'[c].phase = "ready"
      /\ box' \in [Container -> [phase : Phase, build : Tags \cup {0}, left : Nat, kill : Nat]]
  BY <1>1 DEF Phase
<1>3. TypeOK'
  BY <1>1, <1>2 DEF TypeOK
<1>4. ProxyInv'
  BY <1>1, <1>2 DEF ProxyInv
<1>5. GraceInv'
  BY <1>2 DEF GraceInv, Stopping, ToDo
<1>6. RequestInv'
  BY <1>1, <1>2 DEF RequestInv
<1>7. SoundInv'
  BY <1>1, <1>2 DEF SoundInv, Named, Doubled, Ready
<1>8. QED
  BY <1>3, <1>4, <1>5, <1>6, <1>7

\* The proxy lets go of a container, a request comes and goes.
LEMMA ProxySteps ==
    ASSUME RolloutInv, (\E c \in Container : Dropped(c) \/ Arrives(c)) \/ Over
    PROVE  RolloutInv'
<1> USE Numbers, TwoServices DEF RolloutInv
<1>1. box' = box /\ step' = step /\ tag' = tag /\ sound' = sound
  BY DEF Dropped, Arrives, Over, deployVars
<1>2. GraceInv' /\ SoundInv'
  BY <1>1 DEF GraceInv, Stopping, ToDo, SoundInv, Named, Doubled, Ready
<1>3. ASSUME NEW c \in Container, Dropped(c) PROVE RolloutInv'
  <2>1. routed' = routed \ {c} /\ box[c].phase # "ready" /\ request' = request
    BY <1>3 DEF Dropped
  <2>2. TypeOK' /\ ProxyInv' /\ RequestInv'
    BY <1>1, <2>1 DEF TypeOK, ProxyInv, RequestInv
  <2>3. QED
    BY <1>2, <2>2
<1>4. ASSUME NEW c \in Container, Arrives(c) PROVE RolloutInv'
  <2>1. PICK n \in Nat : n <= Grace /\ request' = [at |-> c, age |-> 0, left |-> n]
    BY <1>4 DEF Arrives
  <2>2. c \in routed /\ routed' = routed
    BY <1>4 DEF Arrives
  <2>3. box[c].left \in Nat
    BY DEF TypeOK
  <2>4. TypeOK' /\ ProxyInv'
    BY <1>1, <2>1, <2>2 DEF TypeOK, ProxyInv
  <2>5. box[c].phase \in {"ready", "leaving"}
        /\ (box[c].phase = "leaving" => box[c].left >= Delay - CheckLag)
    BY <2>2, <2>3 DEF ProxyInv
  <2>6. RequestInv'
    BY <1>1, <2>1, <2>3, <2>5 DEF RequestInv
  <2>7. QED
    BY <1>2, <2>4, <2>6
<1>5. CASE Over
  <2>1. request' = NoRequest /\ routed' = routed
    BY <1>5 DEF Over
  <2>2. TypeOK' /\ ProxyInv' /\ RequestInv'
    BY <1>1, <2>1 DEF TypeOK, ProxyInv, RequestInv, NoRequest
  <2>3. QED
    BY <1>2, <2>2
<1>6. QED
  BY <1>3, <1>4, <1>5

\* A step of the script that is about to create or has created containers.
LEMMA ContainerCreated ==
    ASSUME RolloutInv, NEW c \in Container, Create(c)
    PROVE  RolloutInv'
<1> USE Numbers, TwoServices DEF RolloutInv
<1> DEFINE fresh == [Gone EXCEPT !.phase = "starting", !.build = tag]
<1>1. /\ box \in [Container -> [phase : Phase, build : Tags \cup {0}, left : Nat, kill : Nat]]
      /\ tag \in Tags
  BY DEF TypeOK
<1>2. /\ box[c].phase = "gone" /\ request.at # c /\ c \notin routed
      /\ routed' = routed /\ request' = request /\ step' = step /\ tag' = tag /\ sound' = sound
      /\ box' = [box EXCEPT ![c] = fresh]
  BY DEF Create, deployVars
<1>3. /\ fresh \in [phase : Phase, build : Tags \cup {0}, left : Nat, kill : Nat]
      /\ fresh.phase = "starting"
  BY <1>1 DEF Gone, Phase
<1> HIDE DEF fresh
<1>4. /\ \A d \in Container : d # c => box'[d] = box[d]
      /\ box'[c].phase = "starting"
      /\ box' \in [Container -> [phase : Phase, build : Tags \cup {0}, left : Nat, kill : Nat]]
  BY <1>1, <1>2, <1>3
<1>5. TypeOK'
  BY <1>1, <1>2, <1>4 DEF TypeOK
<1>6. ProxyInv'
  BY <1>1, <1>2, <1>4 DEF ProxyInv
<1>7. GraceInv'
  BY <1>4 DEF GraceInv, Stopping, ToDo
<1>8. RequestInv'
  BY <1>1, <1>2, <1>4 DEF RequestInv
<1>9. SoundInv'
  BY <1>1, <1>2, <1>4 DEF SoundInv, Named, Doubled, Ready
<1>10. QED
  BY <1>5, <1>6, <1>7, <1>8, <1>9

\* The containers each step of the script is about.
LEMMA StepIsAbout ==
    /\ Steps[1] = {"api2"} /\ Steps[2] = {"web2"}
    /\ Steps[3] = {"api", "web"} /\ Steps[4] = {}
  BY DEF Steps

\* A step replaces only what the invariant does not need in that step.
LEMMA ScriptStops ==
    ASSUME RolloutInv, NEW c \in Container, Recreate(c) \/ Remove(c)
    PROVE  RolloutInv'
<1> USE TwoServices DEF RolloutInv
<1>1. /\ box[c].phase \in {"starting", "ready"} /\ box' = [box EXCEPT ![c] = Sigterm(c)]
      /\ UNCHANGED <<routed, request>> /\ step' = step /\ tag' = tag /\ sound' = sound
  BY DEF Recreate, Remove, deployVars
<1>2. ProxyInv' /\ GraceInv' /\ RequestInv' /\ TypeOK'
  BY <1>1, ToldToStop DEF TypeOK
<1>3. \A d \in Container : d # c => box'[d] = box[d]
  BY <1>1, ToldToStop
<1>4. \/ step = 4 /\ c \in {"api2", "web2"}
      \/ step \in 1..3 /\ c \in Steps[step]
  <2>1. CASE Remove(c)
    BY <2>1 DEF Remove, Twins
  <2>2. CASE Recreate(c)
    <3>1. step \in 1..4 /\ c \in Steps[step]
      BY <2>2 DEF Recreate
    <3>2. step # 4
      BY <3>1, StepIsAbout
    <3>3. QED
      BY <3>1, <3>2
  <2>3. QED
    BY <2>1, <2>2
<1>5. SoundInv'
  <2>1. CASE step = 4 /\ c \in {"api2", "web2"}
    BY <2>1, <1>1, <1>3 DEF SoundInv, Named, Ready
  <2>2. CASE step \in 1..3 /\ c \in Steps[step]
    <3>1. CASE step = 1
      BY <3>1, <2>2, <1>1, <1>3, StepIsAbout DEF SoundInv, Named, Ready
    <3>2. CASE step = 2
      BY <3>2, <2>2, <1>1, <1>3, StepIsAbout DEF SoundInv, Named, Ready
    <3>3. CASE step = 3
      BY <3>3, <2>2, <1>1, <1>3, StepIsAbout DEF SoundInv, Doubled, Ready
    <3>4. QED
      BY <2>2, <3>1, <3>2, <3>3
  <2>3. QED
    BY <1>4, <2>1, <2>2
<1>6. QED
  BY <1>2, <1>5

\* From one step to the next, and out of the script.
LEMMA ScriptSteps ==
    ASSUME RolloutInv, Begin \/ StepDone \/ Complete \/ Fails
    PROVE  RolloutInv'
<1> USE TwoServices DEF RolloutInv
<1>1. box' = box /\ routed' = routed /\ request' = request
  BY DEF Begin, StepDone, Complete, Fails
<1>2. ProxyInv' /\ GraceInv' /\ RequestInv'
  BY <1>1 DEF ProxyInv, GraceInv, Stopping, ToDo, RequestInv
<1>3. CASE Begin
  <2>1. /\ tag' \in Tags /\ step' = 1
        /\ sound' \in BOOLEAN /\ (sound' => Ready("api") /\ Ready("web"))
    BY <1>3 DEF Begin, Ready
  <2>2. TypeOK'
    BY <1>1, <2>1 DEF TypeOK
  <2>3. SoundInv'
    BY <1>1, <2>1 DEF SoundInv, Named, Ready
  <2>4. QED
    BY <1>2, <2>2, <2>3
<1>4. CASE StepDone
  <2>1. /\ tag' = tag /\ sound' = sound /\ step \in 1..3 /\ step' = step + 1
        /\ \A c \in Steps[step] : Ready(c)
    BY <1>4 DEF StepDone, Ready
  <2>2. TypeOK'
    BY <1>1, <2>1 DEF TypeOK
  <2>3. SoundInv'
    <3>1. CASE step = 1
      BY <3>1, <1>1, <2>1, StepIsAbout DEF SoundInv, Named, Doubled, Ready
    <3>2. CASE step = 2
      BY <3>2, <1>1, <2>1, StepIsAbout DEF SoundInv, Named, Doubled, Ready
    <3>3. CASE step = 3
      BY <3>3, <1>1, <2>1, StepIsAbout DEF SoundInv, Named, Doubled, Ready
    <3>4. QED
      BY <2>1, <3>1, <3>2, <3>3
  <2>4. QED
    BY <1>2, <2>2, <2>3
<1>5. CASE Complete \/ Fails
  <2>1. tag' = tag /\ sound' = sound /\ step \in 1..4 /\ step' = 0
    BY <1>5 DEF Complete, Fails, TypeOK
  <2>2. TypeOK'
    BY <1>1, <2>1 DEF TypeOK
  <2>3. SoundInv'
    BY <1>1, <2>1 DEF SoundInv, Named, Doubled, Ready
  <2>4. QED
    BY <1>2, <2>2, <2>3
<1>6. QED
  BY <1>3, <1>4, <1>5

\* A second passes, and whatever was due has been done before.
LEMMA TickStep ==
    ASSUME RolloutInv, Tick
    PROVE  RolloutInv'
<1> USE Numbers, TwoServices DEF RolloutInv
<1>1. /\ box \in [Container -> [phase : Phase, build : Tags \cup {0}, left : Nat, kill : Nat]]
      /\ routed' = routed /\ step' = step /\ tag' = tag /\ sound' = sound
      /\ box' = [c \in Container |-> [box[c] EXCEPT !.left = Less(@), !.kill = Less(@)]]
  BY DEF TypeOK, Tick, deployVars
<1>2. ASSUME NEW c \in Container
      PROVE  /\ box'[c] \in [phase : Phase, build : Tags \cup {0}, left : Nat, kill : Nat]
             /\ box'[c].phase = box[c].phase
             /\ box'[c].left = Less(box[c].left) /\ box'[c].kill = Less(box[c].kill)
  <2>1. Less(box[c].left) \in Nat /\ Less(box[c].kill) \in Nat
    BY <1>1 DEF Less
  <2>2. box'[c] = [phase |-> box[c].phase, build |-> box[c].build,
                   left |-> Less(box[c].left), kill |-> Less(box[c].kill)]
    BY <1>1
  <2>3. QED
    BY <1>1, <2>1, <2>2
<1>3. /\ request = NoRequest => request' = NoRequest
      /\ request # NoRequest => /\ request.left \in Nat \ {0} /\ request.at \in Container
                                /\ request' = [at |-> request.at, age |-> request.age + 1,
                                               left |-> request.left - 1]
  <2>1. CASE request = NoRequest
    BY <2>1 DEF Tick
  <2>2. CASE request # NoRequest
    <3>1. request \in [at : Container, age : Nat, left : Nat]
      BY <2>2 DEF TypeOK
    <3>2. request.left > 0
      BY <3>1 DEF Tick
    <3>3. request' = [request EXCEPT !.age = @ + 1, !.left = @ - 1]
      BY <2>2 DEF Tick
    <3>4. request' = [at |-> request.at, age |-> request.age + 1, left |-> request.left - 1]
      BY <3>1, <3>3
    <3>5. request.left \in Nat \ {0} /\ request.at \in Container
      BY <3>1, <3>2
    <3>6. QED
      BY <2>2, <3>4, <3>5
  <2>3. QED
    BY <2>1, <2>2
<1>4. TypeOK'
  <2>1. box' \in [Container -> [phase : Phase, build : Tags \cup {0}, left : Nat, kill : Nat]]
    BY <1>1, <1>2
  <2>2. request' \in {NoRequest} \cup [at : Container, age : Nat, left : Nat]
    BY <1>3, RequestTypes
  <2>3. QED
    BY <1>1, <2>1, <2>2 DEF TypeOK
<1>5. ASSUME NEW c \in Container
      PROVE  /\ box[c].left \in Nat /\ box[c].kill \in Nat
             /\ box[c].phase \in {"leaving", "stopping"} => box[c].left > 0
             /\ box[c].phase = "draining" => box[c].left > 0 /\ request.at = c
             /\ c \in routed /\ box[c].phase = "leaving" => Delay - box[c].left < CheckLag
  BY <1>1 DEF Tick, DrainOver
<1>6. ProxyInv'
  <2>1. ASSUME NEW c \in routed
        PROVE  \/ box'[c].phase = "ready"
               \/ box'[c].phase = "leaving" /\ Delay - box'[c].left <= CheckLag
    <3>1. c \in Container
      BY DEF TypeOK
    <3>2. CASE box[c].phase = "ready"
      BY <3>1, <3>2, <1>2
    <3>3. CASE box[c].phase = "leaving"
      BY <3>1, <3>3, <1>2, <1>5 DEF Less
    <3>4. QED
      BY <3>2, <3>3 DEF ProxyInv
  <2>2. QED
    BY <1>1, <1>2, <2>1 DEF ProxyInv
<1>7. GraceInv'
  <2>1. ASSUME NEW c \in Container, Stopping(c) PROVE box'[c].kill > ToDo(c)'
    <3>1. box[c].kill > ToDo(c) /\ box[c].left > 0
      BY <2>1, <1>5 DEF GraceInv, Stopping
    <3>2. ToDo(c) \in Nat /\ ToDo(c)' = ToDo(c) - 1
      BY <2>1, <3>1, <1>2, <1>5 DEF Stopping, ToDo, Less
    <3>3. QED
      BY <3>1, <3>2, <1>2, <1>5 DEF Less
  <2>2. QED
    BY <1>2, <2>1 DEF GraceInv, Stopping
<1>8. RequestInv'
  <2>1. ASSUME NEW c \in Container, request'.at = c
        PROVE  request.at = c /\ request # NoRequest
    BY <2>1, <1>3 DEF NoRequest
  <2>2. request' # NoRequest => request'.left <= Grace
    BY <1>3 DEF RequestInv
  <2>3. QED
    BY <1>2, <1>3, <1>5, <2>1, <2>2, RequestTypes DEF RequestInv, Less
<1>9. SoundInv'
  BY <1>1, <1>2 DEF SoundInv, Named, Doubled, Ready
<1>10. QED
  BY <1>4, <1>6, <1>7, <1>8, <1>9

\* No step of the script, of Docker, of the proxy or of a request breaks it.
LEMMA RolloutStep == RolloutInv /\ [Next]_vars => RolloutInv'
<1> SUFFICES ASSUME RolloutInv, [Next]_vars PROVE RolloutInv'
  OBVIOUS
<1>1. ASSUME NEW c \in Container,
             Exit(c) \/ ListenerCloses(c) \/ Drained(c) \/ PoolClosed(c)
      PROVE  RolloutInv'
  BY <1>1, ContainerSteps
<1>2. ASSUME NEW c \in Container, Up(c) PROVE RolloutInv'
  BY <1>2, UpStep
<1>3. ASSUME NEW c \in Container, Dropped(c) \/ Arrives(c) PROVE RolloutInv'
  BY <1>3, ProxySteps
<1>4. ASSUME NEW c \in Container, Recreate(c) \/ Remove(c) PROVE RolloutInv'
  BY <1>4, ScriptStops
<1>5. ASSUME NEW c \in Container, Create(c) PROVE RolloutInv'
  BY <1>5, ContainerCreated
<1>6. CASE Over
  BY <1>6, ProxySteps
<1>7. CASE Begin \/ StepDone \/ Complete \/ Fails
  BY <1>7, ScriptSteps
<1>8. CASE Tick
  BY <1>8, TickStep
<1>9. CASE UNCHANGED vars
  BY <1>9 DEF vars, deployVars, RolloutInv, TypeOK, ProxyInv, GraceInv, Stopping, ToDo,
              RequestInv, SoundInv, Named, Doubled, Ready
<1>10. QED
  BY <1>1, <1>2, <1>3, <1>4, <1>5, <1>6, <1>7, <1>8, <1>9 DEF Next

\* Phases, counters and the steps of the script keep their types.
THEOREM TypeCorrect == Spec => []TypeOK
<1>1. RolloutInv => TypeOK
  BY DEF RolloutInv
<1>2. QED
  BY RolloutInit, RolloutStep, <1>1, PTL DEF Spec

\* Somebody serves, and the proxy sends to nobody who does not listen, whichever
\* step of a deploy fails (rollout.sh, serve in main.go).
THEOREM AlwaysServedHolds == Spec => []AlwaysServed
<1>1. RolloutInv => AlwaysServed
  <2> SUFFICES ASSUME RolloutInv PROVE AlwaysServed
    OBVIOUS
  <2>1. \A c \in routed : Listens(c)
    BY DEF RolloutInv, ProxyInv, Listens
  <2>2. sound => Named \/ Doubled
    <3>1. step \in {0, 1, 2, 3, 4}
      BY DEF RolloutInv, TypeOK
    <3>2. QED
      BY <3>1 DEF RolloutInv, SoundInv
  <2>3. \A c \in Container : Ready(c) => c \in routed
    BY DEF RolloutInv, ProxyInv, Ready
  <2>4. QED
    BY <2>1, <2>2, <2>3, TwoServices DEF AlwaysServed, Named, Doubled, Api, Web
<1>2. QED
  BY RolloutInit, RolloutStep, <1>1, PTL DEF Spec

\* No request of the api meets a closed pool, no container is killed on the way,
\* and web's request had what the pause promises (serve, register).
THEOREM NothingIsCutHolds == Spec => []NothingIsCut
<1>1. RolloutInv => NothingIsCut
  <2> SUFFICES ASSUME RolloutInv PROVE NothingIsCut
    OBVIOUS
  <2>1. \A c \in Api : box[c].phase \in {"stopping", "gone"} => request.at # c
    BY TwoServices DEF RolloutInv, RequestInv
  <2>2. ASSUME NEW c \in Container, Stopping(c) PROVE box[c].kill > 0
    <3>1. box[c].kill > ToDo(c) /\ box[c].kill \in Nat /\ box[c].left \in Nat
      BY <2>2 DEF RolloutInv, GraceInv, TypeOK
    <3>2. ToDo(c) \in Nat
      BY <3>1, Numbers DEF ToDo
    <3>3. QED
      BY <3>1, <3>2
  <2>3. request.at \in Web /\ box[request.at].phase = "gone" => request.age >= Delay - CheckLag
    BY TwoServices DEF RolloutInv, RequestInv
  <2>4. QED
    BY <2>1, <2>2, <2>3 DEF NothingIsCut
<1>2. QED
  BY RolloutInit, RolloutStep, <1>1, PTL DEF Spec
=============================================================================
