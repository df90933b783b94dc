---- MODULE SupervisorProofs ----
(***************************************************************************)
(* For any number of listeners, any burst limit and any number of          *)
(* requests: no request for recovery is answered twice, each one is        *)
(* answered, and each listener is served or the process ends.              *)
(***************************************************************************)
EXTENDS Supervisor, TLAPS

\* A reason to die is only given by dying, and one rapid request too many is deadly.
Living == Supervising => why = "none" /\ burst <= BurstLimit

Inv == SupervisorTypeOK /\ Living /\ RebuildsAnswerRequests

\* The first generation was asked for by nobody.
LEMMA InitInv == SupervisorInit => Inv
<1> SUFFICES ASSUME SupervisorInit PROVE Inv
  OBVIOUS
<1> USE SupervisorAssumption DEF SupervisorInit
<1>1. 1 \in Gens
  BY DEF Gens
<1>2. SupervisorTypeOK
  <2>1. srv \in [Gens -> [Listeners -> {"none", "starting", "listening", "closed", "failed"}]]
    OBVIOUS
  <2>2. restartSent \in [Gens -> [Listeners -> BOOLEAN]]
    OBVIOUS
  <2> QED
    <3>1. /\ core = "serving" /\ why = "none" /\ gen \in Gens /\ request \in BOOLEAN
          /\ errs = {} /\ burst \in 0 .. BurstLimit + 1 /\ asked \in 0 .. MaxAsked
      <4>1. request \in BOOLEAN
        BY Zenon
      <4>2. core = "serving" /\ why = "none" /\ gen = 1 /\ errs = {} /\ burst = 0
            /\ asked = 0
        OBVIOUS
      <4> QED
        BY <1>1, <4>1, <4>2
    <3> HIDE DEF SupervisorInit
    <3> QED
      BY <3>1, <2>1, <2>2 DEF SupervisorTypeOK
<1>3. Living /\ RebuildsAnswerRequests
  BY DEF Living, RebuildsAnswerRequests
<1> QED
  BY <1>2, <1>3 DEF Inv

\* The supervisor's own variables may change within their types.
LEMMA TypeKept ==
  ASSUME SupervisorTypeOK, UNCHANGED <<gen, srv, restartSent, errs, asked>>,
         core' \in {"serving", "rebuilding", "fatal", "exited"},
         why' \in {"none", "listener", "burst", "build"},
         request' \in BOOLEAN, burst' \in 0 .. BurstLimit + 1
  PROVE  SupervisorTypeOK'
  BY DEF SupervisorTypeOK

\* Setting the state of one server keeps the type of srv.
LEMMA SetServer ==
  ASSUME SupervisorTypeOK, NEW g \in Gens, NEW l \in Listeners,
         NEW s \in {"none", "starting", "listening", "closed", "failed"}
  PROVE  [srv EXCEPT ![g][l] = s]
             \in [Gens -> [Listeners -> {"none", "starting", "listening", "closed", "failed"}]]
  BY DEF SupervisorTypeOK

\* Setting one flag keeps the type of restartSent.
LEMMA SetFlag ==
  ASSUME SupervisorTypeOK, NEW g \in Gens, NEW l \in Listeners, NEW x \in BOOLEAN
  PROVE  [restartSent EXCEPT ![g][l] = x] \in [Gens -> [Listeners -> BOOLEAN]]
  BY DEF SupervisorTypeOK

\* Servers that listen, fail, close or report a success ask for nothing.
LEMMA ServerInv ==
  ASSUME Inv, NEW g \in Gens, NEW l \in Listeners, ServerStep(g, l) \/ Rearm(g, l)
  PROVE  Inv'
<1> USE DEF Inv
<1>1. SupervisorTypeOK'
  <2>1. CASE Listen(g, l)
    BY <2>1, SetServer DEF Listen, SupervisorTypeOK
  <2>2. CASE ListenFails(g, l)
    BY <2>2, SetServer DEF ListenFails, SupervisorTypeOK
  <2>3. CASE CloseListener(g, l)
    BY <2>3, SetServer DEF CloseListener, SupervisorTypeOK
  <2>4. CASE Rearm(g, l)
    BY <2>4, SetFlag DEF Rearm, SupervisorTypeOK
  <2> QED
    BY <2>1, <2>2, <2>3, <2>4 DEF ServerStep
<1>2. UNCHANGED <<core, why, gen, request, burst, asked>>
  BY DEF ServerStep, Listen, ListenFails, CloseListener, Rearm
<1>3. Living' /\ RebuildsAnswerRequests'
  BY <1>2 DEF Living, RebuildsAnswerRequests, Supervising
<1> QED
  BY <1>1, <1>3

\* One more request asked for, and at most one more in the channel.
LEMMA EscalateInv ==
  ASSUME Inv, NEW g \in Gens, NEW l \in Listeners, Escalate(g, l)
  PROVE  Inv'
<1> USE SupervisorAssumption DEF Inv, Escalate
<1>1. SupervisorTypeOK'
  BY SetFlag DEF SupervisorTypeOK
<1>2. Living'
  BY DEF Living, Supervising
<1>3. RebuildsAnswerRequests'
  BY DEF RebuildsAnswerRequests, SupervisorTypeOK, Gens
<1> QED
  BY <1>1, <1>2, <1>3

\* The request leaves the channel as the rebuild, or the abort, that answers it begins.
LEMMA RecoverInv == ASSUME Inv, NEW rapid \in BOOLEAN, Recover(rapid) PROVE Inv'
<1> USE SupervisorAssumption DEF Inv, Recover, serverVars
<1> DEFINE b == IF rapid /\ burst > 0 THEN burst + 1 ELSE 1
<1>0. why = "none" /\ b \in 1 .. BurstLimit + 1
  BY DEF Living, Supervising, SupervisorTypeOK
<1>3. request' = FALSE /\ UNCHANGED <<gen, srv, restartSent, errs, asked>>
  OBVIOUS
<1>1. CASE b > BurstLimit
  <2>1. core' = "fatal" /\ why' = "burst" /\ burst' = b
    BY <1>1
  <2>2. SupervisorTypeOK'
    <3> HIDE DEF b, Recover
    <3>1. burst' \in 0 .. BurstLimit + 1
      BY <1>0, <2>1
    <3> QED
      BY <1>0, <1>3, <2>1, <3>1, TypeKept
  <2>3. Living'
    BY <2>1 DEF Living, Supervising
  <2>4. RebuildsAnswerRequests'
    BY <1>0, <2>1 DEF RebuildsAnswerRequests, SupervisorTypeOK, Gens
  <2> QED
    BY <2>2, <2>3, <2>4
<1>2. CASE ~(b > BurstLimit)
  <2>1. core' = "rebuilding" /\ why' = why /\ burst' = b
    BY <1>2
  <2>2. SupervisorTypeOK'
    <3> HIDE DEF b, Recover
    <3>1. burst' \in 0 .. BurstLimit + 1
      BY <1>0, <2>1
    <3> QED
      BY <1>0, <1>3, <2>1, <3>1, TypeKept
  <2>3. Living'
    BY <1>0, <1>2, <2>1, SupervisorAssumption DEF Living
  <2>4. RebuildsAnswerRequests'
    BY <1>0, <2>1 DEF RebuildsAnswerRequests, SupervisorTypeOK, Gens
  <2> QED
    BY <2>2, <2>3, <2>4
<1> QED
  BY <1>1, <1>2

\* The rebuild in progress has become a generation; there were requests for all of them.
LEMMA BuildInv == ASSUME Inv, BuildOk \/ BuildFails PROVE Inv'
<1> USE SupervisorAssumption DEF Inv, serverVars
<1>0. why = "none" /\ core = "rebuilding"
  BY DEF Living, Supervising, BuildOk, BuildFails
<1>1. CASE BuildOk
  <2> USE <1>1 DEF BuildOk
  <2>1. gen + 1 \in Gens
    BY <1>0 DEF RebuildsAnswerRequests, SupervisorTypeOK, Gens
  <2>2. SupervisorTypeOK'
    BY <2>1 DEF SupervisorTypeOK
  <2>3. Living'
    BY <1>0 DEF Living, Supervising
  <2>4. RebuildsAnswerRequests'
    BY <1>0 DEF RebuildsAnswerRequests, SupervisorTypeOK, Gens
  <2> QED
    BY <2>2, <2>3, <2>4
<1>2. CASE BuildFails
  <2> USE <1>2 DEF BuildFails
  <2>1. SupervisorTypeOK' /\ Living'
    BY DEF SupervisorTypeOK, Living, Supervising
  <2>2. RebuildsAnswerRequests'
    BY <1>0 DEF RebuildsAnswerRequests, SupervisorTypeOK, Gens
  <2> QED
    BY <2>1, <2>2
<1> QED
  BY <1>1, <1>2

\* An interrupt or a listener's error ends the process.
LEMMA EndInv == ASSUME Inv, CoreInterrupted \/ ListenerError PROVE Inv'
<1> USE SupervisorAssumption DEF Inv, CoreInterrupted, ListenerError, serverVars
<1>0. why = "none"
  BY DEF Living, Supervising
<1>1. SupervisorTypeOK' /\ Living'
  BY DEF SupervisorTypeOK, Living, Supervising
<1>2. RebuildsAnswerRequests'
  BY <1>0 DEF RebuildsAnswerRequests, SupervisorTypeOK, Gens
<1> QED
  BY <1>1, <1>2

\* One case per action of servers and supervisor.
LEMMA NextInv == Inv /\ [SupervisorNext]_supervisorVars => Inv'
<1> SUFFICES ASSUME Inv, [SupervisorNext]_supervisorVars PROVE Inv'
  OBVIOUS
<1>1. CASE UNCHANGED supervisorVars
  BY <1>1
  DEF supervisorVars, serverVars, Inv, SupervisorTypeOK, Living, RebuildsAnswerRequests, Supervising
<1>2. CASE SupervisorNext
  BY <1>2, ServerInv, EscalateInv, RecoverInv, BuildInv, EndInv DEF SupervisorNext, SupervisorStep
<1> QED
  BY <1>1, <1>2

\* The inductive invariant holds in every behaviour.
LEMMA SpecInv == SupervisorSafetySpec => []Inv
  BY InitInv, NextInv, PTL DEF SupervisorSafetySpec

\* Every variable keeps its type: no more generations than requests, plus the first.
THEOREM SupervisorTypeCorrect == SupervisorSafetySpec => []SupervisorTypeOK
  BY SpecInv, PTL DEF Inv

\* Every rebuild, and the abort, uses up a request that no other one answers.
THEOREM EveryRebuildWasAskedFor == SupervisorSafetySpec => []RebuildsAnswerRequests
  BY SpecInv, PTL DEF Inv

-----------------------------------------------------------------------------
(* What must happen                                                          *)

\* A server of the newest generation that asked for recovery, and will not ask again, has a
\* request in the channel or a rebuild under way, even if its own request was dropped
\* because one waited already; what is yet to be built has asked for nothing.
Answering ==
    /\ Supervising => \A l \in Listeners : restartSent[gen][l] => request \/ core = "rebuilding"
    /\ \A g \in Gens, l \in Listeners : g > gen => ~restartSent[g][l] /\ srv[g][l] = "none"

\* One server's step changes no other server, and nothing of the supervisor but errs.
LEMMA ServerChanges ==
    ASSUME Inv, NEW g \in Gens, NEW l \in Listeners, ServerStep(g, l)
    PROVE  /\ UNCHANGED <<core, why, gen, restartSent, request, burst, asked>>
           /\ srv[g][l] \in {"starting", "listening"}
           /\ srv[g][l] = "starting" => \/ srv'[g][l] = "listening"
                                        \/ srv'[g][l] = "failed" /\ (g = gen => l \in errs')
           /\ \A h \in Gens, m \in Listeners : <<h, m>> # <<g, l>> => srv'[h][m] = srv[h][m]
           /\ errs \subseteq errs'
<1> USE DEF Inv, SupervisorTypeOK
<1>1. CASE Listen(g, l)
  BY <1>1 DEF Listen
<1>2. CASE ListenFails(g, l)
  BY <1>2 DEF ListenFails
<1>3. CASE CloseListener(g, l)
  BY <1>3 DEF CloseListener
<1> QED
  BY <1>1, <1>2, <1>3 DEF ServerStep

\* The supervisor goes from serving to rebuilding and on, or ends.
LEMMA SupervisorChanges ==
    ASSUME Inv, SupervisorStep
    PROVE  /\ UNCHANGED restartSent
           /\ \/ /\ core = "serving" /\ UNCHANGED <<gen, srv, errs>>
                 /\ core' \in {"rebuilding", "fatal"}
              \/ /\ core = "rebuilding" /\ core' = "serving" /\ gen' = gen + 1
                 /\ UNCHANGED request
                 /\ \A g \in Gens, l \in Listeners : g # gen + 1 => srv'[g][l] = srv[g][l]
              \/ /\ core = "rebuilding" /\ core' = "fatal"
                 /\ UNCHANGED <<gen, srv>>
<1> USE DEF Inv, SupervisorTypeOK, serverVars
<1>1. CASE ListenerError
  BY <1>1 DEF ListenerError
<1>2. ASSUME NEW rapid \in BOOLEAN, Recover(rapid)
      PROVE  /\ UNCHANGED restartSent /\ core = "serving" /\ UNCHANGED <<gen, srv, errs>>
             /\ core' \in {"rebuilding", "fatal"}
  BY <1>2 DEF Recover
<1>3. CASE BuildOk
  BY <1>3 DEF BuildOk
<1>4. CASE BuildFails
  BY <1>4 DEF BuildFails
<1> QED
  BY <1>1, <1>2, <1>3, <1>4 DEF SupervisorStep

\* A rebuild starts with silent flags; only Escalate raises one, and it leaves a request.
LEMMA AnsweringHolds == SupervisorSafetySpec => []Answering
<1>1. SupervisorInit => Answering
  <2> SUFFICES ASSUME SupervisorInit PROVE Answering
    OBVIOUS
  <2>1. gen = 1 /\ gen \in Gens
    BY SupervisorAssumption DEF SupervisorInit, Gens
  <2>2. ASSUME NEW g \in Gens, NEW l \in Listeners
        PROVE  ~restartSent[g][l] /\ (g > 1 => srv[g][l] = "none")
    <3>1. restartSent[g] = [m \in Listeners |-> FALSE]
      BY DEF SupervisorInit
    <3>2. srv[g] = [m \in Listeners |-> IF g = 1 THEN "starting" ELSE "none"]
      BY DEF SupervisorInit
    <3> QED
      BY <3>1, <3>2 DEF Gens
  <2> QED
    BY <2>1, <2>2 DEF Answering
<1>2. Inv /\ Answering /\ [SupervisorNext]_supervisorVars => Answering'
  <2> SUFFICES ASSUME Inv, Answering, [SupervisorNext]_supervisorVars PROVE Answering'
    OBVIOUS
  <2>0. gen \in Gens /\ gen \in Nat
    BY DEF Inv, SupervisorTypeOK, Gens
  <2>1. ASSUME NEW g \in Gens, NEW l \in Listeners, ServerStep(g, l) PROVE Answering'
    BY <2>1, ServerChanges DEF Answering, Supervising
  <2>2. ASSUME NEW g \in Gens, NEW l \in Listeners, Escalate(g, l) PROVE Answering'
    <3>1. request' /\ UNCHANGED <<core, gen, srv>>
      BY <2>2 DEF Escalate
    <3>2. ~(g > gen)
      BY <2>2 DEF Escalate, Answering
    <3>3. \A h \in Gens, m \in Listeners : <<h, m>> # <<g, l>> => restartSent'[h][m] = restartSent[h][m]
      BY <2>2 DEF Escalate, Inv, SupervisorTypeOK
    <3> QED
      BY <3>1, <3>2, <3>3 DEF Answering, Supervising
  <2>3. ASSUME NEW g \in Gens, NEW l \in Listeners, Rearm(g, l) PROVE Answering'
    <3>1. UNCHANGED <<core, gen, srv, request>>
      BY <2>3 DEF Rearm
    <3>2. \A h \in Gens, m \in Listeners : restartSent'[h][m] => restartSent[h][m]
      BY <2>3 DEF Rearm, Inv, SupervisorTypeOK
    <3> QED
      BY <2>0, <3>1, <3>2 DEF Answering, Supervising
  <2>4. CASE CoreInterrupted
    BY <2>4 DEF CoreInterrupted, Answering, Supervising, serverVars
  <2>5. CASE SupervisorStep
    <3>1. CASE gen' = gen /\ srv' = srv /\ core' \in {"rebuilding", "fatal"}
      BY <2>5, <3>1, SupervisorChanges DEF Answering, Supervising
    <3>2. CASE /\ gen' = gen + 1
               /\ \A g \in Gens, l \in Listeners : g # gen + 1 => srv'[g][l] = srv[g][l]
      <4>1. restartSent' = restartSent
        BY <2>5, SupervisorChanges
      <4>2. gen' \in Gens
        BY <2>5, NextInv DEF Inv, SupervisorTypeOK, SupervisorNext
      <4>3. gen' > gen /\ \A g \in Gens : g > gen' => g > gen /\ g # gen + 1
        BY <2>0, <3>2 DEF Gens
      <4> QED
        BY <3>2, <4>1, <4>2, <4>3 DEF Answering
    <3> QED
      BY <2>5, <3>1, <3>2, SupervisorChanges
  <2>6. CASE UNCHANGED supervisorVars
    BY <2>6 DEF supervisorVars, serverVars, Answering, Supervising
  <2> QED
    BY <2>1, <2>2, <2>3, <2>4, <2>5, <2>6 DEF SupervisorNext
<1> QED
  BY <1>1, <1>2, SpecInv, PTL DEF SupervisorSafetySpec

\* While a generation is the newest one and the process lives, only the supervisor's own
\* steps take it from serving to rebuilding, and none takes it back.
LEMMA GenerationGoes ==
    ASSUME Inv, [SupervisorNext]_supervisorVars, NEW g \in Gens, g = gen, Supervising
    PROVE  \/ gen' > g \/ ~Supervising'
           \/ g = gen' /\ Supervising' /\ (core = "rebuilding" => core' = "rebuilding") /\ errs \subseteq errs'
<1>0. gen \in Nat
  BY DEF Inv, SupervisorTypeOK, Gens
<1>1. ASSUME NEW h \in Gens, NEW l \in Listeners, ServerStep(h, l)
      PROVE  UNCHANGED <<core, gen>> /\ errs \subseteq errs'
  BY <1>1, ServerChanges
<1>2. ASSUME NEW h \in Gens, NEW l \in Listeners, Escalate(h, l) \/ Rearm(h, l)
      PROVE  UNCHANGED <<core, gen, errs>>
  BY <1>2 DEF Escalate, Rearm
<1>3. CASE CoreInterrupted
  BY <1>3 DEF CoreInterrupted, Supervising
<1>4. CASE SupervisorStep
  BY <1>0, <1>4, SupervisorChanges DEF Supervising
<1>5. CASE UNCHANGED supervisorVars
  BY <1>5 DEF supervisorVars, Supervising
<1> QED
  BY <1>1, <1>2, <1>3, <1>4, <1>5 DEF SupervisorNext, Supervising

\* The guards of the supervisor's and the servers' steps say when they can take one.
SupervisorReady == core = "rebuilding" \/ (core = "serving" /\ (request \/ errs # {}))

SupervisorCanStep == [](SupervisorReady => ENABLED <<SupervisorStep>>_supervisorVars)

ServerCanStep(g, l) == [](Supervising /\ srv[g][l] = "starting" => ENABLED <<ServerStep(g, l)>>_supervisorVars)

\* From the flag to the request or the rebuild, and from there to the next generation.
LEMMA ServerAnswered ==
    ASSUME NEW g \in Gens, NEW l \in Listeners
    PROVE  SupervisorSafetySpec /\ SupervisorFairness /\ SupervisorCanStep
             => ((g = gen /\ restartSent[g][l]) ~> (gen > g \/ ~Supervising \/ ~restartSent[g][l]))
<1> DEFINE Good == Inv /\ Answering
           Newest == g = gen
           Newer == gen > g
           Lives == Supervising
           Asked == restartSent[g][l]
           Serving == core = "serving"
           Rebuilding == core = "rebuilding"
           Ready == request \/ errs # {}
<1>1. Good /\ Newest /\ Lives /\ Asked => Rebuilding \/ (Serving /\ Ready)
  BY DEF Answering, Supervising
<1>2. Good /\ [SupervisorNext]_supervisorVars /\ Newest /\ Lives
        => Newer' \/ ~Lives' \/ (Newest' /\ Lives' /\ (Rebuilding => Rebuilding'))
  BY GenerationGoes
<1>3. Good /\ <<SupervisorStep>>_supervisorVars /\ Newest
        => (Serving => Rebuilding' \/ ~Lives') /\ (Rebuilding => Newer' \/ ~Lives')
  <2>1. Inv => gen \in Nat
    BY DEF Inv, SupervisorTypeOK, Gens
  <2> QED
    BY <2>1, SupervisorChanges DEF Supervising
<1>4. SupervisorSafetySpec => [][SupervisorNext]_supervisorVars /\ []Good
  BY SpecInv, AnsweringHolds, PTL DEF SupervisorSafetySpec
<1>5. /\ (g = gen <=> Newest) /\ (gen > g <=> Newer) /\ (Supervising <=> Lives)
      /\ (restartSent[g][l] <=> Asked)
      /\ (SupervisorReady <=> Rebuilding \/ (Serving /\ Ready))
  BY DEF SupervisorReady
<1> HIDE DEF Good, Newest, Newer, Lives, Asked, Serving, Rebuilding, Ready
<1> QED
  BY <1>1, <1>2, <1>3, <1>4, <1>5, PTL DEF SupervisorFairness, SupervisorCanStep

\* Every request for recovery is answered, although the channel holds one reason and drops
\* the rest, if the supervisor's select can go on whenever a case of it is ready.
THEOREM RecoveryIsAnswered == SupervisorSpec /\ SupervisorCanStep => EscalationAnswered
<1>1. SupervisorSpec => SupervisorSafetySpec /\ SupervisorFairness
  BY PTL DEF SupervisorSpec, RecoveryFairness
<1> QED
  BY <1>1, ServerAnswered DEF EscalationAnswered

\* It listens, or its error reaches the select, whichever case that takes first.
LEMMA ListenerSettles ==
    ASSUME NEW g \in Gens, NEW l \in Listeners
    PROVE  (/\ SupervisorSafetySpec /\ SupervisorFairness /\ ServerFairness(g, l)
            /\ SupervisorCanStep /\ ServerCanStep(g, l))
             => ((g = gen /\ srv[g][l] = "starting") ~> (srv[g][l] = "listening" \/ gen > g \/ ~Supervising))
<1> DEFINE Newest == g = gen
           Newer == gen > g
           Lives == Supervising
           Starting == srv[g][l] = "starting"
           Listening == srv[g][l] = "listening"
           Failed == l \in errs
           Serving == core = "serving"
           Rebuilding == core = "rebuilding"
           Ready == SupervisorReady
<1>0. Inv => gen # gen + 1
  BY DEF Inv, SupervisorTypeOK, Gens
<1>1. /\ Lives => Serving \/ Rebuilding
      /\ Rebuilding => Ready
      /\ Serving /\ Failed => Ready
  BY DEF Supervising, SupervisorReady
<1>2. Inv /\ [SupervisorNext]_supervisorVars /\ Newest /\ Lives
        => \/ Newer' \/ ~Lives'
           \/ /\ Newest' /\ Lives' /\ (Rebuilding => Rebuilding') /\ (Failed => Failed')
              /\ (Starting => Starting' \/ Listening' \/ Failed')
  <2> SUFFICES ASSUME Inv, [SupervisorNext]_supervisorVars, Newest, Lives, Starting, g = gen'
               PROVE  Starting' \/ Listening' \/ Failed'
    BY GenerationGoes
  <2>1. ASSUME NEW h \in Gens, NEW m \in Listeners, ServerStep(h, m)
        PROVE  Starting' \/ Listening' \/ Failed'
    <3>1. CASE h = g /\ m = l
      BY <2>1, <3>1, ServerChanges
    <3>2. CASE <<g, l>> # <<h, m>>
      BY <2>1, <3>2, ServerChanges
    <3> QED
      BY <3>1, <3>2
  <2>2. ASSUME NEW h \in Gens, NEW m \in Listeners, Escalate(h, m) \/ Rearm(h, m)
        PROVE  srv' = srv
    BY <2>2 DEF Escalate, Rearm
  <2>3. CASE CoreInterrupted
    BY <2>3 DEF CoreInterrupted, serverVars
  <2>4. CASE SupervisorStep
    <3>1. gen' = gen /\ gen # gen + 1
      BY <1>0
    <3>2. srv' = srv
      BY <2>4, <3>1, SupervisorChanges
    <3> QED
      BY <3>2
  <2>5. CASE UNCHANGED supervisorVars
    BY <2>5 DEF supervisorVars, serverVars
  <2> QED
    BY <2>1, <2>2, <2>3, <2>4, <2>5 DEF SupervisorNext
<1>3. Inv /\ <<SupervisorStep>>_supervisorVars /\ Newest
        => (Serving => Rebuilding' \/ ~Lives') /\ (Rebuilding => Newer' \/ ~Lives')
  <2>1. Inv => gen \in Nat
    BY DEF Inv, SupervisorTypeOK, Gens
  <2> QED
    BY <2>1, SupervisorChanges DEF Supervising
<1>4. Inv /\ <<ServerStep(g, l)>>_supervisorVars /\ Newest /\ Starting => Listening' \/ Failed'
  BY ServerChanges
<1>5. SupervisorSafetySpec => [][SupervisorNext]_supervisorVars /\ []Inv
  BY SpecInv, PTL DEF SupervisorSafetySpec
<1>6. /\ (g = gen <=> Newest) /\ (gen > g <=> Newer) /\ (Supervising <=> Lives)
      /\ (srv[g][l] = "starting" <=> Starting) /\ (srv[g][l] = "listening" <=> Listening)
      /\ (SupervisorReady <=> Ready)
  OBVIOUS
<1> HIDE DEF Newest, Newer, Lives, Starting, Listening, Failed, Serving, Rebuilding, Ready
<1> QED
  BY <1>1, <1>2, <1>3, <1>4, <1>5, <1>6, PTL
  DEF SupervisorFairness, ServerFairness, SupervisorCanStep, ServerCanStep

\* A listener that starts is served, or a newer generation or the end of the process takes
\* its place, if the supervisor and every server can go on when their guards say so.
THEOREM ListenersSettle ==
    SupervisorSpec /\ SupervisorCanStep /\ (\A g \in Gens, l \in Listeners : ServerCanStep(g, l)) => ServesOrEnds
<1>1. SupervisorSpec => /\ SupervisorSafetySpec /\ SupervisorFairness
              /\ \A g \in Gens, l \in Listeners : ServerFairness(g, l)
  BY PTL DEF SupervisorSpec, RecoveryFairness
<1> QED
  BY <1>1, ListenerSettles DEF ServesOrEnds

====
