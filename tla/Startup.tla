---- MODULE Startup ----
(***************************************************************************)
(* From the configuration file to running servers: internal/config (load,  *)
(* Normalize, EnabledEndpoints, ProbeHealthyEndpoints, the guardrails, the *)
(* doctor), the stages of main in cmd/snispf/main.go, and what the control *)
(* service concludes from the same file, as long as nobody edits it.       *)
(* Flags of the command line change the record after it is read, which     *)
(* yields another record of Files.  Without --config the file is           *)
(* config.json, which must be there all the same.                          *)
(*                                                                         *)
(* An address, a name or a port is one of a few values: "" and 0 are unset *)
(* ones, "long" is a name above the limit, 70000 a port out of range.      *)
(* "resolved" stands for whatever the lookup of "hostname" returned, see   *)
(* ResolveHost.  bad stands for the settings only the doctor looks at:     *)
(* LISTEN_HOST, LOG_LEVEL, FRAGMENT_STRATEGY, FRAGMENT_DELAY.              *)
(***************************************************************************)
EXTENDS Integers, Sequences, SequencesExt, Places

CONSTANTS
    Files,          \* configurations a readable file may hold
    MaxRebuilds     \* bound: rebuilds the supervisor asks for

Hosts == {"", "a", "b", "hostname", "resolved"}
Names == {"", "s", "t", "long"}
Methods == {"fragment", "fake_sni", "combined", "wrong_seq"}
MethodTexts == Methods \union {"", "WRONG_SEQ", "bogus"}
LoadBalanceModes == {"failover", "round_robin", "random"}

Endpoints == [ip : Hosts, port : Int, sni : Names, enabled : BOOLEAN]
Listeners == [port : Int, ip : Hosts, cport : Int, sni : Names, method : MethodTexts]

Configs == [port : Int, cport : Int, ip : Hosts, sni : Names, method : MethodTexts,
            endpoints : Seq(Endpoints), listeners : Seq(Listeners), probe : BOOLEAN,
            lb : LoadBalanceModes \union {"", "bogus"}, auto : BOOLEAN, retries : Int,
            bad : BOOLEAN]

ASSUME FilesAssumption == Files \subseteq Configs /\ MaxRebuilds \in Nat

VARIABLES
    found,      \* the file is "missing", "broken" or can be "read"
    file,       \* what it holds; DefaultConfig if it cannot be read
    raw,        \* raw injection is available and not switched off
    stage,      \* where main is
    fatal,      \* why it ended with log.Fatal
    cfg,        \* cfg of main
    active,     \* activeEndpoints
    answers,    \* resCh: probe results in the order they came in
    runtimes,   \* the serverRuntimes built so far
    rebuilds

startupVars == <<found, file, raw, stage, fatal, cfg, active, answers, runtimes, rebuilds>>

-----------------------------------------------------------------------------
(* internal/config *)

DefaultConfig ==
    [port |-> 40443, cport |-> 443, ip |-> "a", sni |-> "s", method |-> "wrong_seq",
     endpoints |-> <<>>, listeners |-> <<>>, probe |-> FALSE, lb |-> "", auto |-> FALSE,
     retries |-> 0, bad |-> FALSE]

\* An address stays as it is.  A name is looked up again at each call and in each process:
\* it may become another address each time, or stay the name if the lookup fails.  All this
\* is one value, of which only is known that it is not empty; no property may take two
\* results for the same address.
ResolveHost(h) == IF h = "hostname" THEN "resolved" ELSE h
IsValidPort(p) == p \in 1 .. 65535
ToLower(m) == IF m = "WRONG_SEQ" THEN "wrong_seq" ELSE m

NormalizeScalars(c) ==
    [c EXCEPT !.lb = IF @ \in LoadBalanceModes THEN @ ELSE "failover",
              !.retries = IF c.auto /\ @ <= 0 THEN 2 ELSE @]

FilledListener(c, l) ==
    [port |-> IF l.port = 0 THEN c.port ELSE l.port,
     ip |-> ResolveHost(IF l.ip = "" THEN c.ip ELSE l.ip),
     cport |-> IF l.cport = 0 THEN c.cport ELSE l.cport,
     sni |-> IF l.sni = "" THEN c.sni ELSE l.sni,
     method |-> IF l.method = "" THEN c.method ELSE l.method]

\* Listeners inherit the top-level fields, which then take the first listener's values.
NormalizeListeners(c) ==
    LET ls == [i \in 1 .. Len(c.listeners) |-> FilledListener(c, c.listeners[i])]
    IN IF c.listeners = <<>> THEN c
       ELSE [c EXCEPT !.listeners = ls, !.port = ls[1].port, !.ip = ls[1].ip,
                      !.cport = ls[1].cport, !.sni = ls[1].sni]

FilledEndpoint(c, e) ==
    IF ~e.enabled THEN e
    ELSE [e EXCEPT !.ip = ResolveHost(@), !.port = IF @ = 0 THEN c.cport ELSE @,
                   !.sni = IF @ = "" THEN c.sni ELSE @]

\* The endpoints likewise; without listeners the first one, enabled or not, gives the
\* top-level fields.
NormalizeEndpoints(c) ==
    LET own == [ip |-> c.ip, port |-> c.cport, sni |-> c.sni, enabled |-> TRUE]
        given == IF c.endpoints = <<>> THEN <<own>> ELSE c.endpoints
        es == [i \in 1 .. Len(given) |-> FilledEndpoint(c, given[i])]
    IN IF c.listeners # <<>> THEN [c EXCEPT !.endpoints = es]
       ELSE [c EXCEPT !.endpoints = es, !.ip = es[1].ip, !.cport = es[1].port, !.sni = es[1].sni]

Normalize(c) == NormalizeEndpoints(NormalizeListeners(NormalizeScalars(c)))

Usable(e) == e.enabled /\ e.ip # "" /\ e.port # 0 /\ e.sni # ""

EnabledEndpoints(es) == ElementsAt(es, {i \in 1 .. Len(es) : Usable(es[i])})

NamesUsed(c) ==
    {c.sni} \union {c.endpoints[i].sni : i \in 1 .. Len(c.endpoints)}
            \union {c.listeners[i].sni : i \in 1 .. Len(c.listeners)}

ValidateSNIGuardrails(c) == "long" \notin NamesUsed(c)

DoctorAcceptsLaxly(c) ==
    /\ IsValidPort(c.port) /\ IsValidPort(c.cport) /\ c.ip # "" /\ ~c.bad
    /\ c.sni \notin {"", "long"}
    /\ ToLower(c.method) \in Methods
    /\ c.retries >= 0
    /\ EnabledEndpoints(c.endpoints) # <<>>

\* RunDoctor finds no issue.
DoctorAccepts(c) ==
    LET es == EnabledEndpoints(c.endpoints)
    IN /\ IsValidPort(c.port) /\ IsValidPort(c.cport) /\ c.ip # "" /\ ~c.bad
       /\ c.sni \notin {"", "long"}
       /\ ToLower(c.method) \in Methods
       /\ c.retries >= 0
       /\ c.endpoints # <<>> => es # <<>>
       /\ \A i \in 1 .. Len(es) : IsValidPort(es[i].port) /\ es[i].sni # "long"
       /\ \A i \in 1 .. Len(c.listeners) :
            LET l == c.listeners[i]
            IN /\ IsValidPort(l.port) /\ IsValidPort(l.cport)
               /\ l.ip # "" /\ l.sni \notin {"", "long"}
       /\ ToLower(c.method) = "wrong_seq" => Len(es) = 1

-----------------------------------------------------------------------------
(* internal/service: LoadOrDefault, Normalize, and a verdict of its own *)

ServiceReads == found # "broken"
ServiceConfig == Normalize(file)

\* startCore and /v1/validate.
ServiceAccepts == ServiceReads /\ DoctorAccepts(ServiceConfig)

-----------------------------------------------------------------------------
(* main, up to the supervisor's loop *)

Die(reason) == stage' = "fatal" /\ fatal' = reason

StartupInit ==
    /\ \/ found = "read" /\ file \in Files
       \/ found \in {"missing", "broken"} /\ file = DefaultConfig
    /\ raw \in BOOLEAN
    /\ stage = "load" /\ fatal = "" /\ cfg = DefaultConfig
    /\ active = <<>> /\ answers = <<>> /\ runtimes = <<>> /\ rebuilds = 0

\* Load fails, although LoadOrDefault would not on a missing file.
LoadFails ==
    /\ stage = "load"
    /\ found # "read"
    /\ Die("load")
    /\ UNCHANGED <<found, file, raw, cfg, active, answers, runtimes, rebuilds>>

\* The top-level ports are looked at before Normalize gives them their final values.
PortsFail ==
    /\ stage = "load"
    /\ found = "read"
    /\ ~IsValidPort(file.port) \/ ~IsValidPort(file.cport)
    /\ Die("ports")
    /\ UNCHANGED <<found, file, raw, cfg, active, answers, runtimes, rebuilds>>

\* There is nothing to connect to, with or without LISTENERS.
NoEndpoints ==
    /\ stage = "load"
    /\ found = "read"
    /\ IsValidPort(file.port) /\ IsValidPort(file.cport)
    /\ EnabledEndpoints(Normalize(file).endpoints) = <<>>
    /\ Die("endpoints")
    /\ UNCHANGED <<found, file, raw, cfg, active, answers, runtimes, rebuilds>>

LoadNormalized ==
    /\ stage = "load"
    /\ found = "read"
    /\ IsValidPort(file.port) /\ IsValidPort(file.cport)
    /\ EnabledEndpoints(Normalize(file).endpoints) # <<>>
    /\ cfg' = Normalize(file)
    /\ active' = EnabledEndpoints(Normalize(file).endpoints)
    /\ stage' = IF Normalize(file).probe /\ Len(active') > 1 THEN "probe" ELSE "settle"
    /\ UNCHANGED <<found, file, raw, fatal, answers, runtimes, rebuilds>>

Probed == {answers[i].of : i \in 1 .. Len(answers)}

\* The probe of one endpoint (named by its place) ends, well or not, in any order.
ProbeEndpoint(i) ==
    /\ stage = "probe"
    /\ i \notin Probed
    /\ \E ok \in BOOLEAN : answers' = Append(answers, [of |-> i, ok |-> ok])
    /\ UNCHANGED <<found, file, raw, stage, fatal, cfg, active, runtimes, rebuilds>>

Reachable == ElementsAt(answers, {i \in 1 .. Len(answers) : answers[i].ok})

ProbesDoneNoFallback ==
    /\ stage = "probe"
    /\ Len(answers) = Len(active)
    /\ active' = [i \in 1 .. Len(Reachable) |-> active[Reachable[i].of]]
    /\ stage' = "settle"
    /\ UNCHANGED <<found, file, raw, fatal, cfg, answers, runtimes, rebuilds>>

\* ProbeHealthyEndpoints returns the reachable ones, or all of them if none is.
ProbesDone ==
    /\ stage = "probe"
    /\ Len(answers) = Len(active)
    /\ active' = IF Reachable = <<>> THEN active
                 ELSE [i \in 1 .. Len(Reachable) |-> active[Reachable[i].of]]
    /\ stage' = "settle"
    /\ UNCHANGED <<found, file, raw, fatal, cfg, answers, runtimes, rebuilds>>

\* cfg from here on: the endpoints in use, and fragment for an unknown method.
Settled ==
    [cfg EXCEPT !.endpoints = active, !.method = IF @ \in Methods THEN @ ELSE "fragment"]

\* A name is too long.
SettleFails ==
    /\ stage = "settle"
    /\ ~ValidateSNIGuardrails(Settled)
    /\ Die("guardrails")
    /\ UNCHANGED <<found, file, raw, cfg, active, answers, runtimes, rebuilds>>

Settle ==
    /\ stage = "settle"
    /\ ValidateSNIGuardrails(Settled)
    /\ cfg' = Settled
    /\ stage' = "build"
    /\ UNCHANGED <<found, file, raw, fatal, active, answers, runtimes, rebuilds>>

-----------------------------------------------------------------------------
(* buildServerRuntimes *)

Upstream(l) == [ip |-> ResolveHost(l.ip), port |-> l.cport, sni |-> l.sni, enabled |-> TRUE]

RuntimeCount == IF cfg.listeners = <<>> THEN 1 ELSE Len(cfg.listeners)

\* Endpoints and method of the i-th call of buildSingleRuntime.
RuntimeEndpoints(i) ==
    IF cfg.listeners = <<>> THEN cfg.endpoints ELSE <<Upstream(cfg.listeners[i])>>

RuntimeMethod(i) ==
    LET given == IF cfg.listeners = <<>> \/ cfg.listeners[i].method = ""
                 THEN cfg.method ELSE cfg.listeners[i].method
    IN IF ToLower(given) \in Methods THEN ToLower(given) ELSE "fragment"

WantsInjectorAnyCount(i) == raw /\ RuntimeMethod(i) # "fragment"

\* The raw injector's filters and its registry are for one upstream.
WantsInjector(i) ==
    raw /\ RuntimeMethod(i) # "fragment" /\ Len(RuntimeEndpoints(i)) = 1

\* No endpoint is left; or wrong_seq has several, or no injector: none is possible, or its
\* Start failed.
BuildFails(i) ==
    /\ stage = "build" /\ i = Len(runtimes) + 1
    /\ RuntimeEndpoints(i) = <<>> \/ RuntimeMethod(i) = "wrong_seq"
    /\ Die(IF RuntimeEndpoints(i) = <<>> THEN "endpoints" ELSE "wrong_seq")
    /\ UNCHANGED <<found, file, raw, cfg, active, answers, runtimes, rebuilds>>

BuildSingleRuntimeLenient(i) ==
    /\ stage = "build" /\ i = Len(runtimes) + 1
    /\ RuntimeEndpoints(i) # <<>>
    /\ \E injector \in {FALSE, WantsInjector(i)} :
        runtimes' = Append(runtimes,
            [endpoints |-> RuntimeEndpoints(i),
             method |-> RuntimeMethod(i), injector |-> injector,
             lb |-> cfg.lb, auto |-> cfg.auto, retries |-> cfg.retries,
             criticalFailures |-> IF Len(RuntimeEndpoints(i)) > 1 THEN 8 ELSE 20])
    /\ stage' = IF i = RuntimeCount THEN "serving" ELSE "build"
    /\ UNCHANGED <<found, file, raw, fatal, cfg, active, answers, rebuilds>>

\* A method other than wrong_seq goes on without the injector if Start fails.
BuildSingleRuntime(i) ==
    /\ stage = "build" /\ i = Len(runtimes) + 1
    /\ RuntimeEndpoints(i) # <<>>
    /\ \E injector \in {FALSE, WantsInjector(i)} :
        /\ RuntimeMethod(i) = "wrong_seq" => injector
        /\ runtimes' = Append(runtimes,
            [endpoints |-> RuntimeEndpoints(i),
             method |-> RuntimeMethod(i), injector |-> injector,
             lb |-> cfg.lb, auto |-> cfg.auto, retries |-> cfg.retries,
             criticalFailures |-> IF Len(RuntimeEndpoints(i)) > 1 THEN 8 ELSE 20])
    /\ stage' = IF i = RuntimeCount THEN "serving" ELSE "build"
    /\ UNCHANGED <<found, file, raw, fatal, cfg, active, answers, rebuilds>>

\* The supervisor builds again from the same cfg, without reading or probing again.
Rebuild ==
    /\ stage = "serving"
    /\ rebuilds < MaxRebuilds
    /\ rebuilds' = rebuilds + 1
    /\ runtimes' = <<>>
    /\ stage' = "build"
    /\ UNCHANGED <<found, file, raw, fatal, cfg, active, answers>>

StartupNext ==
    \/ LoadFails
    \/ PortsFail
    \/ NoEndpoints
    \/ LoadNormalized
    \/ \E i \in 1 .. Len(active) : ProbeEndpoint(i)
    \/ ProbesDone
    \/ SettleFails
    \/ Settle
    \/ \E i \in 1 .. RuntimeCount : BuildFails(i) \/ BuildSingleRuntime(i)
    \/ Rebuild

StartupSpec == StartupInit /\ [][StartupNext]_startupVars

-----------------------------------------------------------------------------
(* Properties *)

\* Whatever the file says, every server main builds, at the start and again after each
\* rebuild, keeps what Forwarder assumes of its constants: an injector only for a single
\* endpoint and a method that waits for it, wrong_seq never without one, a known
\* balancing mode, and retries where failover is on.
RuntimesFitForwarder ==
    \A i \in 1 .. Len(runtimes) :
        LET r == runtimes[i]
        IN /\ r.method \in Methods /\ r.endpoints # <<>>
           /\ r.injector => Len(r.endpoints) = 1 /\ r.method # "fragment"
           /\ r.method = "wrong_seq" => r.injector
           /\ r.lb \in LoadBalanceModes
           /\ r.auto => r.retries > 0

\* A configuration the control service accepts does not stop the core that it then starts
\* with the same file, but for what the service cannot see or looks at in another way: a
\* missing file, which is DefaultConfig to the service only, top-level ports that Normalize
\* replaces, and raw injection.
ServiceVerdictHolds ==
    stage = "fatal" /\ ServiceAccepts =>
        \/ fatal = "load" /\ found = "missing"
        \/ fatal = "ports" /\ (file.listeners # <<>> \/ file.endpoints # <<>>)
        \/ fatal = "wrong_seq" /\ Len(RuntimeEndpoints(Len(runtimes) + 1)) = 1

\* The method of the i-th server as the file names it, in any spelling.
AsksForWrongSeq(i) ==
    LET own == IF file.listeners = <<>> THEN "" ELSE file.listeners[i].method
    IN ToLower(IF own = "" THEN file.method ELSE own) = "wrong_seq"

ServedStrictly(i) == runtimes[i].method = "wrong_seq" /\ runtimes[i].injector

\* A listener that asks for wrong_seq, by itself or by inheritance and in any spelling, is
\* served by it and with an injector or the core does not start; so is a file without
\* listeners, but only one that writes its method in lowercase (buildSingleRuntime ignores
\* case, and main has by then taken any other spelling for an unknown method).
StrictStaysStrict ==
    \A i \in 1 .. Len(runtimes) :
        /\ AsksForWrongSeq(i)
        /\ file.listeners = <<>> => file.method = "wrong_seq"
        => ServedStrictly(i)

\* Without listeners a server has all usable endpoints of the file, in their order, if
\* they were not probed; otherwise each one that answered, once, or all if none did, so
\* that probing alone never keeps main from serving.
ProbingOnlyRemoves ==
    LET all == EnabledEndpoints(Normalize(file).endpoints)
        up == {k \in 1 .. Len(all) : [of |-> k, ok |-> TRUE] \in ToSet(answers)}
    IN /\ fatal = "endpoints" => all = <<>>
       /\ \A i \in 1 .. Len(runtimes) :
            LET inUse == runtimes[i].endpoints
            IN file.listeners = <<>> =>
                 IF up = {} THEN inUse = all
                 ELSE /\ Len(inUse) = Cardinality(up)
                      /\ ToSet(inUse) = {all[k] : k \in up}

\* docs/examples.md:114, "strict failover ordering and startup endpoint probing": servers
\* that fail over do so in the order of the file.
FailoverInOrder ==
    \A i \in 1 .. Len(runtimes) :
        LET all == EnabledEndpoints(Normalize(file).endpoints)
            inUse == runtimes[i].endpoints
        IN file.listeners = <<>> /\ runtimes[i].lb = "failover" =>
            \A j, k \in 1 .. Len(inUse) :
                j < k => \E p, q \in 1 .. Len(all) :
                            p < q /\ all[p] = inUse[j] /\ all[q] = inUse[k]
====
