# A TLA+ development of snispf-core

snispf-core is a local TCP proxy.  It accepts a client's connection, reads the first payload
(a TLS ClientHello), opens a connection to a configured upstream, lets a *bypass strategy*
deliver that first payload, and then relays bytes in both directions.  Some strategies use a
*raw injector*: it watches the upstream handshake through a capture socket and puts a fake
ClientHello with an old sequence number on the wire.  A *supervisor* rebuilds the servers
after repeated failures, and an optional *control service* starts and stops the whole core
as a child process over HTTP.

The modules here model the parts that keep state and run concurrently, and the sequential
pieces whose boundaries are hard to test: what becomes of the configuration, of the client's
first bytes, and of the log's last lines.  TLC checks them on small instances, and TLAPS proves
the safety properties for all values of the constants, and most of the liveness properties
relative to stated hypotheses.  Paths and lines below are those of the repository, without the
leading `src/`.

## 1. Inventory

| component | state | operations | what is hard | what makes it correct |
|---|---|---|---|---|
| Linux raw injector, `internal/rawinjector/rawinjector_linux.go` | `ports` (port → `*portState`), each `portState` (SYN seen, fake scheduled, two channels), `running`, two descriptors | `RegisterPort`, `CleanupPort`, `WaitForConfirmationDetailed`, `sniffLoop`/`handlePacket`, one injection goroutine per flow, `Start`, `Stop` | packets are lost, repeated, foreign; pointers to a `portState` outlive its entry; the injection sleeps and retries; 32-bit wrap-around | at most one fake, never inside the stream; confirmation only for an own finished handshake; every flow hears of a failed injection |
| Forwarder, `internal/forwarder/server.go` | per connection: endpoint, attempt, reserved port, `registered`, upstream socket; per server: `failureStreak`, `restartSent`, `lbCounter` | `Run`, `handleConn`, `reserveTCPPort`, `pickBaseIndex`, `reportSuccess`, `reportFailure` | the kernel hands one port to two connections; many exit paths; atomics without a lock | each connection waits on its own entry; nothing is left behind; all endpoints are tried; a restart is asked for when due and once |
| Bypass strategies, `internal/bypass/` | none of their own | `Apply` of `fragment`, `fake_sni`, `combined`, `wrong_seq` | timeout, reset and confirmation race; writes fail midway | `wrong_seq` writes nothing unconfirmed; the payload's start is never delivered twice |
| Supervisor, `cmd/snispf/main.go` 227–320 | request channel of capacity one, generation of servers, error channel, restart burst | the `select` loop | old handlers and listeners outlive their generation; requests are dropped when one waits | each request leads to a rebuild, none to two; recovery does not kill the process |
| Control service, `internal/service/service.go` | `starting`, `child`, `childLog` under `mu`; the core process; HTTP server | `startCore`, `stopCore`, the reaper goroutine, interrupt and parent watch | the lock is dropped during a start; the reaper is late; the process may end under a goroutine | no running core is forgotten, no two run, a stop holds, exits are noticed |
| Log tail, `service.go` 312–365 | the file, `buf`, `tmp`, `pos` | `tailLines` | slices share an array; the log grows | the last lines are those of the file |
| Health and log filters, `service.go` 226–310, 387–444 | none | `/v1/health` recomputes the endpoints from the file; log lines are classified by substrings | the file is read again, by another process, and its names are looked up again | nothing ties the answer to the running core |
| Windows raw injector, `rawinjector_windows.go` | as on Linux, plus `localIPVal` and the wait group | as on Linux, plus `localIPRefreshLoop`; `Stop` waits for both loops | the address that guards packets changes between them; handles are closed under a handler | as on Linux; `Stop` returns, and nothing is captured after it |
| Fragmentation, `internal/tlsutil/fragment.go` | none; the pieces not yet written | `FragmentClientHello` and its strategies, between `handleConn`'s one read and the relay | TCP ends the read anywhere; the scan for the name knows no extension boundaries | the upstream gets the client's bytes, or records with the same contents; the name is cut |
| ClientHello builder and parser, `builder.go` | none | `BuildClientHello`, `ParseClientHello` | the padding's boundary | the fake is well formed, has one size, and scan and parser agree on its name |
| Configuration, `internal/config/` | none | `Load`, `LoadOrDefault`, `Normalize`, `EnabledEndpoints`, `ProbeHealthyEndpoints`, `ValidateSNIGuardrails`, `RunDoctor` | defaults, inheritance and precedence; probes end in any order; checks run before and after normalization | what is built is what the file asks for and what the forwarder needs |
| Command line, `cmd/snispf/main.go` | `cfg`, `activeEndpoints`, the `serverRuntime`s | the stages of `main` up to the supervisor, `buildServerRuntimes`, `buildSingleRuntime` | an injector may fail to start after other listeners were built | `wrong_seq` or nothing; the service's verdict on a file holds |
| netutil, logx, platform, interactive configuration, scripts | – | – | – | – |

Interactions: `main` builds one forwarder (and for a single endpoint one injector) per
listener.  A connection's goroutine calls the injector (register, wait, clean up) and shares
its registry with the sniffer.  A forwarder calls back into the supervisor
(`OnCriticalError`), which cancels the forwarders' context and stops the injectors.  The
control service knows the core only as a process and a log file, and the configuration only
as a file both of them read.

## 2. Modules

| module | models | on top of |
|---|---|---|
| `RawInjector` | the Linux raw injector | – |
| `ConfirmationGate` | abstract: what `wrong_seq` promises a connection | – |
| `WindowsInjector` | the Windows raw injector | `RawInjector` (same state, and the handlers that are the same) |
| `Forwarder` | `handleConn`, the strategies, kernel, upstream | `RawInjector` (same state, its operations are parts of the forwarder's actions) |
| `Supervisor` | the recovery loop and its servers' listeners | – |
| `ControlService` | start, stop, reaper, shutdown | – |
| `Places` | the loops that append the elements passing a test, without recursion | – |
| `TailLines` | `tailLines` | `Places` |
| `ClientHello` | the ClientHello's builder and parser, on bytes | – |
| `FirstFlight` | the first read, `FragmentClientHello`, the writes, the relay | `ClientHello` |
| `Startup` | `internal/config`, `main` up to the servers, the service's view of the file | `Places` |
| `RawInjectorProofs`, `WindowsInjectorProofs`, `ForwarderProofs`, `SupervisorProofs`, `ControlServiceProofs`, `StartupProofs` | inductive invariants and theorems | the module of that name |
| `ConnectionProofs` | theorems about failover, recovery, what decides a flow, and that attempts end | `ForwarderProofs` |
| `SequentialProofs` | theorems about log tail, builder, first flight and where the name is cut | `TailLines`, `FirstFlight`, `StartupProofs` (lemmas about `Places`) |
| `MCInjectors` | both builds of the injector in one run | `WindowsInjector` |
| `MCSequential` | log tail, first flight and startup, one of them in each behaviour | `TailLines`, `FirstFlight`, `MCStartup` |
| `MCStrict` | two `wrong_seq` connections, on ports of their own or one after the other on one | `MCForwarder` |
| `MCProcesses` | supervisor and control service, one of them in each behaviour | `Supervisor`, `ControlService` |
| the other `MC…` | values of constants for TLC | the module of that name |

Definitions named `…NoWrap`, `…NoCAS`, `…Clobbers` and the like stand directly before the
definition they vary: each is a plausible mistake in that piece of code, used to show that a
property would notice it.  They are part of no specification.

### RawInjector

A member of `Flows` is one `portState` object; `ports` is the map, `held` the pointer the
sniffer keeps between its lookup and its update, `inj` the injection goroutine.  A packet is
abstracted to its direction, one of four shapes, the local port, the sequence or
acknowledgment number that decides, and whether the local address is ours.  `Receive`,
`Lookup` or `LookupMisses`, and one action per branch of `handlePacket` are separate steps,
because the locks are: registration, cleanup and `Stop` come in between.  The injection
goroutine is `Inject`, `InjectFails`, `RetryFails`.  Sequence numbers are taken modulo
`SeqMod` (2^32 in the code).

Left out: choosing the interface and route, promiscuous mode, the descriptors'
numbers, capture statistics, the fields kept for debugging, and checksums and header layout of the frame.
The sniffer may take one more packet after `Stop` has cleared `running`; this is the same as
taking the packet just before, so `Receive` (and `WinReceive`) asks for `running`.

### WindowsInjector

The state of `RawInjector` plus the address, the two goroutines the wait group counts, and
whether `Stop` has returned.  What the two builds do alike is the same action (`OutboundSyn`,
`OutboundAckTrigger`, `InboundAck`, `InboundRst`, `Inject`); what differs has one of its own:
`WinOwnPacket` compares with the address at the time the packet is handled, which
`RefreshTick` may have changed since the one before; `WinAckIgnored` only skips what Linux
counts as a mismatch; `WinInjectFails` gives up at the first failure; `StopReturns` waits.

Left out: WinDivert filters, DLL loading, opening the handles, checksums.

### Forwarder

`pc[f]` is where the connection's goroutine stands; one action is one blocking call or one
access to shared state.  The kernel is part of the model: it hands out ports (`Reserve`,
possibly one it gave to somebody else before, if `PortReuse`), sends the SYN and the
handshake ACK (`Dial`, `DialOk`), repeats ACKs (`KernelAck`), and shows every segment to the
capture socket, whose queue holds `MaxCapture` packets and may drop any.  `ServerAck`,
`ServerRst` and `ForeignPacket` are the upstream and other hosts.  The four strategies are
distinguished by `Waits`, `Decoy`, `Splits` and `AfterWait`.  `tried`, `rst`, `acked`
and `inj[f].sends` are history and have no counterpart in the code.  `OnPortOf(f)` are the
connections with `f`'s local port that have got as far as a socket, open or closed.

`UseInjector` implies one endpoint, because `buildSingleRuntime` creates an injector for one
endpoint only; hence a connection registers at most once, and `Flows` serves for both
connections and `portState` objects.

### Supervisor

A generation is the set of servers built together.  The error channel belongs to a
generation (`errs`), the request channel does not (`request`).  `Listen` and `CloseListener`
are what the operating system sees.  `Recover(rapid)` is the third case of the `select`:
time is only whether 20 seconds have passed since the previous request.  `ListenFails` knows one
reason, an address that another listener of the process still holds; other owners of the address,
and names that do not resolve, end the process in the same way and are left out.

### ControlService

Each critical section of `mu` is one action; between them a start may be anywhere.  A core
is an `exec.Cmd` and its process; `Collect` is `Wait`'s return (and `ProcessState`), `Reap`
the critical section after it.  `MainReturns` ends all of the service's goroutines, wherever
they are.

What the watcher sees of the parent is `ParentCheck`: nothing on every platform but Windows, where
`parentProcessAlive` always says yes (`parent_watch_other.go`); on Windows, whether the PID is in use,
and with `--service-parent-start-unix-ms` whether by the same process.  `PidChangesHands` gives the PID of
a parent that ended to another process, or takes it from that one.  The two seconds by which the
start may be off are left out: a process that gets the PID within them counts as the parent.

A request accepted before `Shutdown` may come to its critical section while the service is closing;
`StartCheck` and `HandleStop` therefore ask only for a service that has not ended.

### TailLines

A byte is a line feed or one of two others.  `shared` says that `buf` is a slice of `tmp`:
that is what `append(tmp[:n:n], buf...)` returns when `buf` is empty.

### ClientHello and FirstFlight

Bytes are numbers; whatever nobody looks at later is a filler, zeros and lengths are kept, as
`FindSNIOffset` scans for zeros.  `ServerName` is the parser's walk over the extensions, a
recursive function on the position.  In `FirstFlight` the action `ReadFirstBytes` is the one
`Read` of `handleConn` and cuts what it returned; `WriteFragment` is a turn of the loop in
`Apply`, `RelayRest` the relay's copying, as one step.  The fragments' delays are left out.

### Startup

A configuration is a record of the fields that decide something; an address, name or port is
one of a few values, and `bad` stands for four settings only the doctor looks at.  Each stage
of `main` is an action, and so is each way it can end with `log.Fatal`.  `ProbeEndpoint` is the
end of one probe, `BuildSingleRuntime` one call of that function, whose injector may fail to
start; `Rebuild` is what the supervisor asks for.  `ServiceAccepts` is what the control service makes
of the same file.  A flag of the command line changes the record after it was read, which gives
another record.

`ResolveHost` is a lookup that each call, in each process, may answer with another address.  The
model has one value for all of them, of which it uses only that it is not empty: no
property compares two of them.  The health handler, which resolves the file's names again at each
request, is not modelled for that reason.  The test for an empty list of endpoints stands before the
probes in `main` (line 181) and again in `buildSingleRuntime` (394); the model has the two
(`NoEndpoints`, `BuildFails`) at their places.

## 3. Properties and runs

Every property of a passing run is paired in `PROJECT.json` with a variation of one
definition under which TLC finds it violated in that same run.

| run | instance | shows |
|---|---|---|
| `injectors` | each build of the injector with 1 flow, 1 port, 3 sequence numbers, any packet, any caller, `Stop` at any time | `OneFakePerFlow`, `FakeBelowStream`, `ConfirmNeedsTrigger`; `FakeSettles`: a scheduled fake is sent or its flow marked failed; `StopCompletes` and `QuietAfterStop` on Windows |
| `forwarder_strict` | `wrong_seq`, 2 connections, one unsolicited packet (reset, repeated ACK, foreign ACK or RST); either on 2 ports at the same time with a capture queue of 1, or on one port, the second when the first has relayed or failed, with a queue of 2 and a server that may speak first (its early ACK is the unsolicited packet) | `StrictGate`, `ConfirmedByUpstream`, `FailureIsOwn`, and `ImplementsGate`: the refinement of `ConfirmationGate` |
| `forwarder_lenient` | `combined` with injector, 2 connections fighting for one port that is reused | `WaitsOnOwnState`, `EverythingReleased`, `ConnectionsSettle` |
| `forwarder_recovery` | `combined` with the TTL decoy, without injector, 3 connections, 2 endpoints in turn, threshold 2 | `GivesUpAfterAll`, `RestartJustified`, `NoLostRestart`, `OneRestartPerOutage`, `PayloadOnce` |
| `processes` | supervisor: 2 listeners, burst limit 1, 2 requests | `RebuildsAnswerRequests`, `EscalationAnswered`, `ServesOrEnds` |
| | control service: 2 cores, 2 concurrent callers, kills may fail, Windows with start timestamp | `NoUntrackedCore`, `OneCoreAtATime`, `StopHolds`, `CoreExitNoticed`, `StartsUnblock`, `FollowsParent` |
| `sequential` | all logs of up to 7 bytes, chunks of 3, up to 3 lines | `OneChunkSuffices`, `EarlierChunksExact` |
| | 13 clients' first flights, six strategies, the read ending anywhere | `StreamUnchanged`, `WholeRecordSurvives`, `SniIsCut`, `DecoyIsPlausible` |
| | 3840 configuration files (and a missing or broken one), with and without raw injection, injectors that fail to start, all orders of up to three probes, one rebuild | `RuntimesFitForwarder`: what is built is what `Forwarder` assumes; `StrictStaysStrict`; `ServiceVerdictHolds`; `ProbingOnlyRemoves` |

Six runs end with a counterexample; each checks a statement of the repository that the code
does not keep:

* `uncounted_failures`: CHANGELOG.md:31 and README.md:240 promise a rebuild after repeated
  confirmation failures, but `wrong_seq` returns at `server.go:222` without counting them.
* `tail_aliasing`: `tailLines` (`service.go:349`) overwrites the last chunk of the log when it
  has to read a second one, so it does not return "lines from the end of path".
* `rebuild_race`: a rebuild can lose against the old listener's close and end the process
  with "address already in use", where README.md:240 announces a recovery step.
* `record_split`: `tls_record_frag` (`fragment.go:69`) takes the first read for one TLS record.
  If it holds less or more, headers and lengths no longer add up, although `fragment.go:9`
  wants nothing "sliced into bogus records".
* `probe_order`: `ProbeHealthyEndpoints` (`normalize.go:156`) returns the endpoints in the order
  their probes ended, where `docs/examples.md:114` has "strict failover ordering and startup
  endpoint probing".
* `eager_server`: `docs/api-contract.md:139` says of `confirmed` that the "upstream acknowledged the
  fake sequence".  `fakeSent` is set when the injection is scheduled (`rawinjector_linux.go:711`), so
  that a server that speaks first confirms the flow before the fake is on the wire.

The models take the code's side where a document says something else about single steps:

* `docs/api-contract.md:141` explains the status `failed` by "Upstream sent RST".  An injection that
  cannot send (`rawinjector_linux.go:736`) and a second mismatching ACK (708) set it too.
* `docs/internals.md:189` has the service follow its parent.  `parentProcessAlive` always says yes off
  Windows (`parent_watch_other.go:8`), see `FollowsParent` below.
* `docs/internals.md:182` has a stop signal and a grace period; `stopCore` kills at once
  (`service.go:533`).
* `docs/internals.md:42` has the core "generate defaults" without a configuration file; `main` ends
  (`main.go:138`).  `docs/internals.md:201` calls `round_robin` the default; an empty `LOAD_BALANCE`
  becomes `failover` (`normalize.go:32`).
* The doctor takes a top-level `WRONG_SEQ` for `wrong_seq` (`validate.go:113`, `190`), and so does each
  listener that inherits it; without listeners `main.go:192` finds the method unknown and serves
  `fragment`, with a warning.

### Why the bounds are enough

* Flows and packets: the injector touches one `portState` per packet, so that flows interact
  only through the registry; that takes one port and two connections (`forwarder_lenient`).
  Three sequence numbers with a fake of two wrap around in both directions; all
  other numbers are the theorems' part.
* `MaxCapture` is 1 where loss and order matter least: as the queue may drop any packet and
  the sniffer is one goroutine, each packet may still arrive before or after any step of
  the connections.  `MaxNoise` counts packets nobody asked for; one is enough for each of
  the hazards in question (a reset, a repeated ACK, a foreign packet), and `injectors`
  admits any number of any kind.
* `forwarder_strict` has an `ACTION_CONSTRAINT`, `MCStrict`'s `OwnOrOnePort`, which admits the steps of
  two arrangements, as everything at once has too many states: late packets need a shared port and
  a queue of two, concurrent waits need two ports.  Two connections that hold on to one port at the same time are `forwarder_lenient`'s part.
  The exception that `ConfirmedByUpstream` and `FailureIsOwn` make for a shared port is used: with
  the connection's own packets only, TLC finds either one violated.
* Three connections and a threshold of two give a failure, the deciding failure, and one
  that races with them (or a success between them).
* Two listeners and two requests cover a merged, a late and a repeated request.
* Two cores: one to be stopped or to die, one started meanwhile; a launch needs an unused
  core, so the bound limits only how many starts succeed.
* Logs of 7 bytes in chunks of 3: two full chunks and a partial one.
* The clients' hellos are short, with the server name first, last, between extensions of
  length zero, or absent, one with a session id whose zeros the scan takes for the server name, one
  followed by another record and one cut into two, and what is not TLS; the read ends after each
  of their bytes.  The fakes are for names of 1, 100, 219 and 220 letters; 219 is the longest name that leaves room for the
  padding, and the guardrails' limit.
* The configuration files combine eight lists of endpoints, four of listeners, six methods and
  probing with ten variations of the top-level fields; three endpoints are enough for one
  between others to be unreachable, and two listeners for the second to fail.

### Fairness

`Forwarder`: weak fairness of each connection's own steps; reads have a deadline of 30
seconds, dials time out, the wait has a timer.  No fairness for clients, the upstream, the
network, the sniffer, or the end of a relay: a connection settles even if no packet
is ever captured.  `RawInjector` and `WindowsInjector`: a received packet is handled, an
injection goroutine runs on, and on Windows the closed handle ends the sniffer, the next tick the
refresh loop.  `Supervisor`: goroutines and ready `select` cases.  `ControlService`: the one start
that the flag lets through, reapers and shutdown goroutines; a killed process dies; nobody has to
call, to interrupt, or to end.  The safety runs use `SafetySpec`, without fairness.

Deadlock is checked for the injector and the forwarder (`Finished` is the one legal end).
In the others the system may stop: the process exits, the file is read, the bytes are relayed, the
servers run, the cores of the instance are used up.

### Assumptions behind single properties

* `RestartJustified` and `OneRestartPerOutage` count failed connections, not outages as a user
  would see them: when a lenient strategy fails, `handleConn` falls back to a direct write, drops
  that write's error (`server.go:226`) and reports a success.  Such a success re-arms the restart
  although nothing was sent, so that several restarts may fall into one outage; each still costs
  a failed connection of its own.
* `ConfirmedByUpstream` and `FailureIsOwn` assume that the local address is known
  (`LocalIPKnown`), without which packets of a host behind this one pass for the connection's, and
  that foreign packets do not carry it.  They do not say that the packet was meant for this
  connection: the kernel hands out a port again, the registry knows ports only
  (`rawinjector_linux.go:766`, `779`), and late packets of the former owner confirm or fail the new
  one.  Nor does `ConfirmedByUpstream` say that the fake was acknowledged; that is `ConfirmedAcksFake`,
  which does not hold.
* `NoUntrackedCore`, `OneCoreAtATime` and `StopHolds` except cores whose `Kill` failed:
  `stopCore` forgets them.  `StopHolds` is about stops that overlap with no start; one that
  does returns success and misses the core.  `NoUntrackedCore` is about a service that lives: when
  `main` returns before `stopCore` ran, the core goes on and nobody can stop it.
* `FollowsParent` is about a watcher that can see the parent, which is Windows only, and without a
  start timestamp excepts a PID that another process has taken.  The run has the timestamp, the
  theorem covers every `ParentCheck`.
* `WholeRecordSurvives` assumes a first read of exactly one TLS record; without that it is
  `RecordsSurvive`, which does not hold.
* `SniIsCut` excepts first reads in which something before the name looks like a server name
  (`NameComesFirst`).  `FindSNIOffset` (`fragment.go:29`) tries every place from the front
  and knows no boundaries, so that zeros of the session id, or elsewhere before the extension, can
  pass for it, and then the cut is somewhere else.  One of the run's streams is like that.  Of the
  hellos this program builds none is (`BuiltNamesComeFirst`).
* `DecoyIsPlausible` promises 517 bytes up to names of 219 letters, the guardrails' limit; with a
  longer one the padding has no room for its header, and the size follows the name's.
* The properties of `Startup` take the service and the core to read the same file: it may be edited
  in between, and then the service's verdict is about another one.
* `ServiceVerdictHolds` names the cases in which the service accepts a file that the core
  refuses: a missing file (`LoadOrDefault` against `Load`), a top-level port that only
  normalization would have replaced (`main.go:173`), and `wrong_seq` for a single endpoint
  without a working injector, which the doctor cannot see.
* `StrictStaysStrict` holds for every listener, in any spelling and by inheritance too; of files
  without listeners it speaks only of those that spell the method in lower case, see
  the list above.

## 4. Proofs

All theorems hold for any number of flows, ports, connections, listeners, cores and callers,
under the named `ASSUME`s of the modules, which every run evaluates.

* **Injector.** `InjectorInv` = `InjectorTypeOK` ∧ `HeldHasPacket` ∧ `Progress`.  None of the
  properties is inductive alone: that only one fake is sent needs `Progress`, which
  ties the goroutine's stage to `fakeSent` and its count to the stage; that the fake ends
  below the stream needs in addition that `isn` is the number before the template's, which
  the trigger's test established at that time, whatever `synSeq` has become since.
  `SeqArithmetic` and `FakeEndsAtNext` are the modular arithmetic.
  Results: `InjectorTypeCorrect`, `AtMostOneFake`, `FakeNeverInStream`,
  `ConfirmationNeedsTrigger`, and `FakesSettle` (liveness, below).
* **Windows injector.** `WindowsInv` = `InjectorInv` ∧ `WindowsTypeOK` ∧ `Winding`.  The handlers
  it shares with Linux keep `InjectorInv` by the lemmas of `RawInjectorProofs`; only its own
  (`WinLookup`, `WinAckIgnored`, `WinInjectFails`) need an argument, and none depends on the
  address.  `Winding` (the sniffer takes its packet with it when it ends, and `Stop` returns
  after both loops) gives the action property.  Results: `WindowsOneFake`,
  `WindowsFakeNeverInStream`, `WindowsConfirmationNeedsTrigger`, `WindowsQuietAfterStop`, and of
  liveness `WindowsFakesSettle` and `WindowsStopCompletes`.
* **Forwarder.** `Inv` = `ConnInv` ∧ `InjectorInv`.  `Registry` is the heart: an entry of the
  map is exactly the port of a connection whose flag is up.  From it, together with `Stages`
  (what holds at which stage of `handleConn`), follow `WaitIsOwn` and `NothingLeftBehind`;
  `Gated` gives `StrictGateHolds`.  `ForwarderUsesInjector` shows that every step is a step
  of `RawInjector` or leaves it alone, so that the injector's theorems apply.
  `ForwarderImplementsGate`, under `Strategy = "wrong_seq"`, shows the refinement: a step of
  one connection changes at most its own gate, and only along shut → unlocked → open →
  closed.
* **Recovery** (`ConnectionProofs`).  `RecoveryInv` = `AttemptTypes` ∧ `SwitchTypes` ∧ `Attempts`
  ∧ `Fragments` ∧ `Delivered` ∧ `Counting`, on top of the forwarder's `Inv`.  `Attempts` says
  that the first `att` indices from `base` on, modulo the number of endpoints, are in `tried`, from
  which `EveryEndpointTried` follows by modular arithmetic.  `Counting` relates the streak, the
  switch `restartSent` and the restarts to the sets of connections that are between the atomic
  add, the test and the compare-and-swap: the streak never exceeds the failures counted since a
  success, and whoever reaches the threshold either asks or finds the switch set.  Neither
  `RestartJustified` nor `OneRestartPerOutage` is inductive without it, because the streak and the
  switch are two atomics that other connections reset in between.  `Delivered` and
  `Fragments` give `PayloadIsSentOnce`.  Results: `ForwarderTypesHold`, `EveryEndpointTried`,
  `RestartIsJustified`, `NoRestartIsLost`, `OneRestart`, `PayloadIsSentOnce`, for every strategy.
  `Rank` counts the steps an attempt has at most before it, from 19 down, and `AttemptsEnd`
  says that each attempt of each connection ends, by going on to the next endpoint, relaying or
  returning; of attempts there are no more than endpoints.  `ConnectionsEnd` is
  `ConnectionsSettle` for one endpoint, which is what a forwarder with an injector has.
* **What decides a flow** (`ConnectionProofs`).  `TrafficInv` = `Settled` ∧ `Queued` ∧ `Verdicts`.
  `Queued`: a packet of this host, in the queue or in the sniffer's hands, is one of some
  connection's with that port, and was sent when its protocol allowed it (`PacketOf`), however
  long ago.  `Verdicts`: a confirmation has such a connection behind it, and as long as nobody else
  has had a socket on the port (`Alone`) what was concluded about a flow was concluded from its
  own packets.  Neither can be said about the sniffer's conclusions alone, as the packet they rest
  on may be older than the entry it is looked up in; that whoever has shared the port stays on
  record is `CompanyLasts`.  Results: `ConfirmationIsUpstreams`, for every strategy, and
  `FailureIsItsOwn`; both assume only `LocalIPKnown`, and admit reused ports and servers that
  speak first.
* **Control service.** `Inv` adds to the type invariant that the flag `starting` serializes
  the calls (`Starts`), that a reaper that has collected knows its core dead
  (`Reapers`), that a start replaces only collected children (`Replaces`), and what a lone
  stop leaves (`Stopped`).  Results: `ServiceTypeCorrect`, `CoresAreTracked`, `AtMostOneCore`,
  `StopIsEffective`.  Liveness: `ParentIsFollowed`, on each platform as far as its watcher sees the
  parent; `ExitsAreNoticed` (with `Watched`: the child has a reaper that is
  not done, a core still held by its caller has none yet) and `StartsReturn`.
* **Supervisor.** `Inv` = type ∧ `Living` ∧ `RebuildsAnswerRequests`; a rebuild finds a free
  generation because it was asked for.  Results: `SupervisorTypeCorrect`,
  `EveryRebuildWasAskedFor`.  Liveness: `RecoveryIsAnswered` (with `Answering`: a server of the newest
  generation that asked has a request in the channel or a rebuild under way, also when its own
  request was dropped) and `ListenersSettle`.
* **Startup.** `ServersFitForwarder` needs of `cfg` only that its scalar fields were settled
  (`NormalizeSettles`) and its endpoints are not empty when building begins: no list of
  endpoints is looked into.  `WrongSeqOrNothing` adds `CfgFollows`: that `cfg` still has as many
  listeners as the file, each with the method it asked for, through all stages and rebuilds.
  The other two look into the lists.  `Collected` says what `ElementsAt` returns: the
  elements that pass, each at the number of its place; it rests on `KthIsPlace` and
  `KthIsUnique`, which are proved by a least counterexample (`LeastNumber`), the one form of
  induction used.  `ProbeInv` ties the answers so far to the endpoints probed (each answered at
  most once), so that `Reachable` is a part of `active`; `ServedInv` follows the endpoints of
  each runtime back to the file; `EndInv` says with which verdict of the doctor each way of
  ending is compatible.  Results: `ProbingNeverEmpties`, `AcceptedFilesServe`.
* **Log tail.** `TailInv`: `pos` and `filled` divide what the file held at `Stat`, and a buffer of its
  own holds the file's bytes up to its last chunk, which is the part a later read clobbers.  The
  properties are about the end of the loop only, so the invariant has to say what holds between
  two reads.  `OneChunkInv` adds that after the first chunk nothing was clobbered yet.  That the
  last lines of a file's end are the last lines of the file (`LastLinesOfJoined`) is a fact about
  `Lines`, proved for all sequences from where the line feeds are.  Results: `ChunksAreTheFile`,
  `OneChunkTail`.
* **First flight.** `Cuts(fs, d, c)`: the pieces are what lies between the places `c`, which grow
  from one to the next and end with `d`; `FragmentsHoldAll` shows it for every strategy that
  writes no headers, whatever the scan for the name found (`ScanStaysInside`).  `FlightInv` says that
  the upstream has the first `n` bytes of the read and the pieces hold the rest from there:
  `StreamUnchanged` does not mention the pieces and is not inductive.  `RecordInv` says the same
  of the two records `tls_record_frag` makes.  What they carry is what `Contents`, a recursive
  function over the bytes, returns.  No induction is available, but its uses can be had from a least
  counterexample: `TurnsAre`, the function exists and at each place is what its definition says;
  `RestIsTheSame`, what it returns for a place does not depend on the bytes before it.  With these
  the two records' payloads are the first record's (`ContentsSurvive`); the halves' lengths fit into
  two bytes because the whole one's, read from two bytes, does (`WordFits`).  Where the
  name is cut needs no invariant beyond `CutInv` (the two pieces are those of the first read) but a
  chain of facts about bytes: what the parser finds it finds at the start of an extension of type
  zero (`WalkFindsName`, again by a least counterexample), which is a place where the scan
  stops (`ParserFindsName`), and no earlier place is where `NameComesFirst`, so both agree
  (`ScanAgrees`), and `FragmentAtSNI` cuts in the middle of what the scan found.  Results:
  `BytesArriveUnchanged`, `RecordsReachTheServer`, `NamesAreCut`.  The last has no hypothesis beyond what
  `SniIsCut` itself says, and `BuiltNamesComeFirst` shows that the exception there is none for the
  hellos of `BuildClientHello`, for names of 1 to 250 letters.
* **Builder.** `HelloLength` computes the fake's length for every name from the lengths of its parts,
  and `HelloIsOneRecord` says that it is one handshake record and nothing else, as far as two bytes
  can hold the record's length.  For names of up to 250 letters the parser and the scan find the
  name in it, at the same place: every extension before or after it is passed over or silent
  (`FixedAreSilent`, `KeyShareIsSilent`, `PaddingIsSilent`), and a first read that ends early
  changes neither answer (`PrefixParses`, `PrefixScans`).  Result: `DecoysLookReal`.

The type invariants of the control service and the supervisor are proved and not run.

### Liveness

The prover treats `ENABLED` as an opaque formula, so no theorem here says by itself that something
happens.  Each of the ten liveness theorems has a hypothesis `…CanStep`: whenever a stated guard
holds, the fair action is enabled.

| hypothesis | guard | why the action can be taken then |
|---|---|---|
| `InjectionCanStep`, `WinInjectionCanStep` | the fake is scheduled, on Linux also failed once | an injection fails if it does not succeed |
| `LoopsCanStep` | a packet was received; `Stop` closed the handles and there is none | every packet has a handler; a loop still running ends, or `Stop` returns |
| `ConnCanStep` | the connection is neither idle, relaying nor over | reads, dials and waits time out, and every call returns or fails |
| `SupervisorCanStep` | a rebuild is under way, or a `select` case is ready | one of the cases is that one |
| `ServerCanStep` | a listener is starting | `Listen` succeeds or reports its error |
| `ReaperCanStep` | the process is dead, or collected | `Wait` returns; `mu` is held by nobody between two steps |
| `StartCanStep` | a start is under way | each of its stages has a way to go on or to fail |
| `ShutdownCanStep` | an interrupt, the watcher or the server's close is under way | none of these waits for anything but the lock |

They are claims about the shape of the guards, argued in the last column and checked by nothing
here: no run has them as a property.  TLC checks the liveness properties themselves, without
hypotheses.  From them the arguments are: `FakesSettle`, `WindowsFakesSettle` and
`WindowsStopCompletes`, that a step which is not the fair one leaves what is left to do as it was
or makes it less; `RecoveryIsAnswered` and `ListenersSettle`, that an error or a request stays in its
channel until the `select` takes it, whichever case it takes first; `ExitsAreNoticed`, `StartsReturn`
and `ParentIsFollowed`, the stages of one goroutine, which the others cannot turn back, or which
the end of the process makes irrelevant; `AttemptsEnd`, that every step of a connection lowers
its `Rank` or ends the attempt, and nobody else changes it.

### Only model-checked

* `ConnectionsSettle` with several endpoints: each attempt is proved to end, and there are at most
  as many as endpoints, but adding up their number is an induction over a temporal formula, which
  the provers cannot instantiate and for which a least counterexample is no substitute.

## 5. Not modelled, and the plan

Next: the composition of supervisor and forwarder (several generations of real connections), and
the OpenWrt watchdog's hold window against the supervisor.

Not modelled, and why:

* The level filter of `/v1/logs` and the counters of `/v1/health` classify formatted lines by
  substrings; they keep no state, and what they count depends on wording and on the log level
  (a confirmation is logged at debug level only).
* `FragmentData` and `BuildClientResponse` are called by tests only.
* `PrecedenceWarnings` and the texts of the doctor's issues are output; the one-shot commands
  (`--info`, `--generate-config`, `--config-doctor`), the interactive configuration, logging,
  platform probes and installers are sequential input and output.
* `ParseHostPort` and the route lookup keep no state.
* Durations.  A timeout may expire at any moment; `statsLoop`'s delay of up to 30 seconds in `Stop`
  on Linux does not appear, nor the fragments' delays.
* Whether `restartBurst` should count requests of replaced servers: the code does, so that late
  requests of four listeners of one generation end the process; no document says what the limit
  is per, and no property is stated.
* Descriptor reuse after `Stop`, and the width of `int` in `pickBaseIndex`, are below the models.
