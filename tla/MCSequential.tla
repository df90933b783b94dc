---- MODULE MCSequential ----
(* The parts of the program that share no state with connections and processes, one of
   them in each behaviour. *)
EXTENDS TailLines, FirstFlight, MCStartup

VARIABLE part

MCLimits == 1 .. 3

\* A short hello: session id, one suite, then these extensions.
Hello(sid, exts) ==
    LET es == FlattenSeq(exts)
    IN Record(22, Handshake(<<3, 3>> \o Filler(32) \o <<Len(sid)>> \o sid
                              \o <<0, 2, 19, 1, 1, 0>> \o TwoBytes(Len(es)) \o es))

Sni(n) == BuildSNIExtension(Filler(n))
Ems == Extension(23, <<>>)
Ticket == Extension(35, <<>>)
Shares == Extension(51, Filler(3))

\* Server names before, between and after empty extensions, whose zeros the scan meets
\* first; a session id that it takes for the server name; no name; other first bytes; a
\* hello followed by, or cut into, another record.
MCStreams ==
    LET plain == Hello(<<>>, <<Sni(2)>>)
        body == SubSeq(plain, 6, Len(plain))
    IN { plain,
         Hello(<<9, 9>>, <<Ems, Sni(3), Shares>>),
         Hello(<<>>, <<Ticket, Ems, Sni(2), Ems>>),
         Hello(<<0, 0, 0, 6, 9, 9, 0, 0, 1, 9>>, <<Sni(3)>>),
         Hello(<<0, 0>>, <<Shares, Ems>>),
         plain \o Record(23, Filler(4)),
         Record(22, SubSeq(body, 1, 30)) \o Record(22, SubSeq(body, 31, Len(body))),
         Filler(12), Record(22, Filler(2)) }

MCReadSizes(s) == IF Len(s) > 200 THEN {40, 130, Len(s)} ELSE 1 .. Len(s)

TailIdle == /\ log = <<>> /\ maxLines = 1 /\ size = 0 /\ pos = 0 /\ tmp = <<>> /\ shared = FALSE
            /\ own = <<>> /\ filled = 0 /\ result = <<>> /\ pc = "idle"
FlightIdle == /\ stream = <<>> /\ fragmentStrategy = "none" /\ first = <<>> /\ frags = <<>>
              /\ received = <<>> /\ flightPc = "idle"
StartupIdle == /\ found = "missing" /\ file = DefaultConfig /\ raw = FALSE /\ stage = "idle"
               /\ fatal = "" /\ cfg = DefaultConfig /\ active = <<>> /\ answers = <<>>
               /\ runtimes = <<>> /\ rebuilds = 0

SequentialInit ==
    \/ part = "tail" /\ Init /\ FlightIdle /\ StartupIdle
    \/ part = "flight" /\ FlightInit /\ TailIdle /\ StartupIdle
    \/ part = "startup" /\ StartupInit /\ TailIdle /\ FlightIdle

SequentialNext ==
    \/ part = "tail" /\ Next /\ UNCHANGED <<flightVars, startupVars, part>>
    \/ part = "flight" /\ FlightNext /\ UNCHANGED <<vars, startupVars, part>>
    \/ part = "startup" /\ StartupNext /\ UNCHANGED <<vars, flightVars, part>>

SequentialSpec == SequentialInit /\ [][SequentialNext]_<<vars, flightVars, startupVars, part>>
====
