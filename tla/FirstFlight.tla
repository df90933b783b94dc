---- MODULE FirstFlight ----
(***************************************************************************)
(* How the client's first bytes reach the upstream: handleConn reads once, *)
(* FragmentClientHello (internal/tlsutil/fragment.go) cuts what that read  *)
(* returned, the loop in Apply writes one piece after the other, and the   *)
(* relay sends all that follows.  TCP may end the read anywhere.           *)
(***************************************************************************)
EXTENDS ClientHello

CONSTANTS
    Streams,        \* what clients send ...
    NameLens,       \* ... or a hello as the builder makes it, for names of these lengths
    ReadSizes(_)    \* bound: how much of a stream the first read may return

AllStreams == Streams \union {BuildClientHello(Filler(n)) : n \in NameLens}

ASSUME FlightAssumption ==
    /\ NameLens \subseteq Nat
    /\ \A s \in Streams : s \in Seq(0 .. 255)
    /\ \A s \in AllStreams : ReadSizes(s) \subseteq 1 .. Len(s)

FragmentStrategies == {"none", "sni_split", "half", "multi", "tls_record_frag", "other"}

VARIABLES
    stream,     \* all the client sends
    fragmentStrategy,
    first,      \* the first read
    frags,      \* the pieces not yet written
    received,   \* what the upstream has received
    flightPc

flightVars == <<stream, fragmentStrategy, first, frags, received, flightPc>>

-----------------------------------------------------------------------------
(* FragmentClientHello *)

\* Does the scan take position pos for the start of a server name extension?
SniExtensionAt(d, pos) ==
    /\ d[pos] = 0 /\ d[pos + 1] = 0
    /\ Word(d, pos + 2) \in 5 .. 255
    /\ d[pos + 6] = 0
    /\ Word(d, pos + 7) \in 1 .. 255
    /\ pos + 8 + Word(d, pos + 7) <= Len(d)

\* The first such position gives the name.
FindSNIOffset(d) ==
    LET starts == {pos \in 1 .. Len(d) : pos + 10 <= Len(d) /\ SniExtensionAt(d, pos)}
    IN IF starts = {} THEN NoName
       ELSE LET pos == CHOOSE p \in starts : \A q \in starts : p <= q
            IN [at |-> pos + 9, len |-> Word(d, pos + 7)]

CutAfter(d, n) == <<SubSeq(d, 1, n), SubSeq(d, n + 1, Len(d))>>

Half(d) == CutAfter(d, Len(d) \div 2)

FragmentAtSNIEnd(d) ==
    LET sni == FindSNIOffset(d)
    IN IF sni = NoName THEN Half(d) ELSE CutAfter(d, sni.at - 1 + sni.len)

FragmentAtSNI(d) ==
    LET sni == FindSNIOffset(d)
    IN IF sni = NoName THEN Half(d) ELSE CutAfter(d, sni.at - 1 + sni.len \div 2)

FragmentMultiWholeChunks(d, chunk) ==
    [i \in 1 .. Len(d) \div chunk |-> SubSeq(d, chunk * (i - 1) + 1, chunk * i)]

FragmentMulti(d, chunk) ==
    [i \in 1 .. (Len(d) + chunk - 1) \div chunk |->
        SubSeq(d, chunk * (i - 1) + 1, IF chunk * i > Len(d) THEN Len(d) ELSE chunk * i)]

TlsRecordFragmentOldLength(d) ==
    LET halves == Half(SubSeq(d, 6, Len(d)))
    IN [i \in 1 .. 2 |-> SubSeq(d, 1, 5) \o halves[i]]

\* The halves of all that follows the first five bytes, each under a header of its own.
TlsRecordFragment(d) ==
    LET halves == Half(SubSeq(d, 6, Len(d)))
    IN [i \in 1 .. 2 |-> SubSeq(d, 1, 3) \o TwoBytes(Len(halves[i])) \o halves[i]]

FragmentClientHello(d, strategy) ==
    IF Len(d) < 10 \/ d[1] # 22 THEN <<d>>
    ELSE CASE strategy = "sni_split" -> FragmentAtSNI(d)
           [] strategy = "half" -> Half(d)
           [] strategy = "multi" -> FragmentMulti(d, 24)
           [] strategy = "tls_record_frag" -> TlsRecordFragment(d)
           [] OTHER -> <<d>>

-----------------------------------------------------------------------------
FlightInit ==
    /\ stream \in AllStreams
    /\ fragmentStrategy \in FragmentStrategies
    /\ first = <<>> /\ frags = <<>> /\ received = <<>>
    /\ flightPc = "read"

\* The one Read of handleConn returns what has arrived by then.
ReadFirstBytes ==
    /\ flightPc = "read"
    /\ \E n \in ReadSizes(stream) :
        /\ first' = SubSeq(stream, 1, n)
        /\ frags' = FragmentClientHello(first', fragmentStrategy)
    /\ flightPc' = "write"
    /\ UNCHANGED <<stream, fragmentStrategy, received>>

WriteFragment ==
    /\ flightPc = "write"
    /\ frags # <<>>
    /\ received' = received \o Head(frags)
    /\ frags' = Tail(frags)
    /\ UNCHANGED <<stream, fragmentStrategy, first, flightPc>>

\* The upstream is gone: Apply returns false, and so would any later write.
WriteFragmentFails ==
    /\ flightPc = "write"
    /\ frags # <<>>
    /\ flightPc' = "lost"
    /\ UNCHANGED <<stream, fragmentStrategy, first, frags, received>>

\* relay copies what the client sends after the first read.
RelayRest ==
    /\ flightPc = "write"
    /\ frags = <<>>
    /\ received' = received \o SubSeq(stream, Len(first) + 1, Len(stream))
    /\ flightPc' = "relayed"
    /\ UNCHANGED <<stream, fragmentStrategy, first, frags>>

FlightNext == ReadFirstBytes \/ WriteFragment \/ WriteFragmentFails \/ RelayRest

FlightSpec == FlightInit /\ [][FlightNext]_flightVars

-----------------------------------------------------------------------------
(* Properties *)

\* No record is of type 0.
Broken == <<0, 0>>

\* What a TLS endpoint gets out of a byte stream: each byte with its record's type, or
\* Broken from where the headers and lengths do not add up.
Contents(d) ==
    LET from[pos \in 1 .. Len(d) + 1] ==
            IF pos > Len(d) THEN <<>>
            ELSE IF pos + 4 > Len(d) \/ d[pos] \notin 20 .. 23 THEN <<Broken>>
            ELSE LET end == pos + 4 + Word(d, pos + 3)
                 IN IF end > Len(d) THEN <<Broken>>
                    ELSE [i \in 1 .. end - pos - 4 |-> <<d[pos], d[pos + 4 + i]>>]
                            \o from[end + 1]
    IN from[1]

\* Only tls_record_frag changes bytes: under every other strategy the upstream receives
\* the client's stream, none of it lost, repeated or out of order, wherever the first
\* read ended and however many pieces it was cut into.
StreamUnchanged ==
    fragmentStrategy # "tls_record_frag" =>
        /\ IsPrefix(received, stream)
        /\ flightPc = "relayed" => received = stream

\* fragment.go:9-10: nothing is sliced into bogus records. What the client's TLS records
\* carry is what the upstream's TLS endpoint gets, under tls_record_frag too.
RecordsSurvive ==
    flightPc = "relayed" => Contents(received) = Contents(stream)

\* It is if the first read returned exactly one whole record.
WholeRecordSurvives ==
    flightPc = "relayed" /\ Len(first) >= 5 /\ Len(first) = 5 + Word(first, 4)
        => Contents(received) = Contents(stream)

\* What FindSNIOffset relies on, and no client promises: of all places in what was read,
\* the server name's extension is the first that looks like one, it is of the one type of
\* name that TLS knows, and of a length the scan expects.
NameComesFirst(d) ==
    LET sni == ParseClientHello(d)
    IN /\ d[sni.at - 3] = 0
       /\ Word(d, sni.at - 7) <= 255
       /\ \A pos \in 1 .. sni.at - 10 : ~SniExtensionAt(d, pos)

\* sni_split cuts the name the server will read: whenever the first read holds a hello
\* whose name the parser finds, with at least two letters, neither piece holds it whole,
\* unless something before the name looks like a server name to the scan, which knows
\* nothing of what it passes over: zeros of the random, the session id, the suites or of
\* other extensions can do so, and then the cut is anywhere.
SniIsCut ==
    LET sni == ParseClientHello(first)
    IN fragmentStrategy = "sni_split" /\ Len(frags) = 2 /\ sni.len >= 2 /\ NameComesFirst(first)
        => Len(frags[1]) \in sni.at .. sni.at + sni.len - 2

\* The fake hello always has the size of a real one: for every name the guardrails of
\* the configuration accept it fills exactly 517 bytes, is well-formed records only, and
\* the scan finds the name where the parser does.
DecoyIsPlausible ==
    \A n \in NameLens :
        stream = BuildClientHello(Filler(n)) =>
            /\ n <= 219 => Len(stream) = 517
            /\ Broken \notin {Contents(stream)[i] : i \in {1, Len(Contents(stream))}}
            /\ ParseClientHello(stream).len = n
            /\ FindSNIOffset(stream) = ParseClientHello(stream)
====
