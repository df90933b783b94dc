---- MODULE ClientHello ----
(***************************************************************************)
(* The ClientHello builder and parser (internal/tlsutil/builder.go) on     *)
(* sequences of bytes.  Only bytes that somebody looks at later are kept:  *)
(* type codes and lengths, and the zeros among them, for FindSNIOffset     *)
(* scans for zeros.  The rest (random bytes, suites, keys, bodies of the   *)
(* fixed extensions) is a filler.                                          *)
(***************************************************************************)
EXTENDS Naturals, Sequences, SequencesExt

Filler(n) == [i \in 1 .. n |-> 7]

\* PutUint16 and Uint16. Positions count from 1.
TwoBytes(n) == <<(n \div 256) % 256, n % 256>>
Word(d, i) == 256 * d[i] + d[i + 1]

Record(type, content) == <<type, 3, 1>> \o TwoBytes(Len(content)) \o content
Handshake(body) == <<1, (Len(body) \div 65536) % 256>> \o TwoBytes(Len(body)) \o body
Extension(type, body) == TwoBytes(type) \o TwoBytes(Len(body)) \o body

BuildSNIExtension(name) ==
    LET entry == <<0>> \o TwoBytes(Len(name)) \o name
    IN Extension(0, TwoBytes(Len(entry)) \o entry)

BuildKeyShareExtension(key) ==
    LET entry == TwoBytes(29) \o TwoBytes(Len(key)) \o key
    IN Extension(51, TwoBytes(Len(entry)) \o entry)

\* ecPointFormats, supportedGroups, sessionTicket, alpn, encryptThenMAC,
\* extendedMasterSecret, signatureAlgorithms, supportedVersions, pskKeyExchange.
FixedExtensions ==
    Extension(11, Filler(4)) \o Extension(10, Filler(22)) \o Extension(35, <<>>)
      \o Extension(16, Filler(14)) \o Extension(22, <<>>) \o Extension(23, <<>>)
      \o Extension(13, Filler(42)) \o Extension(43, Filler(5)) \o Extension(45, Filler(2))

BuildPaddingExtensionNoHeader(target, current) ==
    IF current > target THEN <<>> ELSE Extension(21, [i \in 1 .. target - current |-> 0])

\* Fills up to the target, where there is room for the extension's header at least.
BuildPaddingExtension(target, current) ==
    IF current + 4 > target THEN <<>> ELSE Extension(21, [i \in 1 .. target - current - 4 |-> 0])

BuildClientHello(name) ==
    LET exts == BuildSNIExtension(name) \o FixedExtensions \o BuildKeyShareExtension(Filler(32))
        fields == <<3, 3>> \o Filler(32) \o <<32>> \o Filler(32)
                    \o TwoBytes(36) \o Filler(36) \o <<1, 0>>
        padding == BuildPaddingExtension(517, 5 + 4 + Len(fields) + 2 + Len(exts))
    IN Record(22, Handshake(fields \o TwoBytes(Len(exts \o padding)) \o exts \o padding))

NoName == [at |-> 0, len |-> 0]

\* The server names of the extensions from position pos on, up to the first one that
\* does not fit; the last name is the one the map keeps.
ServerName(d, first, end) ==
    LET walk[pos \in 1 .. end + 1] ==
            IF pos + 3 > end \/ pos + 3 + Word(d, pos + 2) > end THEN NoName
            ELSE LET len == Word(d, pos + 2)
                     later == walk[pos + 4 + len]
                     nameLen == Word(d, pos + 7)
                 IN IF later # NoName THEN later
                    ELSE IF Word(d, pos) = 0 /\ len >= 5 /\ 5 + nameLen <= len
                    THEN [at |-> pos + 9, len |-> nameLen]
                    ELSE NoName
    IN walk[first]

\* Where ParseClientHello finds the name, in a hello that may be cut off anywhere: after
\* record, handshake, version and random come session id, suites and compression.
ParseClientHello(d) ==
    IF Len(d) < 44 \/ d[1] # 22 \/ d[6] # 1 THEN NoName
    ELSE LET suites == 45 + d[44]
         IN IF suites + 1 > Len(d) THEN NoName
    ELSE LET compression == suites + 2 + Word(d, suites)
         IN IF compression > Len(d) THEN NoName
    ELSE LET extensions == compression + 1 + d[compression]
         IN IF extensions + 1 > Len(d) THEN NoName
    ELSE LET end == extensions + 1 + Word(d, extensions)
         IN ServerName(d, extensions + 2, IF end > Len(d) THEN Len(d) ELSE end)
====
